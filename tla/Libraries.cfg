SPECIFICATION Spec
INVARIANTS
    StructuresAreSound
    
    ResultsMeetTheirDefinition
CHECK_DEADLOCK FALSE
