----------------------------- MODULE CJsonTree -----------------------------
(***************************************************************************)
(* The item trees of cJSON.c: items in memory linked by next, prev and     *)
(* child, with a key and a value that may be strings on the heap, shared   *)
(* with another item (IsReference) or constant (StringIsConst).  A caller  *)
(* holds the roots, adds an item to one container at a time, and neither   *)
(* changes nor deletes what a living reference shares.  Memory may run out *)
(* in every operation: after fuel allocations, or when no item is free.    *)
(***************************************************************************)
EXTENDS Integers, Sequences, FiniteSets

CONSTANTS MaxItems,            \* bound on the items alive
          Types,               \* types of the items created singly
          Values,              \* types of the elements of arrays created at once
          Keys,                \* names of members
          Fold(_),             \* a name in lower case
          Fuels                \* numbers of allocations that succeed in an operation

VARIABLES tree,                \* items, number of strings on the heap, whether memory was misused
          roots,               \* the items the caller holds
          lost                 \* the items nobody holds any more

vars == <<tree, roots, lost>>

Nil == 0
Items == 1 .. MaxItems
NoItem == [type |-> "free", ref |-> FALSE, const |-> FALSE, key |-> "", value |-> FALSE,
           of |-> Nil, next |-> Nil, prev |-> Nil, child |-> Nil]

Live == {i \in Items : tree.h[i].type # "free"}
Containers == {i \in Live : tree.h[i].type \in {"array", "object"} /\ ~tree.h[i].ref}
-----------------------------------------------------------------------------
(* Helpers: [t, item] is what an operation leaves and what it returns.     *)

FreeItems(t) == {i \in Items : t.h[i].type = "free"}

cJSON_New_Item(t, type) ==
    IF t.fuel = 0 \/ FreeItems(t) = {} THEN [t |-> t, item |-> Nil]
    ELSE LET i == CHOOSE i \in FreeItems(t) : \A j \in FreeItems(t) : i <= j
         IN  [t |-> [t EXCEPT !.fuel = @ - 1, !.h[i].type = type], item |-> i]

\* A string on the heap is a unit of t.strings
cJSON_strdup(t) == [t EXCEPT !.fuel = @ - 1, !.strings = @ + 1]

B(b) == IF b THEN 1 ELSE 0

FreeKey(t, i) == [t EXCEPT !.strings = @ - B(~t.h[i].const /\ t.h[i].key # "")]

RECURSIVE cJSON_Delete(_, _)
cJSON_Delete(t, i) ==
    IF i = Nil THEN t
    ELSE IF t.h[i].type = "free" THEN [t EXCEPT !.fault = TRUE]
    ELSE LET below == IF t.h[i].ref THEN t ELSE cJSON_Delete(t, t.h[i].child)
             value == [below EXCEPT !.strings = @ - B(~t.h[i].ref /\ t.h[i].value)]
         IN  cJSON_Delete([FreeKey(value, i) EXCEPT !.h[i] = NoItem], t.h[i].next)

RECURSIVE Chain(_, _)
\* The list that starts at i
Chain(t, i) == IF i = Nil THEN <<>> ELSE <<i>> \o Chain(t, t.h[i].next)

Kids(t, c) == Chain(t, t.h[c].child)

get_array_item(t, c, index) == IF index < Len(Kids(t, c)) THEN Kids(t, c)[index + 1] ELSE Nil

\* The first element with this name; the search by exact name ends at an element
\* that has none
get_object_item(t, c, name, case_sensitive) ==
    LET k == Kids(t, c)
        Stops(i) == \/ case_sensitive /\ t.h[i].key \in {"", name}
                    \/ ~case_sensitive /\ t.h[i].key # "" /\ Fold(t.h[i].key) = Fold(name)
        hits == {n \in DOMAIN k : Stops(k[n])}
        first == CHOOSE n \in hits : \A m \in hits : n <= m
    IN  IF hits = {} \/ t.h[k[first]].key = "" THEN Nil ELSE k[first]

suffix_object(t, prev, i) == [t EXCEPT !.h[prev].next = i, !.h[i].prev = prev]

\* Mutant: the new last element does not point back
add_item_to_array_no_prev(t, c, i) ==
    LET k == Kids(t, c)
    IN  IF i = Nil THEN t
        ELSE IF k = <<>> THEN [t EXCEPT !.h[c].child = i]
        ELSE [t EXCEPT !.h[k[Len(k)]].next = i]

add_item_to_array(t, c, i) ==
    LET k == Kids(t, c)
    IN  IF i = Nil THEN t
        ELSE IF k = <<>> THEN [t EXCEPT !.h[c].child = i]
        ELSE suffix_object(t, k[Len(k)], i)

CanAddToObject(t, i, constant_key) == i # Nil /\ (constant_key \/ t.fuel > 0)

\* Mutant: the old name is not freed
add_item_to_object_leaks(t, c, name, i, constant_key) ==
    IF ~CanAddToObject(t, i, constant_key) THEN t
    ELSE LET named == IF constant_key THEN t ELSE cJSON_strdup(t)
         IN  add_item_to_array([named EXCEPT !.h[i].key = name, !.h[i].const = constant_key], c, i)

add_item_to_object(t, c, name, i, constant_key) ==
    IF ~CanAddToObject(t, i, constant_key) THEN t
    ELSE LET named == IF constant_key THEN t ELSE cJSON_strdup(t)
         IN  add_item_to_array([FreeKey(named, i) EXCEPT !.h[i].key = name, !.h[i].const = constant_key], c, i)

\* The copy shares value and children; its flag StringIsConst stays as it was
create_reference(t, i) ==
    LET n == cJSON_New_Item(t, t.h[i].type)
        of == IF t.h[i].ref THEN t.h[i].of ELSE i
    IN  IF n.item = Nil THEN n
        ELSE [n EXCEPT !.t.h[n.item] = [t.h[i] EXCEPT !.key = "", !.ref = TRUE, !.of = of, !.next = Nil, !.prev = Nil]]

cJSON_DetachItemViaPointer(t, c, i) ==
    IF i = Nil THEN t
    ELSE LET n == t.h[i].next
             p == t.h[i].prev
             h1 == IF p = Nil THEN t.h ELSE [t.h EXCEPT ![p].next = n]
             h2 == IF n = Nil THEN h1 ELSE [h1 EXCEPT ![n].prev = p]
             h3 == IF i = t.h[c].child THEN [h2 EXCEPT ![c].child = n] ELSE h2
         IN  [t EXCEPT !.h = [h3 EXCEPT ![i].prev = Nil, ![i].next = Nil]]

cJSON_ReplaceItemViaPointer(t, c, i, new) ==
    IF i = Nil \/ i = new THEN t
    ELSE LET n == t.h[i].next
             p == t.h[i].prev
             h1 == [t.h EXCEPT ![new].next = n, ![new].prev = p]
             h2 == IF n = Nil THEN h1 ELSE [h1 EXCEPT ![n].prev = new]
             h3 == IF p = Nil THEN h2 ELSE [h2 EXCEPT ![p].next = new]
             h4 == IF t.h[c].child = i THEN [h3 EXCEPT ![c].child = new] ELSE h3
         IN  cJSON_Delete([t EXCEPT !.h = [h4 EXCEPT ![i].next = Nil, ![i].prev = Nil]], i)

cJSON_CreateString(t) ==
    LET n == cJSON_New_Item(t, "string")
    IN  IF n.item = Nil THEN n
        ELSE IF n.t.fuel = 0 THEN [t |-> cJSON_Delete(n.t, n.item), item |-> Nil]
        ELSE [n EXCEPT !.t = [cJSON_strdup(n.t) EXCEPT !.h[n.item].value = TRUE]]

CreateItem(t, type) == IF type = "string" THEN cJSON_CreateString(t) ELSE cJSON_New_Item(t, type)

RECURSIVE cJSON_Duplicate(_, _, _), DuplicateKids(_, _, _, _)
cJSON_Duplicate(t, i, recurse) ==
    LET n == cJSON_New_Item(t, t.h[i].type)
        old == t.h[i]
        new == n.item
        owned == old.key # "" /\ ~old.const
        t1 == IF old.value THEN [cJSON_strdup(n.t) EXCEPT !.h[new].value = TRUE] ELSE n.t
        t2 == IF owned THEN cJSON_strdup(t1) ELSE t1
        t3 == [t2 EXCEPT !.h[new].key = old.key, !.h[new].const = old.const]
    IN  IF new = Nil THEN n
        ELSE IF old.value /\ n.t.fuel = 0 THEN [t |-> cJSON_Delete(n.t, new), item |-> Nil]
        ELSE IF owned /\ t1.fuel = 0 THEN [t |-> cJSON_Delete([t1 EXCEPT !.h[new].const = old.const], new), item |-> Nil]
        ELSE IF ~recurse THEN [t |-> t3, item |-> new]
        ELSE DuplicateKids(t3, old.child, new, Nil)

\* The children from the list i on are copied behind last
DuplicateKids(t, i, new, last) ==
    IF i = Nil THEN [t |-> t, item |-> new]
    ELSE LET d == cJSON_Duplicate(t, i, TRUE)
         IN  IF d.item = Nil THEN [t |-> cJSON_Delete(d.t, new), item |-> Nil]
             ELSE DuplicateKids(IF last = Nil THEN [d.t EXCEPT !.h[new].child = d.item]
                                ELSE suffix_object(d.t, last, d.item),
                                t.h[i].next, new, d.item)

RECURSIVE ArrayOf(_, _, _, _, _)
\* cJSON_CreateIntArray, ...FloatArray, ...DoubleArray and ...StringArray: count elements follow
ArrayOf(t, type, a, p, count) ==
    IF count = 0 THEN [t |-> t, item |-> a]
    ELSE LET n == CreateItem(t, type)
         IN  IF n.item = Nil THEN [t |-> cJSON_Delete(n.t, a), item |-> Nil]
             ELSE ArrayOf(IF p = Nil THEN [n.t EXCEPT !.h[a].child = n.item] ELSE suffix_object(n.t, p, n.item),
                          type, a, n.item, count - 1)

RECURSIVE cJSON_Compare(_, _, _, _)

\* Mutant: the members of the second object are not looked for in the first
cJSON_Compare_subset(t, a, b, cs) ==
    LET k == Kids(t, a)
        l == Kids(t, b)
        Find(e) == IF t.h[e].key = "" THEN Nil ELSE get_object_item(t, b, t.h[e].key, cs)
    IN  /\ t.h[a].type = t.h[b].type
        /\ t.h[a].type = "array" => Len(k) = Len(l) /\ \A n \in DOMAIN k : cJSON_Compare(t, k[n], l[n], cs)
        /\ t.h[a].type = "object" => \A n \in DOMAIN k : Find(k[n]) # Nil /\ cJSON_Compare(t, k[n], Find(k[n]), cs)

cJSON_Compare(t, a, b, cs) ==
    LET k == Kids(t, a)
        l == Kids(t, b)
        Covers(x, y) ==
            \A n \in DOMAIN Kids(t, x) :
                LET e == Kids(t, x)[n]
                    f == IF t.h[e].key = "" THEN Nil ELSE get_object_item(t, y, t.h[e].key, cs)
                IN  f # Nil /\ cJSON_Compare(t, e, f, cs)
    IN  /\ t.h[a].type = t.h[b].type
        /\ \/ a = b
           \/ t.h[a].type = "null"
           \/ t.h[a].type = "string"
           \/ t.h[a].type = "array" /\ Len(k) = Len(l) /\ \A n \in DOMAIN k : cJSON_Compare(t, k[n], l[n], cs)
           \/ t.h[a].type = "object" /\ Covers(a, b) /\ Covers(b, a)
-----------------------------------------------------------------------------
(* What the caller may do.                                                 *)

RECURSIVE Below(_, _)
\* i and the items it owns
Below(t, i) == {i} \union IF t.h[i].ref THEN {} ELSE UNION {Below(t, Kids(t, i)[n]) : n \in DOMAIN Kids(t, i)}

NotShared(S) == \A r \in Live : tree.h[r].ref /\ tree.h[r].of \in S => r \in S
MayChange(c) == c \in Containers /\ ~\E r \in Live : tree.h[r].ref /\ tree.h[r].of = c
MayAdd(c, i) == MayChange(c) /\ i \in roots /\ c \notin Below(tree, i)
MayLose(i) == i \in Items => NotShared(Below(tree, i))

With(fuel) == [tree EXCEPT !.fuel = fuel]
Done(t) == tree' = [t EXCEPT !.fuel = 0]
Held(i) == roots' = roots \union ({i} \ {Nil})

Init ==
    /\ tree = [h |-> [i \in Items |-> NoItem], strings |-> 0, fault |-> FALSE, fuel |-> 0]
    /\ roots = {}
    /\ lost = {}

Create(type, fuel) ==
    LET n == CreateItem(With(fuel), type)
    IN  Done(n.t) /\ Held(n.item) /\ UNCHANGED lost

cJSON_CreateIntArray(type, count, fuel) ==
    LET a == cJSON_New_Item(With(fuel), "array")
        n == IF a.item = Nil THEN a ELSE ArrayOf(a.t, type, a.item, Nil, count)
    IN  Done(n.t) /\ Held(n.item) /\ UNCHANGED lost

cJSON_AddItemToArray(c, i) ==
    /\ MayAdd(c, i)
    /\ Done(add_item_to_array(tree, c, i))
    /\ roots' = roots \ {i}
    /\ UNCHANGED lost

cJSON_AddItemToObject(c, name, i, constant_key, fuel) ==
    /\ MayAdd(c, i)
    /\ Done(add_item_to_object(With(fuel), c, name, i, constant_key))
    /\ roots' = IF CanAddToObject(With(fuel), i, constant_key) THEN roots \ {i} ELSE roots
    /\ UNCHANGED lost

cJSON_AddItemReferenceToArray(c, i, fuel) ==
    LET r == create_reference(With(fuel), i)
    IN  /\ MayChange(c) /\ i \in Live \ lost /\ c \notin Below(tree, i)
        /\ Done(add_item_to_array(r.t, c, r.item))
        /\ UNCHANGED <<roots, lost>>

\* The reference is lost when its name cannot be copied
cJSON_AddItemReferenceToObject(c, name, i, fuel) ==
    LET r == create_reference(With(fuel), i)
    IN  /\ MayChange(c) /\ i \in Live \ lost /\ c \notin Below(tree, i)
        /\ Done(add_item_to_object(r.t, c, name, r.item, FALSE))
        /\ lost' = IF r.item # Nil /\ ~CanAddToObject(r.t, r.item, FALSE) THEN lost \union {r.item} ELSE lost
        /\ UNCHANGED roots

\* cJSON_AddNullToObject and its like: the new item is deleted when it cannot be added
cJSON_AddNullToObject(c, name, type, fuel) ==
    LET n == CreateItem(With(fuel), type)
    IN  /\ MayChange(c)
        /\ Done(IF CanAddToObject(n.t, n.item, FALSE) THEN add_item_to_object(n.t, c, name, n.item, FALSE)
                ELSE cJSON_Delete(n.t, n.item))
        /\ UNCHANGED <<roots, lost>>

Detach(c, i) ==
    /\ MayChange(c)
    /\ Done(cJSON_DetachItemViaPointer(tree, c, i))
    /\ Held(i)
    /\ UNCHANGED lost

DetachAndDelete(c, i) ==
    /\ MayChange(c) /\ MayLose(i)
    /\ Done(cJSON_Delete(cJSON_DetachItemViaPointer(tree, c, i), i))
    /\ UNCHANGED <<roots, lost>>

cJSON_InsertItemInArray(c, which, new) ==
    LET after == get_array_item(tree, c, which)
        p == tree.h[after].prev
        h1 == [tree.h EXCEPT ![new].next = after, ![new].prev = p, ![after].prev = new]
        h2 == IF after = tree.h[c].child THEN [h1 EXCEPT ![c].child = new] ELSE [h1 EXCEPT ![p].next = new]
    IN  /\ MayAdd(c, new)
        /\ Done(IF after = Nil THEN add_item_to_array(tree, c, new) ELSE [tree EXCEPT !.h = h2])
        /\ roots' = roots \ {new}
        /\ UNCHANGED lost

cJSON_ReplaceItemInArray(c, which, new) ==
    LET i == get_array_item(tree, c, which)
    IN  /\ MayAdd(c, new) /\ MayLose(i)
        /\ Done(cJSON_ReplaceItemViaPointer(tree, c, i, new))
        /\ roots' = IF i = Nil THEN roots ELSE roots \ {new}
        /\ UNCHANGED lost

\* The new item is renamed even if there is nothing to replace, and loses its name
\* when there is no memory for the new one
replace_item_in_object(c, name, new, case_sensitive, fuel) ==
    LET t == FreeKey(With(fuel), new)
        named == IF fuel = 0 THEN t ELSE cJSON_strdup(t)
        t2 == [named EXCEPT !.h[new].key = IF fuel = 0 THEN "" ELSE name, !.h[new].const = FALSE]
        i == get_object_item(tree, c, name, case_sensitive)
    IN  /\ MayAdd(c, new) /\ MayLose(i)
        /\ Done(cJSON_ReplaceItemViaPointer(t2, c, i, new))
        /\ roots' = IF i = Nil THEN roots ELSE roots \ {new}
        /\ UNCHANGED lost

Delete(i) ==
    /\ i \in roots /\ MayLose(i)
    /\ Done(cJSON_Delete(tree, i))
    /\ roots' = roots \ {i}
    /\ UNCHANGED lost

Duplicate(i, recurse, fuel) ==
    LET d == cJSON_Duplicate(With(fuel), i, recurse)
    IN  Done(d.t) /\ Held(d.item) /\ UNCHANGED lost

Element(c) ==
    {get_array_item(tree, c, n) : n \in 0 .. 2} \union {get_object_item(tree, c, k, cs) : k \in Keys, cs \in BOOLEAN}

Next ==
    \/ \E type \in Types, f \in Fuels : Create(type, f)
    \/ \E type \in Values, n \in 0 .. 2, f \in Fuels : cJSON_CreateIntArray(type, n, f)
    \/ \E i \in roots : Delete(i)
    \/ \E i \in Live \ lost, r \in BOOLEAN, f \in Fuels : Duplicate(i, r, f)
    \/ \E c \in Containers :
          \/ \E i \in roots :
                \/ cJSON_AddItemToArray(c, i)
                \/ \E k \in Keys, b \in BOOLEAN, f \in Fuels :
                      cJSON_AddItemToObject(c, k, i, b, f) \/ replace_item_in_object(c, k, i, b, f)
                \/ \E n \in 0 .. 2 : cJSON_InsertItemInArray(c, n, i) \/ cJSON_ReplaceItemInArray(c, n, i)
          \/ \E i \in Live, f \in Fuels :
                cJSON_AddItemReferenceToArray(c, i, f) \/ \E k \in Keys : cJSON_AddItemReferenceToObject(c, k, i, f)
          \/ \E k \in Keys, type \in Values, f \in Fuels : cJSON_AddNullToObject(c, k, type, f)
          \/ \E i \in Element(c) : Detach(c, i) \/ DetachAndDelete(c, i)

Spec == Init /\ [][Next]_vars
-----------------------------------------------------------------------------
\* Every item is held by the caller, or stands exactly once in the list of exactly one
\* container, or is the reference a failed operation lost; lists are linked both ways
TreeIsWellLinked ==
    LET owners(i) == {<<c, n>> \in Containers \X (1 .. MaxItems) : n <= Len(Kids(tree, c)) /\ Kids(tree, c)[n] = i}
        B2(i) == Cardinality(owners(i)) + B(i \in roots) + B(i \in lost)
    IN  /\ \A i \in Live : B2(i) = 1
        /\ \A i \in Live : tree.h[i].next # Nil => tree.h[tree.h[i].next].prev = i
        /\ \A c \in Containers : tree.h[c].child # Nil => tree.h[tree.h[c].child].prev = Nil
        /\ \A i \in roots : tree.h[i].next = Nil /\ tree.h[i].prev = Nil

\* The strings on the heap are the names and values of the items that own them: none
\* is freed twice and none is lost, whichever allocation failed
StringsAreOwned ==
    /\ ~tree.fault
    /\ tree.strings = Cardinality({i \in Live : tree.h[i].key # "" /\ ~tree.h[i].const})
                      + Cardinality({i \in Live : tree.h[i].value /\ ~tree.h[i].ref})

RECURSIVE Same(_, _), PlainTree(_)
Same(a, b) ==
    LET k == Kids(tree, a)
        l == Kids(tree, b)
        Members(s) == {tree.h[s[n]].key : n \in DOMAIN s}
    IN  /\ tree.h[a].type = tree.h[b].type
        /\ Len(k) = Len(l)
        /\ tree.h[a].type = "array" => \A n \in DOMAIN k : Same(k[n], l[n])
        /\ tree.h[a].type = "object" =>
              /\ Members(k) = Members(l)
              /\ \A n \in DOMAIN k, m \in DOMAIN l : tree.h[k[n]].key = tree.h[l[m]].key => Same(k[n], l[m])

\* The members of objects have names, and different ones
PlainTree(i) ==
    LET k == Kids(tree, i)
    IN  /\ tree.h[i].type = "object" =>
              \A n, m \in DOMAIN k : tree.h[k[n]].key # "" /\ (tree.h[k[n]].key = tree.h[k[m]].key => n = m)
        /\ \A n \in DOMAIN k : PlainTree(k[n])

\* Trees compare equal exactly when they have the same elements in the same order and
\* the same members in any order
CompareIsEquality ==
    \A a, b \in Live : PlainTree(a) /\ PlainTree(b) => (cJSON_Compare(tree, a, b, TRUE) <=> Same(a, b))

\* A duplicate equals its original, whether or not names repeat in other objects
DuplicateIsEqual ==
    \A a \in Live :
        LET d == cJSON_Duplicate(With(99), a, TRUE)
        IN  d.item # Nil /\ PlainTree(a) => cJSON_Compare(d.t, a, d.item, TRUE)
=============================================================================
