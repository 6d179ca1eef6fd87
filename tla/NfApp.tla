------------------------------- MODULE NfApp -------------------------------
(***************************************************************************)
(* What the example network functions share: a main that registers with    *)
(* the manager, reads its options, runs the packet loop and stops, and a   *)
(* count of packets that is shown every so many of them.  The life of a    *)
(* function is a record; a command line is a function from the letters of  *)
(* its options to their values, -1 for a value that is missing.            *)
(***************************************************************************)
EXTENDS Integers, TLC

\* No packet is handled before the options are read and none after the stop
Off == [phase |-> "off", arg |-> <<>>, counter |-> 0, shown |-> 0]
Gone == [Off EXCEPT !.phase = "gone"]
Runs(app) == app.phase = "run"

\* getopt: every option is known and has its value, the required ones are there, and
\* the values are in range.  Options keep their default when they are not given
Parses(argv, defaults, required, valid) ==
    /\ DOMAIN argv \subseteq DOMAIN defaults
    /\ required \subseteq DOMAIN argv
    /\ \A o \in DOMAIN argv : argv[o] # -1 /\ argv[o] \in valid[o]

\* Registration may fail or be interrupted; the run starts after the options are read
Main(argv, registered, parses, defaults) ==
    IF registered /\ parses
    THEN [Off EXCEPT !.phase = "run",
                     !.arg = [o \in DOMAIN defaults |-> IF o \in DOMAIN argv THEN argv[o] ELSE defaults[o]]]
    ELSE Gone

\* A static counter that starts again whenever it reaches the delay: the display adds
\* the delay to what it showed before
Display(app) == [app EXCEPT !.shown = @ + app.arg["p"], !.counter = 0]
Counted(app) ==
    IF app.counter + 1 = app.arg["p"] THEN Display(app) ELSE [app EXCEPT !.counter = @ + 1]
=============================================================================
