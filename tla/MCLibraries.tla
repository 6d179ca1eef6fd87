---------------------------- MODULE MCLibraries -----------------------------
(***************************************************************************)
(* The libraries, data structures and algorithms below the UPF, each on a  *)
(* small instance.  A behaviour is one of one part, chosen at the start,   *)
(* whose variables take the places v1, v2, ... in the order of its module; *)
(* the places it does not need hold 0.                                     *)
(***************************************************************************)
EXTENDS Integers, Sequences, FiniteSets, TLC

VARIABLES part, v1, v2, v3, v4, v5, v6, v7, v8, v9, v10, v11, v12, v13

vars == <<part, v1, v2, v3, v4, v5, v6, v7, v8, v9, v10, v11, v12, v13>>

\* The red-black tree of one level.
Rb == INSTANCE RbTree WITH Keys <- 1 .. 7, tree <- v1, stored <- v2

\* Three nested PDRs and two that tie, in both directions.
Pdr(ul, teid, flow, prefix, precedence, d) ==
    [uplink |-> ul, ue |-> {1}, teid |-> teid, flow |-> flow, prefix |-> prefix,
     precedence |-> precedence, descriptor |-> d]
SomePdrs == {Pdr(FALSE, 0, <<>>, <<0, 0>>, 3, 1),
             Pdr(FALSE, 0, <<"prefix", "assigned">>, <<2, 1>>, 1, 2),
             Pdr(FALSE, 0, <<"prefix", "assigned">>, <<3, 2>>, 0, 3),
             Pdr(TRUE, 1, <<"any", "assigned">>, <<0, 0>>, 2, 5),
             Pdr(FALSE, 0, <<>>, <<0, 0>>, 2, 7)}
Ps == INSTANCE PartitionSort WITH
    Pdrs <- SomePdrs, Bits <- 2, MaxPrec <- 3, Fields <- 4, ANY32 <- 99,
    Packets <- {<<q[1], 1 - q[1], q[2], q[3]>> : q \in {0, 1} \X {1, 2} \X (0 .. 3)},
    mitrees <- v1, trees <- v2, rules <- v3, descriptorIndexMap <- v4

\* Hashes whose buckets make chains of displacements, and two nodes of one hash.
Pairs == <<<<0, 0>>, <<0, 1>>, <<0, 1>>, <<1, 2>>, <<1, 2>>, <<0, 0>>>>
Cm == INSTANCE Cmap WITH
    Nodes <- 1 .. 6, HashOf <- [n \in 1 .. 6 |-> IF n = 6 THEN 1 ELSE n % 5],
    CMAP_K <- 2, MAX_DEPTH <- 2, MaxMask <- 3, Bases <- {1, 2},
    Rehash <- [b \in 1 .. 2 |-> [h \in 0 .. 5 |->
                 IF b = 1 THEN Pairs[h + 1] ELSE <<h \div 2, h * 3 + 1>>]],
    impl <- v1, live <- v2

Rule(d, p, a, la, b, lb) ==
    [desc |-> d, priority |-> p, value |-> <<a, b>>, length |-> <<la, lb>>]
SumMod3(s) == IF s = <<>> THEN 0 ELSE (s[1] + s[2]) % 3
Ts == INSTANCE TupleSpace WITH
    Rules <- {Rule(1, 5, 2, 2, 0, 0), Rule(2, 7, 2, 1, 1, 2), Rule(3, 4, 0, 0, 0, 0),
              Rule(4, 6, 3, 2, 0, 0)},
    Packets <- {<<a, b>> : a \in 0 .. 3, b \in 0 .. 3}, Bits <- 2, Hash <- SumMod3,
    Builds <- {[prioritised |-> FALSE, dims |-> <<1, 2>>, deletes |-> TRUE],
               [prioritised |-> TRUE, dims |-> <<>>, deletes |-> TRUE],
               [prioritised |-> TRUE, dims |-> <<1, 2>>, deletes |-> FALSE]},
    build <- v1, all_tuples <- v2, order <- v3, desc_map <- v4, rules <- v5

Pa == INSTANCE Partitioner WITH
    Boxes <- {<< <<0, 1>>, <<0, 3>> >>, << <<1, 2>>, <<1, 2>> >>, << <<2, 3>>, <<0, 0>> >>,
              << <<1, 1>>, <<2, 3>> >>, << <<0, 3>>, <<2, 2>> >>, << <<2, 3>>, <<2, 3>> >>,
              << <<0, 1>>, <<3, 3>> >>},
    Dim <- 2, MaxRules <- 3, Scale <- 10000, rules <- v1

\* Transactions on a network that duplicates requests.
Dup == INSTANCE PfcpXact WITH
    Slots <- {"s1", "s2"}, Timers <- {"t1", "t2"}, Sqns <- {10, 11}, MaxXactId <- 4,
    RingSize <- 1, MaxReports <- 0, MaxOutstanding <- 1, NetDuplicates <- TRUE,
    PromptTimers <- TRUE,
    pool <- v1, xact <- v2, newest <- v3, timerPool <- v4, timer <- v5, active <- v6,
    firing <- v7, events <- v8, xactId <- v9, reports <- v10, overfull <- v11, evtLost <- v12,
    fault <- v13

\* Text of a string literal: letters, an escape, a control byte, surrogates, a blank
\* and a slash.
Jstr == INSTANCE CJsonText WITH
    Pieces <- {<<97>>, <<32>>, <<47>>, <<34>>, <<92>>, <<110>>, <<1>>, <<92, 117>>,
               <<92, 117, 100, 56, 51, 100>>, <<92, 117, 100, 101, 48, 48>>, <<92, 117, 50, 48, 97, 99>>},
    MaxPieces <- 4, CJSON_NESTING_LIMIT <- 0, text <- v1, count <- v2

\* Five pieces of JSON text.
Jtxt == INSTANCE CJsonText WITH
    Pieces <- {<<"[">>, <<"[", "[">>, <<"]">>, <<"{">>, <<"}">>, <<",">>, <<":">>, <<"s">>, <<"n">>,
               <<" ">>, <<"s", ":", "n">>},
    MaxPieces <- 5, CJSON_NESTING_LIMIT <- 2, text <- v1, count <- v2

\* Three items, one name.
Lower(name) == name
Jtree == INSTANCE CJsonTree WITH
    MaxItems <- 3, Types <- {"string", "object"}, Values <- {"string"}, Keys <- {"a"},
    Fold <- Lower, Fuels <- {0, 1, 2, 9}, tree <- v1, roots <- v2, lost <- v3

-----------------------------------------------------------------------------
\* The places from the nth on, and that they are not used.
From13 == <<v13>>
From12 == <<v12, From13>>
From11 == <<v11, From12>>
From10 == <<v10, From11>>
From9 == <<v9, From10>>
From8 == <<v8, From9>>
From7 == <<v7, From8>>
From6 == <<v6, From7>>
From5 == <<v5, From6>>
From4 == <<v4, From5>>
From3 == <<v3, From4>>
From2 == <<v2, From3>>
Idle13 == v13 = 0
Idle12 == v12 = 0 /\ Idle13
Idle11 == v11 = 0 /\ Idle12
Idle10 == v10 = 0 /\ Idle11
Idle9 == v9 = 0 /\ Idle10
Idle8 == v8 = 0 /\ Idle9
Idle7 == v7 = 0 /\ Idle8
Idle6 == v6 = 0 /\ Idle7
Idle5 == v5 = 0 /\ Idle6
Idle4 == v4 = 0 /\ Idle5
Idle3 == v3 = 0 /\ Idle4
Idle2 == v2 = 0 /\ Idle3

Init ==
    \/ part = "rb" /\ Rb!Init /\ Idle3
    \/ part = "ps" /\ Ps!Init /\ Idle5
    \/ part = "cmap" /\ Cm!Init /\ Idle3
    \/ part = "ts" /\ Ts!Init /\ Idle6
    \/ part = "pa" /\ Pa!Init /\ Idle2
    \/ part = "dup" /\ Dup!Init
    \/ part = "jstr" /\ Jstr!Init /\ Idle3
    \/ part = "jtxt" /\ Jtxt!Init /\ Idle3
    \/ part = "jtree" /\ Jtree!Init /\ Idle4

Next ==
    /\ UNCHANGED part
    /\ \/ part = "rb" /\ Rb!Next /\ UNCHANGED From3
       \/ part = "ps" /\ Ps!Next /\ UNCHANGED From5
       \/ part = "cmap" /\ Cm!Next /\ UNCHANGED From3
       \/ part = "ts" /\ Ts!Next /\ UNCHANGED From6
       \/ part = "pa" /\ Pa!Next /\ UNCHANGED From2
       \/ part = "dup" /\ Dup!Next
       \/ part = "jstr" /\ Jstr!Next /\ UNCHANGED From3
       \/ part = "jtxt" /\ Jtxt!Next /\ UNCHANGED From3
       \/ part = "jtree" /\ Jtree!Next /\ UNCHANGED From4

Spec == Init /\ [][Next]_vars
-----------------------------------------------------------------------------
\* What a structure says about itself holds after every change: red-black trees are
\* balanced, the rule indices, chains and lists name what they hold.
StructuresAreSound ==
    CASE part = "rb" -> Rb!TreeIsBalanced
      [] part = "ps" -> Ps!SearchedTreesAreLive /\ Ps!RulesAreIndexed
      [] part = "cmap" -> Cm!OneChainPerHash
      [] part = "ts" -> Ts!RuleListMirrorsTuples
      [] part = "dup" -> Dup!WalkStaysInList
      [] part = "jtree" -> Jtree!TreeIsWellLinked /\ Jtree!StringsAreOwned
      [] OTHER -> TRUE

\* A look-up finds what is stored, the best of it, and nothing else.
LookupsAreExact ==
    CASE part = "rb" -> Rb!BoxesAreFound
      [] part = "ps" -> Ps!LowestPrecedenceWins
      [] part = "cmap" -> Cm!FindIsExact /\ Cm!WalksVisitAll
      [] part = "ts" -> Ts!BestRuleIsFound
      [] OTHER -> TRUE

\* An algorithm computes what its definition says, on every small input.
ResultsMeetTheirDefinition ==
    CASE part = "pa" -> Pa!MwisIsMaximal /\ Pa!MaxIntersectionIsExact /\ Pa!BucketsAreSortable
      [] part = "jstr" -> Jstr!StringFits /\ Jstr!StringsRoundTrip /\ Jstr!Utf8IsWellFormed /\ Jstr!MinifyKeepsStrings
      [] part = "jtxt" -> Jtxt!ParserAcceptsJson /\ Jtxt!PrintedTextParses /\ Jtxt!PreallocatedSuffices
      [] part = "jtree" -> Jtree!CompareIsEquality /\ Jtree!DuplicateIsEqual
      [] OTHER -> TRUE
=============================================================================
