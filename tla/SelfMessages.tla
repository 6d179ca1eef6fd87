---------------------------- MODULE SelfMessages ----------------------------
(***************************************************************************)
(* test_messaging: a function that sends messages to its own service and   *)
(* checks what comes back: one message, ten, and more than its ring holds. *)
(* The loop of the library takes one message from the ring, hands it to    *)
(* nf_msg_handler and calls test_handler.  Messages come from a pool that  *)
(* all functions share.  The time limit runs from the set-up, or from the  *)
(* last time it was found to have run out.                                 *)
(***************************************************************************)
EXTENDS NfApp, Sequences, FiniteSets, FiniteSetsExt

CONSTANTS Argvs,
          RingSize,     \* rte_ring_get_size: the ring holds one message less
          Several,      \* messages of the second test (10)
          Magic,        \* MAGIC_NUMBER
          PoolSize,     \* messages of the pool
          Strange,      \* the data of messages other functions send to the service
          Stop,         \* MSG_STOP of the manager
          MaxNoise,     \* bound on what others do
          MaxLate       \* bound on the times the limit runs out

VARIABLES app,
          test_phase, test_status, test_msg_count, tests_passed, mempool_count,
          msg_q,        \* the data of the messages in the ring
          avail, held,  \* messages in the pool, and on their way between others
          pc,           \* "message", "callback", "stopped", or "wild" when memory is corrupt
          time          \* the limit has run out; how often; what others did

vars == <<app, test_phase, test_status, test_msg_count, tests_passed, mempool_count, msg_q, avail, held, pc, time>>
tests == <<test_status, test_msg_count, tests_passed>>

Init ==
    /\ app = Off /\ pc = "message"
    /\ test_phase = 0 /\ test_status = [i \in 1 .. 3 |-> "INCOMPLETE"]
    /\ test_msg_count = 0 /\ tests_passed = 0 /\ mempool_count = 0
    /\ msg_q = <<>> /\ avail = PoolSize /\ held = 0
    /\ time = [late |-> FALSE, lates |-> 0, noise |-> 0, keep_running |-> TRUE]
-----------------------------------------------------------------------------
\* -p is announced to getopt and not handled, so that every option ends the function
parse_app_args(argv) == Parses(argv, <<>>, {}, <<>>)

test_messaging_main(argv, ok) ==
    /\ app = Off
    /\ app' = Main(argv, ok, parse_app_args(argv), <<>>)
    /\ UNCHANGED <<test_phase, tests, mempool_count, msg_q, avail, held, pc, time>>

Capacity == RingSize - 1

\* onvm_nflib_send_msg_to_nf for each of the data: what finds no message in the pool or
\* no place in the ring is not sent, and its memory is lost
Accepted(data, q, left) == SubSeq(data, 1, Min({Len(data), Capacity - Len(q), left}))
Send(data, q, left) ==
    /\ msg_q' = q \o Accepted(data, q, left)
    /\ avail' = left - Len(Accepted(data, q, left))

\* Mutant: messages that are thrown away stay out of the pool
ClearKeeps(left, q) == left

\* clear_msg_queue: the messages go back to the pool
clear_msg_queue(left, q) == left + Len(q)

\* The last message it took is given to rte_free as well, which is not its owner
Wild(q) == q # <<>>

\* The messages of the test that starts in phase ph
CountUp(n) == [i \in 1 .. n |-> i - 1]
Messages(ph) == CASE ph = 0 -> <<Magic>> [] ph = 1 -> CountUp(Several) [] ph = 2 -> CountUp(RingSize + 2)

\* test_handler after the limit was looked at, in phase ph
Phase(ph, status, q, left) ==
    LET over  == ph \in 1 .. 3 /\ status[ph] # "INCOMPLETE"
        moves == ph = 0 \/ over
    IN  /\ test_phase' = IF moves THEN ph + 1 ELSE ph
        /\ mempool_count' = IF ph = 0 THEN clear_msg_queue(left, q) ELSE mempool_count
        /\ IF moves
           THEN Send(IF ph = 3 THEN <<>> ELSE Messages(ph), <<>>, clear_msg_queue(left, q))
           ELSE msg_q' = q /\ avail' = left
        /\ \/ pc' = IF ph = 4 \/ ~time.keep_running THEN "stopped" ELSE "message"
           \/ moves /\ Wild(q) /\ pc' = "wild"

\* The status of a test that ran out of time.  Before the first test this is the upper
\* half of the pointer to the ring, after the last one it is the start time, then memory
\* of somebody else
Expire(ph) == IF ph \in 1 .. 3 THEN [test_status EXCEPT ![ph] = "FAILED"] ELSE test_status

test_handler ==
    /\ Runs(app) /\ pc = "callback"
    /\ UNCHANGED <<app, held, test_msg_count, tests_passed>>
    /\ IF ~time.late
       THEN Phase(test_phase, test_status, msg_q, avail) /\ UNCHANGED <<test_status, time>>
       ELSE /\ time' = [time EXCEPT !.late = FALSE]
            /\ test_status' = Expire(test_phase)
            /\ IF test_phase \in {0, 7}
               THEN pc' = "wild" /\ UNCHANGED <<test_phase, mempool_count, msg_q, avail>>
               ELSE \/ Phase(test_phase + 1, Expire(test_phase), <<>>, clear_msg_queue(avail, msg_q))
                    \/ /\ Wild(msg_q) /\ pc' = "wild"
                       /\ UNCHANGED <<test_phase, mempool_count, msg_q, avail>>

Fail(i) == test_status' = [test_status EXCEPT ![i] = "FAILED"] /\ UNCHANGED tests_passed
Pass(i) == test_status' = [test_status EXCEPT ![i] = "PASSED"] /\ tests_passed' = tests_passed + 1

\* The first test looks at its first message only
One(d, rest) ==
    IF test_msg_count # 0 THEN test_msg_count' = test_msg_count + 1 /\ UNCHANGED <<test_status, tests_passed>>
    ELSE IF rest = <<>> /\ d = Magic THEN Pass(1) /\ test_msg_count' = 0
    ELSE Fail(1) /\ test_msg_count' = 1

\* The others count the messages, and look at the ring and the pool after the last
Counting(i, d, rest, last, whole) ==
    LET n == IF d = test_msg_count THEN test_msg_count + 1 ELSE test_msg_count
    IN  IF n = last
        THEN IF rest = <<>> /\ whole THEN Pass(i) /\ test_msg_count' = 0 ELSE Fail(i) /\ test_msg_count' = n
        ELSE /\ test_msg_count' = n
             /\ IF d # test_msg_count THEN Fail(i) ELSE UNCHANGED <<test_status, tests_passed>>

\* Mutant: the message at hand is thought to be back in the pool
LeakOffByOne(d, rest) == Counting(3, d, rest, RingSize - 1, avail = mempool_count)

\* The message at hand goes back to the pool after the handler
Overflow(d, rest) == Counting(3, d, rest, RingSize - 1, avail = mempool_count - 1)

nf_msg_handler(d, rest) ==
    CASE test_phase = 1 -> One(d, rest)
      [] test_phase = 2 -> Counting(2, d, rest, Several, TRUE)
      [] test_phase = 3 -> Overflow(d, rest)
      [] OTHER -> UNCHANGED tests

\* onvm_nflib_dequeue_messages and onvm_nflib_handle_msg
onvm_nflib_dequeue_messages ==
    /\ Runs(app) /\ pc = "message"
    /\ pc' = "callback"
    /\ UNCHANGED <<app, test_phase, mempool_count, held>>
    /\ IF msg_q = <<>> THEN UNCHANGED <<tests, msg_q, avail, time>>
       ELSE /\ msg_q' = Tail(msg_q) /\ avail' = avail + 1
            /\ IF Head(msg_q) = Stop
               THEN time' = [time EXCEPT !.keep_running = FALSE] /\ UNCHANGED tests
               ELSE nf_msg_handler(Head(msg_q), Tail(msg_q)) /\ UNCHANGED time

\* onvm_nflib_stop, and onvm_nf_stop of the manager, which empties the ring
onvm_nflib_stop ==
    /\ Runs(app) /\ pc = "stopped"
    /\ app' = Gone
    /\ avail' = clear_msg_queue(avail, msg_q) /\ msg_q' = <<>>
    /\ UNCHANGED <<test_phase, tests, mempool_count, held, pc, time>>
-----------------------------------------------------------------------------
Noise == time.noise < MaxNoise /\ time' = [time EXCEPT !.noise = @ + 1]
Others == UNCHANGED <<app, test_phase, tests, mempool_count, pc>>

OthersSend(d) == Runs(app) /\ Noise /\ Others /\ UNCHANGED held /\ Send(<<d>>, msg_q, avail)
OthersTake == avail > 0 /\ Noise /\ Others /\ UNCHANGED msg_q /\ avail' = avail - 1 /\ held' = held + 1
OthersGive == held > 0 /\ Others /\ UNCHANGED <<msg_q, time>> /\ avail' = avail + 1 /\ held' = held - 1

TimePasses ==
    /\ Runs(app) /\ ~time.late /\ time.lates < MaxLate
    /\ time' = [time EXCEPT !.late = TRUE, !.lates = @ + 1]
    /\ Others /\ UNCHANGED <<msg_q, avail, held>>

Next ==
    \/ \E argv \in Argvs, ok \in BOOLEAN : test_messaging_main(argv, ok)
    \/ onvm_nflib_dequeue_messages \/ test_handler \/ onvm_nflib_stop
    \/ \E d \in Strange \union {Stop} : OthersSend(d)
    \/ OthersTake \/ OthersGive \/ TimePasses
-----------------------------------------------------------------------------
Failed == {i \in 1 .. 3 : test_status[i] = "FAILED"}
Passed == {i \in 1 .. 3 : test_status[i] = "PASSED"}

\* A message is in the pool, in the ring or with somebody else, after every way a test may
\* end and after messages the ring refused (onvm_nflib_send_msg_to_nf, clear_msg_queue)
MessagesAreReturned == pc # "wild" => avail + Len(msg_q) + held = PoolSize

\* Left alone and in time the three tests pass: the ring takes one message less than its
\* size, in order, and none is missing from the pool in the end (nf_msg_handler)
QuietTestsPass ==
    time.noise = 0 /\ time.lates = 0 =>
        /\ Failed = {} /\ tests_passed = Cardinality(Passed)
        /\ pc = "stopped" => Passed = 1 .. 3

\* A test that fails takes the later ones with it: after a wrong message the count is not
\* set back, after the time limit the messages of the next test are not sent
FailuresSpread ==
    time.noise = 0 => \A i \in Failed, j \in Passed : j < i
=============================================================================
