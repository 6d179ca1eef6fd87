----------------------------- MODULE ShaperFifo -----------------------------
(***************************************************************************)
(* What UPF-U's downlink shaper promises the packets of one UE, without    *)
(* tables, lists or buckets: per flow a first-in first-out queue.  A       *)
(* packet passes at once only if nothing of its flow waits, waits at the   *)
(* end of its flow's queue, or is dropped; a waiting packet leaves from    *)
(* the head, to be sent or dropped; removing the session drops all that    *)
(* wait.                                                                   *)
(***************************************************************************)
EXTENDS Naturals, Sequences

CONSTANTS Keys, MaxPkts

VARIABLES
    queue,      \* flow -> the packets that wait
    sent,       \* flow -> the packet sent last
    arrived     \* number of packets so far; a packet is its number

fifoVars == <<queue, sent, arrived>>

Init ==
    /\ queue = [k \in Keys |-> <<>>]
    /\ sent = [k \in Keys |-> 0]
    /\ arrived = 0

Arrive == arrived < MaxPkts /\ arrived' = arrived + 1

Pass(k) ==
    /\ Arrive
    /\ queue[k] = <<>>
    /\ sent' = [sent EXCEPT ![k] = arrived']
    /\ UNCHANGED queue

Wait(k) ==
    /\ Arrive
    /\ queue' = [queue EXCEPT ![k] = Append(@, arrived')]
    /\ UNCHANGED sent

Refuse == Arrive /\ UNCHANGED <<queue, sent>>

Leave(k) ==
    /\ queue[k] # <<>>
    /\ queue' = [queue EXCEPT ![k] = Tail(@)]
    /\ sent' \in {sent, [sent EXCEPT ![k] = Head(queue[k])]}
    /\ UNCHANGED arrived

Flush ==
    /\ queue' = [k \in Keys |-> <<>>]
    /\ UNCHANGED <<sent, arrived>>

Next ==
    \/ \E k \in Keys : Pass(k) \/ Wait(k) \/ Leave(k)
    \/ Refuse
    \/ Flush

Spec == Init /\ [][Next]_fifoVars
=============================================================================
