---------------------------- MODULE StreamOrder ----------------------------
(***************************************************************************)
(* What CUDA streams promise a program with one host thread, whatever      *)
(* executes the operations: a stream completes its operations in the order *)
(* they were accepted; an operation of the default stream completes after  *)
(* every operation accepted before it in any stream, and before any        *)
(* operation accepted after it; a wait completes after the record it waits *)
(* for.  StreamManager implements this specification.                      *)
(***************************************************************************)
EXTENDS Naturals, Sequences

CONSTANTS Streams, Zero, Events

VARIABLES
    queue,     \* accepted and not yet completed, per stream
    executed   \* the records of each event that have completed

All == Streams \cup {Zero}

Init ==
    /\ queue = [s \in All |-> <<>>]
    /\ executed = [e \in Events |-> {}]

Ids(s) == {queue[s][i].id : i \in 1..Len(queue[s])}

Accept(s) ==
    LET n == Len(queue'[s]) IN
    /\ n = Len(queue[s]) + 1
    /\ queue' = [queue EXCEPT ![s] = Append(@, queue'[s][n])]
    /\ \A t \in All : \A k \in Ids(t) : k < queue'[s][n].id
    /\ UNCHANGED executed

\* The streams the front operation of s is ordered after.
Before(s) == IF s = Zero THEN Streams ELSE {Zero}

MayComplete(s) ==
    /\ queue[s] # <<>>
    /\ LET op == Head(queue[s])
       IN  /\ \A t \in Before(s) : \A k \in Ids(t) : op.id < k
           /\ op.type = "wait" => op.cnt \in executed[op.event]

\* Several streams may advance at once.
Complete(S) ==
    /\ \A s \in S : MayComplete(s)
    /\ queue' = [s \in All |-> IF s \in S THEN Tail(queue[s]) ELSE queue[s]]
    /\ executed' = [e \in Events |-> executed[e] \cup
                      {Head(queue[s]).cnt : s \in {t \in S : Head(queue[t]).type = "event"
                                                             /\ Head(queue[t]).event = e}}]

Next == (\E s \in All : Accept(s)) \/ (\E S \in SUBSET All : Complete(S))

Spec == Init /\ [][Next]_<<queue, executed>>
=============================================================================
