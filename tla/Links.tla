-------------------------------- MODULE Links --------------------------------
(* What an interconnect promises: between each two nodes, a link that loses *)
(* nothing, invents nothing and keeps the order.  Nothing is promised about  *)
(* the order of packets of different links.                                 *)
EXTENDS Sequences

CONSTANTS Pairs, Payload

VARIABLE link

Init == link = [p \in Pairs |-> <<>>]

Send(p, d) == link' = [link EXCEPT ![p] = Append(@, d)]

Receive(p) == link[p] # <<>> /\ link' = [link EXCEPT ![p] = Tail(@)]

Next == \E p \in Pairs : Receive(p) \/ \E d \in Payload : Send(p, d)

Spec == Init /\ [][Next]_link
=============================================================================
