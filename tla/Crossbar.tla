------------------------------ MODULE Crossbar ------------------------------
(***************************************************************************)
(* The built-in interconnect (LocalInterconnect, xbar_router,               *)
(* src/gpgpu-sim/local_interconnect.cc): a request crossbar from the        *)
(* shader clusters to the memory partitions and a reply crossbar back, each *)
(* with an input and an output queue per node and one of two arbiters.      *)
(* Clusters and partitions push when their input queue has room and pop     *)
(* when they can (gpgpu_sim::cycle, simt_core_cluster::icnt_cycle).         *)
(***************************************************************************)
EXTENDS Integers, Sequences

CONSTANTS
    NShader, NMem,
    InBufferLimit, OutBufferLimit,
    Arbiters,     \* [algo, grant_cycles], one chosen at the start
    Traffic,      \* sets of links, those of one are used in a behaviour
    Payload       \* what packets carry

ASSUME CrossbarAssumption ==
    /\ NShader \in Nat \ {0} /\ NMem \in Nat \ {0}
    /\ InBufferLimit \in Nat \ {0} /\ OutBufferLimit \in Nat \ {0}
    /\ Arbiters \subseteq [algo : {"NAIVE_RR", "iSLIP"}, grant_cycles : Nat \ {0}]

TotalNodes == NShader + NMem
Nodes   == 0..(TotalNodes - 1)
Shaders == 0..(NShader - 1)
Mems    == Nodes \ Shaders

\* Two subnets; a packet's way decides its own.
Subnets == {"REQ_NET", "REPLY_NET"}
Pairs   == (Shaders \X Mems) \cup (Mems \X Shaders)
SubnetFrom(n) == IF n \in Shaders THEN "REQ_NET" ELSE "REPLY_NET"
SubnetTo(n)   == IF n \in Shaders THEN "REPLY_NET" ELSE "REQ_NET"

ASSUME TrafficAssumption == Traffic \subseteq SUBSET Pairs

VARIABLES
    arbiter,
    traffic,
    net            \* the routers: queues and arbiter state

vars == <<arbiter, traffic, net>>

NewRouter == [in_buffers |-> [n \in Nodes |-> <<>>], out_buffers |-> [n \in Nodes |-> <<>>],
              next_node |-> [n \in Nodes |-> 0], next_node_id |-> 0, issued |-> {},
              grant_cycles_count |-> arbiter.grant_cycles]

Init == arbiter \in Arbiters /\ traffic \in Traffic /\ net = [s \in Subnets |-> NewRouter]
-----------------------------------------------------------------------------
HasBufferIn(n)     == Len(net[SubnetFrom(n)].in_buffers[n]) + 1 <= InBufferLimit
HasBufferOut(r, n) == Len(r.out_buffers[n]) + 1 <= OutBufferLimit

Push(src, dst, d) ==
    /\ HasBufferIn(src)
    /\ net' = [net EXCEPT ![SubnetFrom(src)].in_buffers[src] = Append(@, [src |-> src, output |-> dst, data |-> d])]
    /\ UNCHANGED <<arbiter, traffic>>

Pop(dst) ==
    LET s == SubnetTo(dst)
    IN  /\ net[s].out_buffers[dst] # <<>>
        /\ net' = [net EXCEPT ![s].out_buffers[dst] = Tail(@)]
        /\ UNCHANGED <<arbiter, traffic>>
-----------------------------------------------------------------------------
(* Advance: both routers, one cycle.                                        *)

Waiting(r)  == {n \in Nodes : r.in_buffers[n] # <<>>}
Output(r, n) == Head(r.in_buffers[n]).output

\* A variant: the queue after the granted one is popped (++node_id came too early).
TransferNext(r, n) ==
    LET m == (n + 1) % TotalNodes
    IN  [r EXCEPT !.out_buffers[Output(r, n)] = Append(@, Head(r.in_buffers[n])),
                  !.in_buffers[m] = IF @ = <<>> THEN @ ELSE Tail(@)]
\* The head packet of input n goes to its output.
Transfer(r, n) ==
    [r EXCEPT !.out_buffers[Output(r, n)] = Append(@, Head(r.in_buffers[n])), !.in_buffers[n] = Tail(@)]

\* The first node of S from node n on, around the router.
FirstFrom(n, S) == CHOOSE x \in S : \A y \in S : (x - n) % TotalNodes <= (y - n) % TotalNodes

\* RR_Advance: all inputs in turn, from one that moves on every cycle; an
\* output takes one packet a cycle.
RRStep(r, i) ==
    LET n == (i + r.next_node_id) % TotalNodes
    IN  {IF n \in Waiting(r) /\ HasBufferOut(r, Output(r, n)) /\ Output(r, n) \notin r.issued
         THEN [Transfer(r, n) EXCEPT !.issued = @ \cup {Output(r, n)}]
         ELSE r}

\* A variant: the pointer stays on the granted input.
ISLIPStepStays(r, i) ==
    LET wants == {n \in Waiting(r) : Output(r, n) = i}
        n == FirstFrom(r.next_node[i], wants)
    IN  {IF HasBufferOut(r, i) /\ wants # {}
         THEN [Transfer(r, n) EXCEPT !.next_node[i] = IF r.grant_cycles_count = 1 THEN n ELSE @]
         ELSE r}

\* iSLIP_Advance: each output in turn takes from the first input that wants it,
\* from its pointer on; the pointer moves past the input it granted in the
\* last of grant_cycles cycles.
ISLIPStep(r, i) ==
    LET wants == {n \in Waiting(r) : Output(r, n) = i}
        n == FirstFrom(r.next_node[i], wants)
    IN  {IF HasBufferOut(r, i) /\ wants # {}
         THEN [Transfer(r, n) EXCEPT !.next_node[i] = IF r.grant_cycles_count = 1 THEN (n + 1) % TotalNodes ELSE @]
         ELSE r}

Step(r, i) == IF arbiter.algo = "NAIVE_RR" THEN RRStep(r, i) ELSE ISLIPStep(r, i)

\* What the loop of the arbiter over all nodes makes of a router: one step after
\* the other, each a set of outcomes (here one).
Loop(r) ==
    LET after[n \in 0..TotalNodes] ==
            IF n = 0 THEN {r} ELSE UNION {Step(x, n - 1) : x \in after[n - 1]}
    IN  after[TotalNodes]

RRAdvance(r) == {[x EXCEPT !.next_node_id = (@ + 1) % TotalNodes, !.issued = {}] : x \in Loop(r)}

ISLIPAdvance(r) ==
    {[x EXCEPT !.grant_cycles_count =
         IF Waiting(r) = {} THEN @ ELSE IF @ = 1 THEN arbiter.grant_cycles ELSE @ - 1] : x \in Loop(r)}

AdvanceOf(r) == IF arbiter.algo = "NAIVE_RR" THEN RRAdvance(r) ELSE ISLIPAdvance(r)

Advance ==
    /\ \E x \in AdvanceOf(net["REQ_NET"]), y \in AdvanceOf(net["REPLY_NET"]) :
        net' = [net EXCEPT !["REQ_NET"] = x, !["REPLY_NET"] = y]
    /\ UNCHANGED <<arbiter, traffic>>
-----------------------------------------------------------------------------
Next ==
    \/ \E p \in traffic, d \in Payload : Push(p[1], p[2], d)
    \/ \E n \in Nodes : Pop(n)
    \/ Advance

Spec == Init /\ [][Next]_vars

\* The network is clocked and every node takes what has come for it.
FairSpec == Spec /\ WF_vars(Advance) /\ \A n \in Nodes : WF_vars(Pop(n))
-----------------------------------------------------------------------------
(* Properties.                                                              *)

\* What the packets of link p in queue q carry.
Carried(q, p) ==
    LET upTo[n \in 0..Len(q)] ==
            IF n = 0 THEN <<>>
            ELSE IF <<q[n].src, q[n].output>> = p THEN Append(upTo[n - 1], q[n].data) ELSE upTo[n - 1]
    IN  upTo[Len(q)]

\* A link: the packets that have crossed, then those that have not.
Link(p) == Carried(net[SubnetTo(p[2])].out_buffers[p[2]], p) \o Carried(net[SubnetFrom(p[1])].in_buffers[p[1]], p)

\* Advance loses, duplicates and reorders nothing between two nodes, whatever
\* the arbiter sends in a cycle: the crossbar implements its links.
LinkView == INSTANCE Links WITH link <- [p \in Pairs |-> Link(p)]
ImplementsLinks == LinkView!Spec

\* iSLIP with grant_cycles = 1, the shipped arbiter, starves nobody: an input
\* that always has a packet sends again and again, however the others compete
\* for its output and whenever the output is popped.
HeadOf(n) == net[SubnetFrom(n)].in_buffers[n]
Sends(n)  == Len(HeadOf(n)') < Len(HeadOf(n))
NobodyStarves == \A n \in Nodes :
    (arbiter = [algo |-> "iSLIP", grant_cycles |-> 1] /\ <>[](HeadOf(n) # <<>>)) => []<><<Sends(n)>>_vars
=============================================================================
