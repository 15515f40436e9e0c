--------------------------- MODULE CrossbarProofs ---------------------------
(***************************************************************************)
(* Proofs about Crossbar, for any numbers of nodes, sizes of queues and     *)
(* arbiters: the crossbar implements Links.  The loop of an arbiter and     *)
(* what a link carries are recursive functions; what is proved of them is   *)
(* proved for the least number of steps for which it could be wrong.        *)
(***************************************************************************)
EXTENDS Crossbar, SequenceTheorems, WellFoundedInduction, TLAPS

\* Packets of a subnet, those sent by a node, those for a node.
Packet    == [src : Nodes, output : Nodes, data : Payload]
Routed(s) == {x \in Packet : <<x.src, x.output>> \in Pairs /\ SubnetFrom(x.src) = s}
FromNode(s, n) == {x \in Routed(s) : x.src = n}
ForNode(s, n)  == {x \in Routed(s) : x.output = n}

RouterSpace ==
    [in_buffers : [Nodes -> Seq(Packet)], out_buffers : [Nodes -> Seq(Packet)], next_node : [Nodes -> Nodes],
     next_node_id : Nodes, issued : SUBSET Nodes, grant_cycles_count : Nat \ {0}]

\* The input queue of a node holds what it sent, the output queue what is for it.
Sorted(r, s) ==
    /\ r \in RouterSpace
    /\ \A n \in Nodes : r.in_buffers[n] \in Seq(FromNode(s, n)) /\ r.out_buffers[n] \in Seq(ForNode(s, n))

IInv ==
    /\ arbiter \in Arbiters /\ traffic \in Traffic
    /\ net \in [Subnets -> RouterSpace] /\ \A s \in Subnets : Sorted(net[s], s)

-----------------------------------------------------------------------------
(* Induction.                                                               *)

LEMMA LeastExists ==
    ASSUME NEW S, S \subseteq Nat, S # {}
    PROVE  \E m \in S : \A k \in S : m <= k
<1>1. PICK i \in S : \A j \in S : ~(<<j, i>> \in OpToRel(<, Nat))
  BY NatLessThanWellFounded, WFMin
<1>2. \A j \in S : ~(j < i)
  BY <1>1 DEF OpToRel
<1> QED BY <1>2

\* A set of numbers that has 0, and with a number the next, has all.
LEMMA Induction ==
    ASSUME NEW S, 0 \in S, \A n \in Nat : n \in S => n + 1 \in S
    PROVE  Nat \subseteq S
<1> DEFINE bad == Nat \ S
<1> SUFFICES ASSUME bad # {} PROVE FALSE
  OBVIOUS
<1>1. PICK m \in bad : \A k \in bad : m <= k
  BY LeastExists
<1>2. m # 0 /\ m \in Nat
  OBVIOUS
<1>3. m - 1 \in Nat /\ ~(m <= m - 1)
  BY <1>2
<1>4. m - 1 \in S
  BY <1>1, <1>3
<1>5. (m - 1) + 1 \in S
  BY <1>3, <1>4
<1> QED BY <1>2, <1>5

LEMMA AppendConcat ==
    ASSUME NEW T, NEW s \in Seq(T), NEW t \in Seq(T), NEW d \in T
    PROVE  /\ Append(s \o t, d) = s \o Append(t, d)
           /\ Append(s, d) \o t = s \o (<<d>> \o t)
<1>1. <<d>> \in Seq(T) /\ s \o t \in Seq(T)
  OBVIOUS
<1>2. \A u \in Seq(T) : Append(u, d) = u \o <<d>>
  OBVIOUS
<1> DEFINE one == <<d>>
<1>3. one \in Seq(T)
  BY <1>1
<1>4. Append(s, d) = s \o one /\ Append(t, d) = t \o one /\ Append(s \o t, d) = (s \o t) \o one
  BY <1>1, <1>2
<1> HIDE DEF one
<1>5. (s \o t) \o one = s \o (t \o one)
  BY <1>3, ConcatAssociative
<1>6. (s \o one) \o t = s \o (one \o t)
  BY <1>3, ConcatAssociative
<1> QED BY <1>4, <1>5, <1>6 DEF one

-----------------------------------------------------------------------------
(* What a queue carries for a link.                                         *)

\* One more packet of a queue.
More(s, x, p) == IF <<x.src, x.output>> = p THEN Append(s, x.data) ELSE s

\* g has what the first packets of q carry.
Counts(g, q, p, m) == g = [n \in 0..m |-> IF n = 0 THEN <<>> ELSE More(g[n - 1], q[n], p)]

LEMMA CountsExists ==
    ASSUME NEW q, NEW p
    PROVE  \A m \in Nat : \E g : Counts(g, q, p, m)
<1> DEFINE S == {m \in Nat : \E g : Counts(g, q, p, m)}
<1>1. 0 \in S
  <2> DEFINE g == [n \in 0..0 |-> <<>>]
  <2>1. Counts(g, q, p, 0)
    BY DEF Counts
  <2> QED BY <2>1
<1>2. ASSUME NEW m \in Nat, m \in S
      PROVE  m + 1 \in S
  <2>1. PICK g : Counts(g, q, p, m)
    BY <1>2
  <2> DEFINE h == [n \in 0..(m + 1) |-> IF n = m + 1 THEN More(g[m], q[m + 1], p) ELSE g[n]]
  <2>2. \A n \in 0..m : g[n] = IF n = 0 THEN <<>> ELSE More(g[n - 1], q[n], p)
    BY <2>1 DEF Counts
  <2>3. \A n \in 0..m : h[n] = g[n]
    OBVIOUS
  <2>4. h[m + 1] = More(h[m], q[m + 1], p)
    BY <2>3
  <2>5. \A n \in 0..(m + 1) : h[n] = IF n = 0 THEN <<>> ELSE More(h[n - 1], q[n], p)
    <3> SUFFICES ASSUME NEW n \in 0..(m + 1)
                 PROVE  h[n] = IF n = 0 THEN <<>> ELSE More(h[n - 1], q[n], p)
      OBVIOUS
    <3>1. CASE n = m + 1
      BY <2>4, <3>1
    <3>2. CASE n # m + 1
      <4>1. n \in 0..m /\ (n # 0 => n - 1 \in 0..m)
        BY <3>2
      <4> HIDE DEF h
      <4> QED BY <2>2, <2>3, <4>1
    <3> QED BY <3>1, <3>2
  <2>6. Counts(h, q, p, m + 1)
    <3>1. h = [n \in 0..(m + 1) |-> h[n]]
      OBVIOUS
    <3> HIDE DEF h
    <3> QED BY <2>5, <3>1 DEF Counts
  <2> QED BY <2>6
<1>3. Nat \subseteq S
  BY <1>1, <1>2, Induction
<1> QED BY <1>3

LEMMA CarriedIs ==
    ASSUME NEW T, NEW q \in Seq(T), NEW p
    PROVE  \E g : Counts(g, q, p, Len(q)) /\ Carried(q, p) = g[Len(q)]
<1> DEFINE f == CHOOSE g : Counts(g, q, p, Len(q))
<1>1. Counts(f, q, p, Len(q))
  BY CountsExists
<1>2. Carried(q, p) = f[Len(q)]
  BY DEF Carried, Counts, More
<1> QED BY <1>1, <1>2

LEMMA CountsStep ==
    ASSUME NEW g, NEW q, NEW p, NEW m \in Nat, Counts(g, q, p, m)
    PROVE  /\ DOMAIN g = 0..m /\ g[0] = <<>>
           /\ \A n \in 1..m : g[n] = More(g[n - 1], q[n], p)
BY DEF Counts

LEMMA CountsType ==
    ASSUME NEW T, T \subseteq Packet, NEW q \in Seq(T), NEW p, NEW g, Counts(g, q, p, Len(q))
    PROVE  \A n \in 0..Len(q) : g[n] \in Seq(Payload)
<1> DEFINE S == {n \in Nat : n <= Len(q) => g[n] \in Seq(Payload)}
<1>1. /\ g[0] = <<>>
      /\ \A n \in 1..Len(q) : g[n] = More(g[n - 1], q[n], p)
  BY CountsStep
<1>2. 0 \in S
  <2>1. <<>> \in Seq(Payload)
    OBVIOUS
  <2> QED BY <1>1, <2>1
<1>3. ASSUME NEW n \in Nat, n \in S
      PROVE  n + 1 \in S
  <2> SUFFICES ASSUME n + 1 <= Len(q) PROVE g[n + 1] \in Seq(Payload)
    OBVIOUS
  <2>1. g[n] \in Seq(Payload) /\ n + 1 \in 1..Len(q)
    BY <1>3
  <2>2. g[n + 1] = More(g[n], q[n + 1], p)
    BY <1>1, <2>1
  <2>3. q[n + 1].data \in Payload
    BY <2>1 DEF Packet
  <2> QED BY <2>1, <2>2, <2>3 DEF More
<1>4. Nat \subseteq S
  BY <1>2, <1>3, Induction
<1> QED BY <1>4

LEMMA CarriedType ==
    ASSUME NEW T, T \subseteq Packet, NEW q \in Seq(T), NEW p
    PROVE  Carried(q, p) \in Seq(Payload)
<1>1. PICK g : Counts(g, q, p, Len(q)) /\ Carried(q, p) = g[Len(q)]
  BY CarriedIs
<1>2. Len(q) \in 0..Len(q)
  OBVIOUS
<1> QED BY <1>1, <1>2, CountsType

LEMMA CarriedEmpty == \A p : Carried(<<>>, p) = <<>>
<1> TAKE p
<1>1. <<>> \in Seq({}) /\ Len(<<>>) = 0
  OBVIOUS
<1>2. PICK g : Counts(g, <<>>, p, Len(<<>>)) /\ Carried(<<>>, p) = g[Len(<<>>)]
  BY <1>1, CarriedIs
<1> QED BY <1>1, <1>2, CountsStep

\* A packet that joins a queue comes last on its link.
LEMMA CarriedAppend ==
    ASSUME NEW T, NEW q \in Seq(T), NEW x \in T, NEW p
    PROVE  Carried(Append(q, x), p) = More(Carried(q, p), x, p)
<1> DEFINE r == Append(q, x)
<1>1. r \in Seq(T) /\ Len(r) = Len(q) + 1 /\ r[Len(q) + 1] = x /\ \A n \in 1..Len(q) : r[n] = q[n]
  OBVIOUS
<1>2. PICK g : Counts(g, q, p, Len(q)) /\ Carried(q, p) = g[Len(q)]
  BY CarriedIs
<1>3. PICK h : Counts(h, r, p, Len(r)) /\ Carried(r, p) = h[Len(r)]
  BY <1>1, CarriedIs
<1> HIDE DEF r
<1>4. g[0] = <<>> /\ \A n \in 1..Len(q) : g[n] = More(g[n - 1], q[n], p)
  BY <1>2, CountsStep
<1>5. h[0] = <<>> /\ \A n \in 1..Len(r) : h[n] = More(h[n - 1], r[n], p)
  BY <1>1, <1>3, CountsStep
<1> DEFINE S == {n \in Nat : n <= Len(q) => h[n] = g[n]}
<1>6. 0 \in S
  BY <1>4, <1>5
<1>7. ASSUME NEW n \in Nat, n \in S
      PROVE  n + 1 \in S
  <2> SUFFICES ASSUME n + 1 <= Len(q) PROVE h[n + 1] = g[n + 1]
    OBVIOUS
  <2>1. h[n] = g[n] /\ n + 1 \in 1..Len(q) /\ n + 1 \in 1..Len(r)
    BY <1>1, <1>7
  <2>2. g[n + 1] = More(g[n], q[n + 1], p) /\ h[n + 1] = More(h[n], r[n + 1], p)
    BY <1>4, <1>5, <2>1
  <2> QED BY <1>1, <2>1, <2>2
<1>8. Nat \subseteq S
  BY <1>6, <1>7, Induction
<1>9. h[Len(q)] = g[Len(q)]
  BY <1>8
<1>10. h[Len(q) + 1] = More(h[Len(q)], x, p)
  BY <1>1, <1>5
<1> QED BY <1>1, <1>2, <1>3, <1>9, <1>10 DEF r

\* The first packet of a queue comes first on its link.
LEMMA CarriedTail ==
    ASSUME NEW T, T \subseteq Packet, NEW q \in Seq(T), q # <<>>, NEW p
    PROVE  Carried(q, p) = More(<<>>, Head(q), p) \o Carried(Tail(q), p)
<1> DEFINE r == Tail(q)
           first == More(<<>>, Head(q), p)
<1>1. /\ r \in Seq(T) /\ Len(q) = Len(r) + 1 /\ Head(q) = q[1] /\ Len(r) \in Nat
      /\ \A n \in 1..Len(r) : r[n] = q[n + 1]
  OBVIOUS
<1>2. PICK g : Counts(g, q, p, Len(q)) /\ Carried(q, p) = g[Len(q)]
  BY CarriedIs
<1>3. PICK h : Counts(h, r, p, Len(r)) /\ Carried(r, p) = h[Len(r)]
  BY <1>1, CarriedIs
<1>4. first \in Seq(Payload)
  <2>1. Head(q) \in Packet
    BY <1>1
  <2> QED BY <2>1 DEF Packet, More
<1>5. \A n \in 0..Len(r) : h[n] \in Seq(Payload)
  BY <1>1, <1>3, CountsType
<1> HIDE DEF r, first
<1>6. g[0] = <<>> /\ \A n \in 1..Len(q) : g[n] = More(g[n - 1], q[n], p)
  BY <1>2, CountsStep
<1>7. h[0] = <<>> /\ \A n \in 1..Len(r) : h[n] = More(h[n - 1], r[n], p)
  BY <1>1, <1>3, CountsStep
<1> DEFINE S == {n \in Nat : n <= Len(r) => g[n + 1] = first \o h[n]}
<1>8. 0 \in S
  <2>1. g[1] = More(g[0], q[1], p)
    BY <1>1, <1>6
  <2>2. g[0 + 1] = first
    BY <1>1, <1>6, <2>1 DEF first
  <2>3. first \o h[0] = first
    BY <1>4, <1>7
  <2> QED BY <2>2, <2>3
<1>9. ASSUME NEW n \in Nat, n \in S
      PROVE  n + 1 \in S
  <2> SUFFICES ASSUME n + 1 <= Len(r) PROVE g[(n + 1) + 1] = first \o h[n + 1]
    OBVIOUS
  <2>1. g[n + 1] = first \o h[n] /\ n \in 0..Len(r) /\ n + 1 \in 1..Len(r) /\ (n + 1) + 1 \in 1..Len(q)
    BY <1>1, <1>9
  <2>2. g[(n + 1) + 1] = More(g[n + 1], q[(n + 1) + 1], p)
    <3>1. ((n + 1) + 1) - 1 = n + 1
      OBVIOUS
    <3> QED BY <1>6, <2>1, <3>1
  <2>3. h[n + 1] = More(h[n], r[n + 1], p)
    BY <1>7, <2>1
  <2>4. r[n + 1] = q[(n + 1) + 1] /\ r[n + 1] \in Packet /\ h[n] \in Seq(Payload)
    BY <1>1, <1>5, <2>1
  <2> DEFINE x == r[n + 1]
             s == h[n]
  <2>5. x.data \in Payload
    BY <2>4 DEF Packet
  <2>6. s \in Seq(Payload)
    BY <2>4
  <2> HIDE DEF x, s
  <2>7. Append(first \o s, x.data) = first \o Append(s, x.data)
    <3> DEFINE d == x.data
    <3>1. d \in Payload
      BY <2>5
    <3> HIDE DEF d
    <3>2. Append(first \o s, d) = first \o Append(s, d)
      BY ONLY <1>4, <2>6, <3>1, AppendConcat
    <3> QED BY <3>2 DEF d
  <2>8. g[(n + 1) + 1] = More(first \o s, x, p) /\ h[n + 1] = More(s, x, p)
    BY <2>1, <2>2, <2>3, <2>4 DEF x, s
  <2> QED BY <2>7, <2>8 DEF More
<1>10. Nat \subseteq S
  BY <1>8, <1>9, Induction
<1>11. g[Len(r) + 1] = first \o h[Len(r)]
  BY <1>1, <1>10
<1> QED BY <1>1, <1>2, <1>3, <1>11 DEF r, first

-----------------------------------------------------------------------------
(* A router.                                                                *)

LEMMA NodeFacts ==
    /\ TotalNodes \in Nat \ {0} /\ Nodes = 0..(TotalNodes - 1) /\ 0 \in Nodes
    /\ Pairs \subseteq Nodes \X Nodes
    /\ \A n \in Int : n % TotalNodes \in Nodes
    /\ \A p \in Pairs : SubnetTo(p[2]) = SubnetFrom(p[1])
    /\ \A n \in Nodes : SubnetFrom(n) \in Subnets /\ SubnetTo(n) \in Subnets
<1>1. TotalNodes \in Nat \ {0} /\ NShader \in Nat /\ NMem \in Nat /\ NShader <= TotalNodes
  BY CrossbarAssumption DEF TotalNodes
<1>2. Nodes = 0..(TotalNodes - 1) /\ 0 \in Nodes /\ Shaders \subseteq Nodes
  BY <1>1 DEF Nodes, Shaders
<1>3. \A n \in Int : n % TotalNodes \in Nodes
  BY <1>1, <1>2
<1>4. Pairs \subseteq Nodes \X Nodes
  BY <1>2 DEF Pairs, Mems
<1>5. \A p \in Pairs : SubnetTo(p[2]) = SubnetFrom(p[1])
  BY DEF Pairs, Mems, SubnetTo, SubnetFrom
<1> QED BY <1>1, <1>2, <1>3, <1>4, <1>5 DEF SubnetFrom, SubnetTo, Subnets

LEMMA PairFacts ==
    ASSUME NEW p \in Pairs
    PROVE  /\ p[1] \in Nodes /\ p[2] \in Nodes /\ p = <<p[1], p[2]>>
           /\ SubnetFrom(p[1]) \in Subnets /\ SubnetTo(p[2]) = SubnetFrom(p[1])
<1>1. p \in Nodes \X Nodes
  BY NodeFacts
<1>2. p[1] \in Nodes /\ p[2] \in Nodes /\ p = <<p[1], p[2]>>
  BY <1>1
<1> QED BY <1>2, NodeFacts

LEMMA AroundNodes == ASSUME NEW n \in Int PROVE (n + 1) % TotalNodes \in Nodes
<1>1. n + 1 \in Int
  OBVIOUS
<1> QED BY <1>1, NodeFacts

\* Around the router there is a first node.
LEMMA FirstFromIn ==
    ASSUME NEW n \in Nodes, NEW S, S \subseteq Nodes, S # {}
    PROVE  FirstFrom(n, S) \in S
<1> DEFINE far == {(x - n) % TotalNodes : x \in S}
<1>1. far \subseteq Nat /\ far # {}
  <2>1. \A x \in S : x - n \in Int
    BY NodeFacts
  <2>2. Nodes \subseteq Nat
    BY NodeFacts
  <2> QED BY <2>1, <2>2, NodeFacts
<1>2. PICK m \in far : \A k \in far : m <= k
  BY <1>1, LeastExists
<1>3. \E x \in S : \A y \in S : (x - n) % TotalNodes <= (y - n) % TotalNodes
  BY <1>2
<1> QED BY <1>3 DEF FirstFrom

\* What the queues of a router carry for a link.
RouterLink(r, p) == Carried(r.out_buffers[p[2]], p) \o Carried(r.in_buffers[p[1]], p)
SameLinks(x, r) == \A p \in Nodes \X Nodes : RouterLink(x, p) = RouterLink(r, p)

\* Router x is r after packet h went from input n to its output, and still sorted.
Moved(s, r, n, h, x) ==
    /\ h \in FromNode(s, n) /\ h \in ForNode(s, h.output) /\ h.output \in Nodes /\ h \in Packet
    /\ x.out_buffers = [r.out_buffers EXCEPT ![h.output] = Append(@, h)]
    /\ x.in_buffers = [r.in_buffers EXCEPT ![n] = Tail(@)]
    /\ x.next_node = r.next_node /\ x.next_node_id = r.next_node_id /\ x.issued = r.issued
    /\ x.grant_cycles_count = r.grant_cycles_count
    /\ Sorted(x, s)

\* The queues after a transfer, and the sort of packet it moves.
LEMMA TransferFacts ==
    ASSUME NEW s \in Subnets, NEW r, Sorted(r, s), NEW n \in Waiting(r)
    PROVE  Moved(s, r, n, Head(r.in_buffers[n]), Transfer(r, n))
<1> DEFINE h == Head(r.in_buffers[n])
           x == Transfer(r, n)
           tail == Tail(r.in_buffers[n])
           longer == Append(r.out_buffers[h.output], h)
<1>1. n \in Nodes /\ r.in_buffers[n] # <<>> /\ r \in RouterSpace
  BY DEF Waiting, Sorted
<1>2. r.in_buffers[n] \in Seq(FromNode(s, n))
  BY <1>1 DEF Sorted
<1>3. h \in FromNode(s, n) /\ tail \in Seq(FromNode(s, n))
  BY <1>1, <1>2
<1>4. h \in Packet /\ h.output \in Nodes /\ h \in ForNode(s, h.output)
  BY <1>3 DEF FromNode, ForNode, Routed, Packet
<1>5. longer \in Seq(ForNode(s, h.output))
  BY <1>4 DEF Sorted
<1>12. x = [[r EXCEPT !.out_buffers[h.output] = longer] EXCEPT !.in_buffers[n] = tail]
  BY DEF Transfer, Output
<1> HIDE DEF longer, tail, x
<1>6. /\ x.out_buffers = [r.out_buffers EXCEPT ![h.output] = longer]
      /\ x.in_buffers = [r.in_buffers EXCEPT ![n] = tail]
      /\ x.next_node = r.next_node /\ x.next_node_id = r.next_node_id /\ x.issued = r.issued
      /\ x.grant_cycles_count = r.grant_cycles_count
      /\ x = [in_buffers |-> x.in_buffers, out_buffers |-> x.out_buffers, next_node |-> x.next_node,
              next_node_id |-> x.next_node_id, issued |-> x.issued, grant_cycles_count |-> x.grant_cycles_count]
  BY <1>1, <1>12 DEF RouterSpace
<1>7. tail \in Seq(Packet) /\ longer \in Seq(Packet)
  <2>1. FromNode(s, n) \subseteq Packet /\ ForNode(s, h.output) \subseteq Packet
    BY DEF FromNode, ForNode, Routed
  <2> QED BY <1>3, <1>5, <2>1, SeqMonotonic
<1> HIDE DEF h
<1>8. x \in RouterSpace
  <2>1. x.in_buffers \in [Nodes -> Seq(Packet)] /\ x.out_buffers \in [Nodes -> Seq(Packet)]
    BY <1>1, <1>4, <1>6, <1>7 DEF RouterSpace
  <2> QED BY <1>1, <1>6, <2>1 DEF RouterSpace
<1>9. \A m \in Nodes : x.in_buffers[m] \in Seq(FromNode(s, m)) /\ x.out_buffers[m] \in Seq(ForNode(s, m))
  BY <1>1, <1>3, <1>4, <1>5, <1>6 DEF Sorted, RouterSpace
<1>10. Sorted(x, s)
  BY <1>8, <1>9 DEF Sorted
<1>11. /\ x.out_buffers = [r.out_buffers EXCEPT ![h.output] = Append(@, h)]
       /\ x.in_buffers = [r.in_buffers EXCEPT ![n] = Tail(@)]
  BY <1>6 DEF longer, tail, h
<1> QED BY <1>3, <1>4, <1>6, <1>10, <1>11 DEF h, x, Moved

\* A transfer moves the first packet that has not crossed behind those that have.
LEMMA TransferKeepsLinks ==
    ASSUME NEW s \in Subnets, NEW r, Sorted(r, s), NEW n \in Waiting(r)
    PROVE  SameLinks(Transfer(r, n), r)
<1> DEFINE h == Head(r.in_buffers[n])
           x == Transfer(r, n)
<1>1. /\ h \in FromNode(s, n) /\ h \in ForNode(s, h.output) /\ h.output \in Nodes /\ h \in Packet
      /\ x.out_buffers = [r.out_buffers EXCEPT ![h.output] = Append(@, h)]
      /\ x.in_buffers = [r.in_buffers EXCEPT ![n] = Tail(@)]
  <2>1. Moved(s, r, n, h, x)
    BY TransferFacts
  <2> QED BY <2>1 DEF Moved
<1>2. n \in Nodes /\ r.in_buffers[n] # <<>> /\ r \in RouterSpace
  BY DEF Waiting, Sorted
<1>3. h.src = n /\ h.data \in Payload
  BY <1>1 DEF FromNode, Packet
<1>4. \A m \in Nodes : r.in_buffers[m] \in Seq(Packet) /\ r.out_buffers[m] \in Seq(Packet)
  BY <1>2 DEF RouterSpace
<1> SUFFICES ASSUME NEW p \in Nodes \X Nodes PROVE RouterLink(x, p) = RouterLink(r, p)
  BY DEF SameLinks
<1> DEFINE a == p[1]
           b == p[2]
           in == Carried(r.in_buffers[a], p)
           out == Carried(r.out_buffers[b], p)
<1>5. a \in Nodes /\ b \in Nodes /\ p = <<a, b>>
  OBVIOUS
<1>6. in \in Seq(Payload) /\ out \in Seq(Payload)
  BY <1>4, <1>5, CarriedType
<1>7. x.out_buffers[b] = IF b = h.output THEN Append(r.out_buffers[b], h) ELSE r.out_buffers[b]
  BY <1>1, <1>2, <1>5, SMTT(30) DEF RouterSpace
<1>8. x.in_buffers[a] = IF a = n THEN Tail(r.in_buffers[a]) ELSE r.in_buffers[a]
  BY <1>1, <1>2, <1>5, SMTT(30) DEF RouterSpace
<1> HIDE DEF x, h
<1>9. Carried(x.out_buffers[b], p) = IF b = h.output THEN More(out, h, p) ELSE out
  BY <1>1, <1>4, <1>5, <1>7, CarriedAppend
<1>10. a = n => in = More(<<>>, h, p) \o Carried(Tail(r.in_buffers[a]), p)
  BY <1>2, <1>4, <1>5, CarriedTail DEF h
<1> DEFINE rest == Carried(x.in_buffers[a], p)
<1>11. rest \in Seq(Payload)
  <2>1. a = n => Tail(r.in_buffers[a]) \in Seq(Packet)
    BY <1>2, <1>4
  <2>2. x.in_buffers[a] \in Seq(Packet)
    BY <1>4, <1>5, <1>8, <2>1
  <2> QED BY <2>2, CarriedType
<1>12. CASE a = n /\ b = h.output
  <2>1. <<h.src, h.output>> = p
    BY <1>3, <1>5, <1>12
  <2>2. in = <<h.data>> \o rest
    BY <1>8, <1>10, <1>12, <2>1 DEF More
  <2>3. RouterLink(x, p) = Append(out, h.data) \o rest
    BY <1>9, <1>12, <2>1 DEF RouterLink, More
  <2> HIDE DEF in, out, rest
  <2>4. RouterLink(x, p) = out \o in
    BY <1>3, <1>6, <1>11, <2>2, <2>3, AppendConcat, SMTT(30)
  <2> QED BY <2>4 DEF RouterLink, in, out
<1>13. CASE ~(a = n /\ b = h.output)
  <2>1. <<h.src, h.output>> # p
    BY <1>3, <1>5, <1>13
  <2>2. Carried(x.out_buffers[b], p) = out
    BY <1>9, <2>1 DEF More
  <2>3. rest = in
    <3>1. CASE a = n
      <4>1. in = <<>> \o rest
        BY <1>8, <1>10, <2>1, <3>1 DEF More
      <4> HIDE DEF in, rest
      <4> QED BY <1>11, <4>1
    <3>2. CASE a # n
      BY <1>8, <3>2
    <3> QED BY <3>1, <3>2
  <2> QED BY <2>2, <2>3 DEF RouterLink
<1> QED BY <1>12, <1>13

\* What a change of the arbiter's own fields leaves alone.
LEMMA SortedOther ==
    ASSUME NEW s \in Subnets, NEW r, Sorted(r, s), NEW x \in RouterSpace,
           x.in_buffers = r.in_buffers, x.out_buffers = r.out_buffers
    PROVE  Sorted(x, s) /\ SameLinks(x, r)
BY DEF Sorted, SameLinks, RouterLink

LEMMA SameLinksTwice == ASSUME NEW x, NEW y, NEW z, SameLinks(x, y), SameLinks(y, z) PROVE SameLinks(x, z)
BY DEF SameLinks

\* One step of either arbiter's loop.
LEMMA StepKeeps ==
    ASSUME NEW s \in Subnets, NEW r, Sorted(r, s), NEW i \in Nodes, NEW x \in Step(r, i)
    PROVE  Sorted(x, s) /\ SameLinks(x, r)
<1>1. r \in RouterSpace /\ SameLinks(r, r)
  BY DEF Sorted, SameLinks
<1>2. ASSUME x \in RRStep(r, i) PROVE Sorted(x, s) /\ SameLinks(x, r)
  <2> DEFINE n == (i + r.next_node_id) % TotalNodes
             y == Transfer(r, n)
  <2>1. CASE n \in Waiting(r) /\ HasBufferOut(r, Output(r, n)) /\ Output(r, n) \notin r.issued
    <3>1. x = [y EXCEPT !.issued = @ \cup {Output(r, n)}]
      BY <1>2, <2>1 DEF RRStep
    <3>2. Sorted(y, s) /\ Output(r, n) \in Nodes
      BY <2>1, TransferFacts DEF Output, Moved
    <3>3. SameLinks(y, r)
      BY <2>1, TransferKeepsLinks
    <3> HIDE DEF y, n
    <3>4. y \in RouterSpace
      BY <3>2 DEF Sorted
    <3>5. x \in RouterSpace /\ x.in_buffers = y.in_buffers /\ x.out_buffers = y.out_buffers
      BY <3>1, <3>2, <3>4 DEF RouterSpace
    <3> QED BY <3>2, <3>3, <3>5, SortedOther, SameLinksTwice
  <2>2. CASE x = r
    BY <1>1, <2>2
  <2> QED BY <1>2, <2>1, <2>2 DEF RRStep
<1>3. ASSUME x \in ISLIPStep(r, i) PROVE Sorted(x, s) /\ SameLinks(x, r)
  <2> DEFINE wants == {m \in Waiting(r) : Output(r, m) = i}
             n == FirstFrom(r.next_node[i], wants)
             y == Transfer(r, n)
  <2>1. CASE HasBufferOut(r, i) /\ wants # {}
    <3>1. x = [y EXCEPT !.next_node[i] = IF r.grant_cycles_count = 1 THEN (n + 1) % TotalNodes ELSE @]
      BY <1>3, <2>1 DEF ISLIPStep
    <3>2. r.next_node[i] \in Nodes /\ wants \subseteq Nodes
      BY <1>1 DEF RouterSpace, Waiting
    <3>3. n \in wants
      BY <2>1, <3>2, FirstFromIn
    <3>4. n \in Waiting(r)
      BY <3>3
    <3>5. Sorted(y, s)
      BY <3>4, TransferFacts DEF Moved
    <3>6. SameLinks(y, r)
      BY <3>4, TransferKeepsLinks
    <3>7. (n + 1) % TotalNodes \in Nodes
      <4>1. n \in Int
        BY <3>2, <3>3, NodeFacts
      <4> HIDE DEF n
      <4> QED BY <4>1, AroundNodes
    <3> HIDE DEF y, n, wants
    <3>8. y \in RouterSpace
      BY <3>5 DEF Sorted
    <3>9. x \in RouterSpace /\ x.in_buffers = y.in_buffers /\ x.out_buffers = y.out_buffers
      BY <3>1, <3>7, <3>8 DEF RouterSpace
    <3> QED BY <3>5, <3>6, <3>9, SortedOther, SameLinksTwice
  <2>2. CASE x = r
    BY <1>1, <2>2
  <2> QED BY <1>3, <2>1, <2>2 DEF ISLIPStep
<1> QED BY <1>2, <1>3 DEF Step

-----------------------------------------------------------------------------
(* The loop of an arbiter.                                                  *)

\* g has the outcomes of the first m steps of the loop.
Runs(g, r, m) == g = [n \in 0..m |-> IF n = 0 THEN {r} ELSE UNION {Step(x, n - 1) : x \in g[n - 1]}]

LEMMA RunsExists ==
    ASSUME NEW r
    PROVE  \A m \in Nat : \E g : Runs(g, r, m)
<1> DEFINE S == {m \in Nat : \E g : Runs(g, r, m)}
           Then(v, n) == UNION {Step(x, n) : x \in v}
<1>1. 0 \in S
  <2> DEFINE g == [n \in 0..0 |-> {r}]
  <2>1. Runs(g, r, 0)
    BY DEF Runs
  <2> QED BY <2>1
<1>2. ASSUME NEW m \in Nat, m \in S
      PROVE  m + 1 \in S
  <2>1. PICK g : Runs(g, r, m)
    BY <1>2
  <2> DEFINE h == [n \in 0..(m + 1) |-> IF n = m + 1 THEN Then(g[m], m) ELSE g[n]]
  <2>2. \A n \in 0..m : g[n] = IF n = 0 THEN {r} ELSE Then(g[n - 1], n - 1)
    BY <2>1 DEF Runs
  <2> HIDE DEF Then
  <2>3. \A n \in 0..m : h[n] = g[n]
    OBVIOUS
  <2>4. h[m + 1] = Then(h[m], m)
    BY <2>3
  <2>5. \A n \in 0..(m + 1) : h[n] = IF n = 0 THEN {r} ELSE Then(h[n - 1], n - 1)
    <3> SUFFICES ASSUME NEW n \in 0..(m + 1)
                 PROVE  h[n] = IF n = 0 THEN {r} ELSE Then(h[n - 1], n - 1)
      OBVIOUS
    <3>1. CASE n = m + 1
      <4>1. n # 0 /\ n - 1 = m
        BY <3>1
      <4> HIDE DEF h
      <4> QED BY <2>4, <3>1, <4>1
    <3>2. CASE n # m + 1
      <4>1. n \in 0..m /\ (n # 0 => n - 1 \in 0..m)
        BY <3>2
      <4> HIDE DEF h
      <4> QED BY <2>2, <2>3, <4>1
    <3> QED BY <3>1, <3>2
  <2>6. Runs(h, r, m + 1)
    <3>1. h = [n \in 0..(m + 1) |-> h[n]]
      OBVIOUS
    <3> HIDE DEF h
    <3> QED BY <2>5, <3>1 DEF Runs, Then
  <2> QED BY <2>6
<1>3. Nat \subseteq S
  BY <1>1, <1>2, Induction
<1> QED BY <1>3

\* Whatever the loop makes of a router, its links are the same.
LEMMA LoopKeeps ==
    ASSUME NEW s \in Subnets, NEW r, Sorted(r, s), NEW x \in Loop(r)
    PROVE  Sorted(x, s) /\ SameLinks(x, r)
<1> DEFINE g == CHOOSE f : Runs(f, r, TotalNodes)
           Good(v) == \A y \in v : Sorted(y, s) /\ SameLinks(y, r)
           S == {n \in Nat : n <= TotalNodes => Good(g[n])}
<1>1. Runs(g, r, TotalNodes)
  BY RunsExists, NodeFacts
<1>2. Loop(r) = g[TotalNodes]
  BY DEF Loop, Runs
<1> HIDE DEF g
<1>3. g[0] = {r} /\ \A n \in 1..TotalNodes : g[n] = UNION {Step(y, n - 1) : y \in g[n - 1]}
  <2>1. TotalNodes \in Nat
    BY NodeFacts
  <2>2. g = [n \in 0..TotalNodes |-> IF n = 0 THEN {r} ELSE UNION {Step(y, n - 1) : y \in g[n - 1]}]
    BY <1>1 DEF Runs
  <2>3. g[0] = {r}
    BY <2>1, <2>2
  <2>4. ASSUME NEW n \in 1..TotalNodes PROVE g[n] = UNION {Step(y, n - 1) : y \in g[n - 1]}
    <3>1. n \in 0..TotalNodes /\ n # 0
      BY <2>1
    <3> QED BY <2>2, <3>1
  <2> QED BY <2>3, <2>4
<1>4. 0 \in S
  BY <1>3 DEF SameLinks
<1>5. ASSUME NEW n \in Nat, n \in S
      PROVE  n + 1 \in S
  <2> SUFFICES ASSUME n + 1 <= TotalNodes PROVE Good(g[n + 1])
    OBVIOUS
  <2>1. Good(g[n]) /\ n \in Nodes /\ n + 1 \in 1..TotalNodes /\ (n + 1) - 1 = n
    BY <1>5, NodeFacts
  <2>2. g[n + 1] = UNION {Step(y, n) : y \in g[n]}
    BY <1>3, <2>1
  <2> SUFFICES ASSUME NEW z \in g[n + 1] PROVE Sorted(z, s) /\ SameLinks(z, r)
    OBVIOUS
  <2>3. PICK y \in g[n] : z \in Step(y, n)
    BY <2>2
  <2>4. Sorted(y, s) /\ SameLinks(y, r)
    BY <2>1, <2>3
  <2>5. Sorted(z, s) /\ SameLinks(z, y)
    BY <2>1, <2>3, <2>4, StepKeeps
  <2> QED BY <2>4, <2>5, SameLinksTwice
<1>6. Nat \subseteq S
  BY <1>4, <1>5, Induction
<1>7. Good(g[TotalNodes])
  <2>1. TotalNodes \in Nat /\ TotalNodes <= TotalNodes
    BY NodeFacts
  <2>2. TotalNodes \in S
    BY <1>6, <2>1
  <2> QED BY <2>1, <2>2
<1> QED BY <1>2, <1>7

\* A cycle of a router.
LEMMA AdvanceKeeps ==
    ASSUME NEW s \in Subnets, NEW r, Sorted(r, s), arbiter \in Arbiters, NEW z \in AdvanceOf(r)
    PROVE  Sorted(z, s) /\ SameLinks(z, r)
<1>1. CASE z \in RRAdvance(r)
  <2>1. PICK x \in Loop(r) : z = [x EXCEPT !.next_node_id = (@ + 1) % TotalNodes, !.issued = {}]
    BY <1>1 DEF RRAdvance
  <2>2. Sorted(x, s) /\ SameLinks(x, r)
    BY LoopKeeps
  <2>3. x \in RouterSpace
    BY <2>2 DEF Sorted
  <2>4. (x.next_node_id + 1) % TotalNodes \in Nodes
    <3>1. x.next_node_id \in Int
      BY <2>3, NodeFacts DEF RouterSpace
    <3> QED BY <3>1, AroundNodes
  <2>5. z \in RouterSpace /\ z.in_buffers = x.in_buffers /\ z.out_buffers = x.out_buffers
    BY <2>1, <2>3, <2>4 DEF RouterSpace
  <2> QED BY <2>2, <2>5, SortedOther, SameLinksTwice
<1>2. CASE z \in ISLIPAdvance(r)
  <2> DEFINE count(x) == IF Waiting(r) = {} THEN x.grant_cycles_count
                         ELSE IF x.grant_cycles_count = 1 THEN arbiter.grant_cycles ELSE x.grant_cycles_count - 1
  <2>1. PICK x \in Loop(r) : z = [x EXCEPT !.grant_cycles_count = count(x)]
    BY <1>2 DEF ISLIPAdvance
  <2>2. Sorted(x, s) /\ SameLinks(x, r)
    BY LoopKeeps
  <2>3. x \in RouterSpace
    BY <2>2 DEF Sorted
  <2>4. count(x) \in Nat \ {0}
    BY <2>3, CrossbarAssumption DEF RouterSpace
  <2> HIDE DEF count
  <2>5. z \in RouterSpace /\ z.in_buffers = x.in_buffers /\ z.out_buffers = x.out_buffers
    BY <2>1, <2>3, <2>4 DEF RouterSpace
  <2> QED BY <2>2, <2>5, SortedOther, SameLinksTwice
<1> QED BY <1>1, <1>2 DEF AdvanceOf

-----------------------------------------------------------------------------
(* The crossbar implements its links.                                       *)

LEMMA InitIInv == Init => IInv
<1> SUFFICES ASSUME Init PROVE IInv
  OBVIOUS
<1>1. arbiter \in Arbiters /\ traffic \in Traffic /\ net = [s \in Subnets |-> NewRouter]
  BY DEF Init
<1>2. arbiter.grant_cycles \in Nat \ {0}
  BY <1>1, CrossbarAssumption
<1>3. NewRouter \in RouterSpace
  BY <1>2, NodeFacts DEF NewRouter, RouterSpace
<1>4. \A s \in Subnets : Sorted(NewRouter, s)
  BY <1>3 DEF Sorted, NewRouter
<1> QED BY <1>1, <1>3, <1>4 DEF IInv

LEMMA QueueTypes ==
    ASSUME IInv, NEW s \in Subnets, NEW n \in Nodes
    PROVE  net[s].in_buffers[n] \in Seq(Packet) /\ net[s].out_buffers[n] \in Seq(Packet)
<1>1. net[s] \in RouterSpace
  BY DEF IInv
<1> QED BY <1>1 DEF RouterSpace

\* What a step other than Advance changes: one queue of one router.
LEMMA PushFacts ==
    ASSUME IInv, NEW p \in Pairs, NEW d \in Payload, Push(p[1], p[2], d)
    PROVE  LET a == p[1]
               s == SubnetFrom(a)
               x == [src |-> a, output |-> p[2], data |-> d]
           IN  /\ a \in Nodes /\ s \in Subnets /\ x \in FromNode(s, a) /\ x \in Packet
               /\ net' = [net EXCEPT ![s] = net'[s]]
               /\ net'[s].in_buffers = [net[s].in_buffers EXCEPT ![a] = Append(@, x)]
               /\ net'[s].out_buffers = net[s].out_buffers
               /\ Sorted(net'[s], s)
<1> DEFINE a == p[1]
           s == SubnetFrom(a)
           x == [src |-> a, output |-> p[2], data |-> d]
           q == Append(net[s].in_buffers[a], x)
           r == net[s]
           n == [r EXCEPT !.in_buffers[a] = q]
<1>1. a \in Nodes /\ p[2] \in Nodes /\ s \in Subnets /\ p = <<a, p[2]>>
  BY PairFacts
<1>2. x \in Packet /\ x \in FromNode(s, a)
  BY <1>1 DEF Packet, FromNode, Routed
<1>3. net' = [net EXCEPT ![s] = n]
  BY DEF Push
<1>4. net \in [Subnets -> RouterSpace] /\ Sorted(r, s) /\ r \in RouterSpace
  BY <1>1 DEF IInv
<1>5. q \in Seq(FromNode(s, a)) /\ q \in Seq(Packet)
  <2>1. r.in_buffers[a] \in Seq(FromNode(s, a)) /\ r.in_buffers[a] \in Seq(Packet)
    BY <1>1, <1>4 DEF Sorted, RouterSpace
  <2> HIDE DEF x, r, s
  <2> QED BY <1>2, <2>1 DEF r
<1> HIDE DEF q, x, r
<1>6. n \in RouterSpace /\ n.in_buffers = [r.in_buffers EXCEPT ![a] = q] /\ n.out_buffers = r.out_buffers
  BY <1>1, <1>4, <1>5 DEF RouterSpace
<1> HIDE DEF n
<1>7. Sorted(n, s)
  BY <1>1, <1>4, <1>5, <1>6, ZenonT(60) DEF Sorted, RouterSpace
<1>8. net'[s] = n
  BY <1>1, <1>3, <1>4
<1>9. net'[s].in_buffers = [net[s].in_buffers EXCEPT ![a] = Append(@, x)]
  BY <1>6, <1>8 DEF q, r
<1> QED BY <1>1, <1>2, <1>3, <1>6, <1>7, <1>8, <1>9 DEF x, r

LEMMA PopFacts ==
    ASSUME IInv, NEW b \in Nodes, Pop(b)
    PROVE  LET s == SubnetTo(b)
               x == Head(net[s].out_buffers[b])
           IN  /\ s \in Subnets /\ x \in ForNode(s, b) /\ net[s].out_buffers[b] # <<>>
               /\ net' = [net EXCEPT ![s] = net'[s]]
               /\ net'[s].out_buffers = [net[s].out_buffers EXCEPT ![b] = Tail(@)]
               /\ net'[s].in_buffers = net[s].in_buffers
               /\ Sorted(net'[s], s)
<1> DEFINE s == SubnetTo(b)
           x == Head(net[s].out_buffers[b])
           q == Tail(net[s].out_buffers[b])
           r == net[s]
           n == [r EXCEPT !.out_buffers[b] = q]
<1>1. s \in Subnets
  BY NodeFacts
<1>2. net' = [net EXCEPT ![s] = n] /\ r.out_buffers[b] # <<>>
  BY DEF Pop
<1>3. net \in [Subnets -> RouterSpace] /\ Sorted(r, s) /\ r \in RouterSpace
  BY <1>1 DEF IInv
<1>4. q \in Seq(ForNode(s, b)) /\ q \in Seq(Packet) /\ x \in ForNode(s, b)
  <2>1. r.out_buffers[b] \in Seq(ForNode(s, b)) /\ r.out_buffers[b] \in Seq(Packet)
    BY <1>1, <1>3 DEF Sorted, RouterSpace
  <2> HIDE DEF r, s
  <2> QED BY <1>2, <2>1 DEF r
<1> HIDE DEF q, x, r
<1>5. n \in RouterSpace /\ n.out_buffers = [r.out_buffers EXCEPT ![b] = q] /\ n.in_buffers = r.in_buffers
  BY <1>3, <1>4 DEF RouterSpace
<1> HIDE DEF n
<1>6. Sorted(n, s)
  BY <1>3, <1>4, <1>5 DEF Sorted, RouterSpace
<1>7. net'[s] = n
  BY <1>1, <1>2, <1>3
<1>8. net'[s].out_buffers = [net[s].out_buffers EXCEPT ![b] = Tail(@)]
  BY <1>5, <1>7 DEF q, r
<1> QED BY <1>1, <1>2, <1>4, <1>5, <1>6, <1>7, <1>8 DEF x, r

LEMMA AdvanceFacts ==
    ASSUME IInv, Advance
    PROVE  net' \in [Subnets -> RouterSpace] /\ \A s \in Subnets : Sorted(net'[s], s) /\ SameLinks(net'[s], net[s])
<1>1. PICK x \in AdvanceOf(net["REQ_NET"]), y \in AdvanceOf(net["REPLY_NET"]) :
        net' = [net EXCEPT !["REQ_NET"] = x, !["REPLY_NET"] = y]
  BY DEF Advance
<1>2. Sorted(x, "REQ_NET") /\ SameLinks(x, net["REQ_NET"])
  BY AdvanceKeeps DEF IInv, Subnets
<1>3. Sorted(y, "REPLY_NET") /\ SameLinks(y, net["REPLY_NET"])
  BY AdvanceKeeps DEF IInv, Subnets
<1>4. net \in [Subnets -> RouterSpace] /\ x \in RouterSpace /\ y \in RouterSpace
  BY <1>2, <1>3 DEF IInv, Sorted
<1>5. net'["REQ_NET"] = x /\ net'["REPLY_NET"] = y /\ net' \in [Subnets -> RouterSpace]
  BY <1>1, <1>4 DEF Subnets
<1> QED BY <1>2, <1>3, <1>5 DEF Subnets

LEMMA TrafficFacts == ASSUME IInv PROVE traffic \subseteq Pairs
BY TrafficAssumption DEF IInv

LEMMA NextIInv == IInv /\ [Next]_vars => IInv'
<1> SUFFICES ASSUME IInv, [Next]_vars PROVE IInv'
  OBVIOUS
<1>1. ASSUME NEW s \in Subnets, Sorted(net'[s], s), net' = [net EXCEPT ![s] = net'[s]],
             UNCHANGED <<arbiter, traffic>>
      PROVE  IInv'
  <2>1. net \in [Subnets -> RouterSpace] /\ net'[s] \in RouterSpace
    BY <1>1 DEF IInv, Sorted
  <2>2. net' \in [Subnets -> RouterSpace] /\ \A z \in Subnets : z # s => net'[z] = net[z]
    BY <1>1, <2>1
  <2> QED BY <1>1, <2>2 DEF IInv
<1>2. ASSUME NEW p \in traffic, NEW d \in Payload, Push(p[1], p[2], d) PROVE IInv'
  <2>1. p \in Pairs
    BY TrafficFacts
  <2> QED BY <1>1, <1>2, <2>1, PushFacts DEF Push
<1>3. ASSUME NEW n \in Nodes, Pop(n) PROVE IInv'
  BY <1>1, <1>3, PopFacts DEF Pop
<1>4. CASE Advance
  BY <1>4, AdvanceFacts DEF IInv, Advance
<1>5. CASE UNCHANGED vars
  BY <1>5 DEF vars, IInv
<1> QED BY <1>2, <1>3, <1>4, <1>5 DEF Next

\* Both ends of a link are in one router.
LEMMA LinkAt == ASSUME NEW p \in Pairs PROVE Link(p) = RouterLink(net[SubnetFrom(p[1])], p)
BY NodeFacts DEF Link, RouterLink

LEMMA InitLinks == Init => LinkView!Init
<1> SUFFICES ASSUME Init, NEW p \in Pairs PROVE Link(p) = <<>>
  BY DEF LinkView!Init
<1>1. p[1] \in Nodes /\ p[2] \in Nodes /\ SubnetFrom(p[1]) \in Subnets
  BY NodeFacts
<1>2. net[SubnetFrom(p[1])] = NewRouter
  BY <1>1 DEF Init
<1>3. NewRouter.in_buffers[p[1]] = <<>> /\ NewRouter.out_buffers[p[2]] = <<>>
  BY <1>1 DEF NewRouter
<1> QED BY <1>2, <1>3, LinkAt, CarriedEmpty DEF RouterLink

\* A push appends to one link.
LEMMA PushLinks ==
    ASSUME IInv, NEW p \in Pairs, NEW d \in Payload, Push(p[1], p[2], d)
    PROVE  LinkView!Send(p, d)
<1> DEFINE a == p[1]
           s == SubnetFrom(a)
           x == [src |-> a, output |-> p[2], data |-> d]
<1>1. /\ a \in Nodes /\ s \in Subnets /\ x \in FromNode(s, a) /\ x \in Packet
      /\ net' = [net EXCEPT ![s] = net'[s]]
      /\ net'[s].in_buffers = [net[s].in_buffers EXCEPT ![a] = Append(@, x)]
      /\ net'[s].out_buffers = net[s].out_buffers
  BY PushFacts
<1>2. net \in [Subnets -> RouterSpace] /\ net[s] \in RouterSpace
  BY <1>1 DEF IInv
<1>3. p = <<a, p[2]>> /\ x.src = a /\ x.output = p[2] /\ x.data = d
  BY NodeFacts
<1> HIDE DEF x, s
<1>4. ASSUME NEW l \in Pairs
      PROVE  Link(l)' = IF l = p THEN Append(Link(p), d) ELSE Link(l)
  <2> DEFINE t == SubnetFrom(l[1])
             in == Carried(net[t].in_buffers[l[1]], l)
             out == Carried(net[t].out_buffers[l[2]], l)
  <2>1. /\ l[1] \in Nodes /\ l[2] \in Nodes /\ l = <<l[1], l[2]>> /\ t \in Subnets
        /\ Link(l) = out \o in
        /\ Link(l)' = Carried(net'[t].out_buffers[l[2]], l) \o Carried(net'[t].in_buffers[l[1]], l)
    BY PairFacts DEF Link
  <2>2. net[t].in_buffers[l[1]] \in Seq(Packet) /\ net[t].out_buffers[l[2]] \in Seq(Packet)
    BY <2>1, QueueTypes
  <2>3. in \in Seq(Payload) /\ out \in Seq(Payload)
    BY <2>2, CarriedType
  <2>4. CASE l[1] = a
    <3>1. t = s
      BY <2>4 DEF s
    <3>2. net'[t].out_buffers = net[t].out_buffers
      BY <1>1, <3>1
    <3>3. net'[t].in_buffers[l[1]] = Append(net[t].in_buffers[l[1]], x)
      <4>1. net[s].in_buffers \in [Nodes -> Seq(Packet)]
        BY <1>2 DEF RouterSpace
      <4>2. net'[s].in_buffers[a] = Append(net[s].in_buffers[a], x)
        BY <1>1, <4>1
      <4> QED BY <2>4, <3>1, <4>2
    <3>4. Carried(net'[t].in_buffers[l[1]], l) = More(in, x, l)
      <4> DEFINE q == net[t].in_buffers[l[1]]
      <4>1. q \in Seq(Packet) /\ x \in Packet /\ net'[t].in_buffers[l[1]] = Append(q, x)
        BY <1>1, <2>2, <3>3
      <4>2. Carried(Append(q, x), l) = More(Carried(q, l), x, l)
        BY <4>1, CarriedAppend
      <4> QED BY <4>1, <4>2
    <3>5. <<x.src, x.output>> = l <=> l = p
      BY <1>3
    <3>6. Link(l)' = out \o More(in, x, l)
      BY <2>1, <3>2, <3>4
    <3> HIDE DEF in, out
    <3>7. d \in Payload /\ out \o Append(in, d) = Append(out \o in, d)
      BY <2>3, AppendConcat
    <3>8. Link(l)' = IF l = p THEN Append(out \o in, d) ELSE out \o in
      BY <1>3, <3>5, <3>6, <3>7 DEF More
    <3> QED BY <2>1, <3>8
  <2>5. CASE l[1] # a
    <3>1. net'[t].out_buffers = net[t].out_buffers /\ net'[t].in_buffers[l[1]] = net[t].in_buffers[l[1]]
      <4>1. CASE t = s
        BY <1>1, <1>2, <2>1, <2>5, <4>1 DEF RouterSpace
      <4>2. CASE t # s
        BY <1>1, <1>2, <2>1, <4>2
      <4> QED BY <4>1, <4>2
    <3> QED BY <2>1, <2>5, <3>1
  <2> QED BY <2>4, <2>5
<1>5. [l \in Pairs |-> Link(l)'] = [[l \in Pairs |-> Link(l)] EXCEPT ![p] = Append(Link(p), d)]
  BY <1>4
<1> QED BY <1>5 DEF LinkView!Send

\* A pop takes the first packet of one link.
LEMMA PopLinks ==
    ASSUME IInv, NEW b \in Nodes, Pop(b)
    PROVE  \E p \in Pairs : LinkView!Receive(p)
<1> DEFINE s == SubnetTo(b)
           q == net[s].out_buffers[b]
           x == Head(q)
           p == <<x.src, b>>
<1>1. /\ s \in Subnets /\ x \in ForNode(s, b) /\ q # <<>>
      /\ net' = [net EXCEPT ![s] = net'[s]]
      /\ net'[s].out_buffers = [net[s].out_buffers EXCEPT ![b] = Tail(@)]
      /\ net'[s].in_buffers = net[s].in_buffers
  BY PopFacts
<1>2. net \in [Subnets -> RouterSpace] /\ net[s] \in RouterSpace
  BY <1>1 DEF IInv
<1>3. /\ p \in Pairs /\ p[1] = x.src /\ p[2] = b /\ x.output = b /\ SubnetFrom(p[1]) = s
      /\ x \in Packet /\ x.data \in Payload
  BY <1>1 DEF ForNode, Routed, Packet
<1>4. q \in Seq(Packet)
  BY <1>2 DEF RouterSpace
<1> HIDE DEF q, x, s
<1> HIDE DEF p
<1>5. ASSUME NEW l \in Pairs
      PROVE  /\ l = p => Link(l) # <<>> /\ Link(l)' = Tail(Link(l))
             /\ l # p => Link(l)' = Link(l)
  <2> DEFINE t == SubnetFrom(l[1])
             in == Carried(net[t].in_buffers[l[1]], l)
             out == Carried(net[t].out_buffers[l[2]], l)
  <2>1. /\ l[1] \in Nodes /\ l[2] \in Nodes /\ l = <<l[1], l[2]>> /\ t \in Subnets
        /\ Link(l) = out \o in
        /\ Link(l)' = Carried(net'[t].out_buffers[l[2]], l) \o Carried(net'[t].in_buffers[l[1]], l)
    BY PairFacts DEF Link
  <2>2. net[t].in_buffers[l[1]] \in Seq(Packet) /\ net[t].out_buffers[l[2]] \in Seq(Packet)
    BY <2>1, QueueTypes
  <2>3. in \in Seq(Payload) /\ out \in Seq(Payload)
    BY <2>2, CarriedType
  <2>4. net'[t].in_buffers = net[t].in_buffers
    BY <1>1, <1>2, <2>1
  <2>5. CASE l[2] = b
    <3>1. t = s
      BY <2>5, NodeFacts DEF s
    <3>2. net[t].out_buffers[l[2]] = q /\ net'[t].out_buffers[l[2]] = Tail(q)
      BY <1>1, <1>2, <2>1, <2>5, <3>1 DEF q, RouterSpace
    <3> DEFINE left == Carried(Tail(q), l)
    <3>3. out = More(<<>>, x, l) \o left
      BY <1>1, <1>4, <3>2, CarriedTail DEF x
    <3>4. Tail(q) \in Seq(Packet)
      BY <1>1, <1>4
    <3>5. left \in Seq(Payload)
      BY <3>4, CarriedType
    <3>6. <<x.src, x.output>> = l <=> l = p
      BY <1>3, <2>1, <2>5 DEF p
    <3>7. Link(l)' = left \o in
      BY <2>1, <2>4, <3>2
    <3> HIDE DEF left, in, out
    <3>8. CASE l = p
      <4> DEFINE d == x.data
      <4>1. out = <<d>> \o left /\ d \in Payload
        BY <1>3, <3>3, <3>6, <3>8 DEF More
      <4> HIDE DEF d
      <4>2. Link(l) = <<d>> \o (left \o in)
        <5> DEFINE one == <<d>>
        <5>1. one \in Seq(Payload)
          BY <4>1
        <5>2. (one \o left) \o in = one \o (left \o in)
          <6> HIDE DEF one
          <6> QED BY <2>3, <3>5, <5>1, ConcatAssociative
        <5> QED BY <2>1, <4>1, <5>2
      <4> DEFINE rest == left \o in
      <4>3. rest \in Seq(Payload)
        BY <2>3, <3>5
      <4>4. Link(l) = <<d>> \o rest /\ Link(l)' = rest
        BY <3>7, <4>2
      <4> HIDE DEF rest
      <4>5. <<d>> \o rest # <<>> /\ Tail(<<d>> \o rest) = rest
        BY <4>1, <4>3
      <4> QED BY <3>8, <4>4, <4>5
    <3>9. CASE l # p
      <4>1. out = <<>> \o left
        BY <3>3, <3>6, <3>9 DEF More
      <4>2. out = left
        BY <3>5, <4>1
      <4> QED BY <2>1, <3>7, <3>9, <4>2
    <3> QED BY <3>8, <3>9
  <2>6. CASE l[2] # b
    <3>1. net'[t].out_buffers[l[2]] = net[t].out_buffers[l[2]]
      <4>1. CASE t = s
        BY <1>1, <1>2, <2>1, <2>6, <4>1 DEF RouterSpace
      <4>2. CASE t # s
        BY <1>1, <1>2, <2>1, <4>2
      <4> QED BY <4>1, <4>2
    <3>2. l # p
      BY <1>3, <2>6
    <3> QED BY <2>1, <2>4, <3>1, <3>2
  <2> QED BY <2>5, <2>6
<1>6. Link(p) # <<>>
  BY <1>3, <1>5
<1>7. [l \in Pairs |-> Link(l)'] = [[l \in Pairs |-> Link(l)] EXCEPT ![p] = Tail(Link(p))]
  BY <1>3, <1>5
<1>8. LinkView!Receive(p)
  BY <1>3, <1>6, <1>7 DEF LinkView!Receive
<1> QED BY <1>3, <1>8

\* A cycle of the arbiters changes no link.
LEMMA AdvanceLinks ==
    ASSUME IInv, Advance
    PROVE  \A p \in Pairs : Link(p)' = Link(p)
<1> TAKE p \in Pairs
<1>1. p \in Nodes \X Nodes /\ SubnetFrom(p[1]) \in Subnets
  BY NodeFacts
<1>2. SameLinks(net'[SubnetFrom(p[1])], net[SubnetFrom(p[1])])
  BY <1>1, AdvanceFacts
<1>3. Link(p)' = RouterLink(net'[SubnetFrom(p[1])], p)
  BY NodeFacts DEF Link, RouterLink
<1> QED BY <1>1, <1>2, <1>3, LinkAt DEF SameLinks

LEMMA NextLinks == IInv /\ [Next]_vars => [LinkView!Next]_[p \in Pairs |-> Link(p)]
<1> DEFINE links == [p \in Pairs |-> Link(p)]
<1> SUFFICES ASSUME IInv, [Next]_vars
             PROVE  LinkView!Next \/ links' = links
  OBVIOUS
<1>1. ASSUME NEW p \in traffic, NEW d \in Payload, Push(p[1], p[2], d)
      PROVE  LinkView!Next
  <2>1. p \in Pairs
    BY TrafficFacts
  <2> QED BY <1>1, <2>1, PushLinks DEF LinkView!Next
<1>2. ASSUME NEW n \in Nodes, Pop(n) PROVE LinkView!Next
  BY <1>2, PopLinks DEF LinkView!Next
<1>3. CASE Advance
  BY <1>3, AdvanceLinks
<1>4. CASE UNCHANGED vars
  BY <1>4 DEF vars, Link
<1> QED BY <1>1, <1>2, <1>3, <1>4 DEF Next

\* The queues hold what they are for: the input queue of a node packets it
\* sent, into the subnet of its side, the output queue packets for it, from the
\* other side (LocalInterconnect::Push, local_interconnect.cc:325-344).
THEOREM QueuesSorted == Spec => [](\A s \in Subnets : Sorted(net[s], s))
<1>1. IInv => \A s \in Subnets : Sorted(net[s], s)
  BY DEF IInv
<1> QED BY <1>1, InitIInv, NextIInv, PTL DEF Spec

\* Between two nodes the crossbar loses, invents and reorders nothing, whatever
\* its arbiter grants in a cycle: each push and pop is a step of Links, and a
\* cycle of RR_Advance or iSLIP_Advance (local_interconnect.cc:123-270) is none.
THEOREM CrossbarKeepsLinks == Spec => ImplementsLinks
<1> DEFINE links == [p \in Pairs |-> Link(p)]
<1>1. Init => LinkView!Init
  BY InitLinks
<1>2. IInv /\ [Next]_vars => [LinkView!Next]_links
  BY NextLinks
<1> QED BY <1>1, <1>2, InitIInv, NextIInv, PTL DEF Spec, ImplementsLinks, LinkView!Spec
=============================================================================
