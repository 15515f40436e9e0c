----------------------- MODULE MemoryPartitionProofs -----------------------
(***************************************************************************)
(* Proofs about MemoryPartition, for any requests, sub-partitions, banks,  *)
(* rows, sizes of queues and watermarks, with either DRAM model and with   *)
(* or without the separate queue of writes.                                *)
(*                                                                         *)
(* The invariant says where every request is.  A request passes thirteen   *)
(* places in a fixed order; a function from requests to places determines  *)
(* what each queue holds, and accesses to one row never overtake.          *)
(***************************************************************************)
EXTENDS MemoryPartition, FiniteSetTheorems, WellFoundedInduction, TLAPS

(* The places: 0 in its core, 1 m_rop, 2 m_icnt_L2_queue, 3 m_L2_dram_queue, *)
(* 4 m_dram_latency_queue, 5 mrqq, 6 the scheduler, 7 a bank, 8 rwq,        *)
(* 9 returnq, 10 m_dram_L2_queue, 11 m_L2_icnt_queue, 12 answered.          *)
Places == 0..12

\* The accesses of which the first is answered before the second.
RowOrder == {p \in Requests \X Requests :
    /\ p[1] < p[2] /\ Kind[p[1]] \in {"read", "write"} /\ Kind[p[2]] \in {"read", "write"}
    /\ QueueOf(p[1]) = QueueOf(p[2]) /\ SubOf[p[1]] = SubOf[p[2]]
    /\ BankOf[p[1]] = BankOf[p[2]] /\ RowOf[p[1]] = RowOf[p[2]]}

\* Queue q holds the requests in S, each once, and in the given order.
Holds(q, S, order) ==
    /\ SetOf(q) = S
    /\ \A i, j \in 1..Len(q) : q[i] = q[j] => i = j
    /\ \A i, j \in 1..Len(q) : <<q[i], q[j]>> \in order => i < j

At(place, k)       == {r \in Requests : place[r] = k}
AtSub(place, k, s) == {r \in Requests : place[r] = k /\ SubOf[r] = s}

NoneOvertakes(place) == \A x, y \in Requests : <<x, y>> \in RowOrder => place[y] <= place[x]

\* What a sub-partition holds.
SubHolds(place, s) ==
    /\ Holds(m_rop[s], AtSub(place, 1, s), RowOrder)
    /\ Holds(m_icnt_L2_queue[s], AtSub(place, 2, s), RowOrder)
    /\ Holds(m_L2_dram_queue[s], AtSub(place, 3, s), RowOrder)
    /\ Holds(m_dram_L2_queue[s], AtSub(place, 10, s), RowOrder)
    /\ Holds(m_L2_icnt_queue[s], AtSub(place, 11, s), RowOrder)
    /\ m_request_tracker[s] = {r \in Requests : place[r] \in 1..11 /\ SubOf[r] = s}

\* What the channel holds.
BanksHold(place) ==
    /\ \A b \in Banks : mrq[b] # None => mrq[b] \in At(place, 7) /\ BankOf[mrq[b]] = b
    /\ \A r \in At(place, 7) : mrq[BankOf[r]] = r

DramHolds(place) ==
    /\ Holds(m_dram_latency_queue, At(place, 4), RowOrder)
    /\ Holds(mrqq, At(place, 5), RowOrder)
    /\ \A m \in Modes : Holds(m_queue[m], {r \in At(place, 6) : QueueOf(r) = m}, RowOrder)
    /\ BanksHold(place)
    /\ Holds(rwq, At(place, 8), RowOrder)
    /\ Holds(returnq, At(place, 9), RowOrder)
    /\ simple_dram_model => \A r \in Requests : place[r] \notin 5..9

Located(place) ==
    /\ sent = {r \in Requests : place[r] # 0} /\ answered = At(place, 12)
    /\ \A s \in SubPartitions : SubHolds(place, s)
    /\ DramHolds(place)
    /\ NoneOvertakes(place)

\* A row a bank is serving has a request waiting.
RowsServed ==
    \A m \in Modes : \A b \in Banks :
        m_last_row[m][b] # None => OfRow(m_queue[m], b, m_last_row[m][b]) # {}

\* A request waits for the scheduler from the end of a DRAM cycle to the next;
\* the simple model has no such parts.
Phases ==
    /\ Len(mrqq) <= 1
    /\ phase \notin {"idle", "data", "schedule"} => mrqq = <<>>
    /\ simple_dram_model => phase \in {"idle", "arbitrate"} /\ mrqq = <<>>

IInv ==
    /\ TypeOK /\ CreditsMatch /\ RowsServed /\ Phases
    /\ \E place \in [Requests -> Places] : Located(place)

-----------------------------------------------------------------------------
(* Queues.                                                                  *)

\* The front of a queue leaves.
LEMMA HoldsTail ==
    ASSUME NEW q \in Seq(Requests), q # <<>>, NEW S, NEW order, Holds(q, S, order)
    PROVE  /\ Head(q) \in S /\ Head(q) \in Requests /\ Tail(q) \in Seq(Requests)
           /\ \A x \in S : <<x, Head(q)>> \notin order
           /\ Holds(Tail(q), S \ {Head(q)}, order)
<1> DEFINE r == Head(q)
           t == Tail(q)
<1>1. /\ r = q[1] /\ 1 \in 1..Len(q) /\ Len(q) \in Nat /\ r \in Requests
      /\ t \in Seq(Requests) /\ Len(t) = Len(q) - 1
      /\ \A i \in 1..Len(t) : t[i] = q[i + 1] /\ i + 1 \in 1..Len(q)
  OBVIOUS
<1> HIDE DEF r, t
<1>2. r \in S
  BY <1>1 DEF Holds, SetOf
<1>3. ASSUME NEW x \in S PROVE <<x, r>> \notin order
  <2>1. PICK i \in 1..Len(q) : q[i] = x
    BY DEF Holds, SetOf
  <2> QED BY <1>1, <2>1 DEF Holds
<1>4. SetOf(t) = S \ {r}
  <2>1. ASSUME NEW i \in 1..Len(t) PROVE t[i] \in S \ {r}
    BY <1>1 DEF Holds, SetOf
  <2>2. ASSUME NEW x \in S \ {r} PROVE \E i \in 1..Len(t) : t[i] = x
    <3>1. PICK j \in 1..Len(q) : q[j] = x
      BY DEF Holds, SetOf
    <3>2. j # 1 /\ j - 1 \in 1..Len(t) /\ (j - 1) + 1 = j
      BY <1>1, <3>1
    <3> QED BY <1>1, <3>1, <3>2
  <2> QED BY <2>1, <2>2 DEF SetOf
<1>5. \A i, j \in 1..Len(t) : t[i] = t[j] => i = j
  BY <1>1 DEF Holds
<1>6. \A i, j \in 1..Len(t) : <<t[i], t[j]>> \in order => i < j
  BY <1>1 DEF Holds
<1>7. Holds(t, S \ {r}, order)
  BY <1>4, <1>5, <1>6 DEF Holds
<1> QED BY <1>1, <1>2, <1>3, <1>7 DEF r, t

\* A request joins behind those it does not precede.
LEMMA HoldsAppend ==
    ASSUME NEW q \in Seq(Requests), NEW S, NEW order, Holds(q, S, order),
           NEW r \in Requests, r \notin S, <<r, r>> \notin order,
           \A x \in S : <<r, x>> \notin order
    PROVE  Append(q, r) \in Seq(Requests) /\ Holds(Append(q, r), S \cup {r}, order)
<1> DEFINE t == Append(q, r)
<1>1. /\ t \in Seq(Requests) /\ Len(t) = Len(q) + 1 /\ Len(q) \in Nat
      /\ t[Len(q) + 1] = r /\ \A i \in 1..Len(q) : t[i] = q[i]
  OBVIOUS
<1> HIDE DEF t
<1>2. \A i \in 1..Len(t) : i \in 1..Len(q) \/ i = Len(q) + 1
  BY <1>1
<1>3. \A i \in 1..Len(q) : q[i] \in S /\ i < Len(q) + 1 /\ i \in 1..Len(t)
  BY <1>1 DEF Holds, SetOf
<1>4. SetOf(t) = S \cup {r}
  <2>1. \A i \in 1..Len(t) : t[i] \in S \cup {r}
    BY <1>1, <1>2, <1>3
  <2>2. ASSUME NEW x \in S PROVE \E i \in 1..Len(t) : t[i] = x
    <3>1. PICK i \in 1..Len(q) : q[i] = x
      BY DEF Holds, SetOf
    <3> QED BY <1>1, <1>3, <3>1
  <2>3. \E i \in 1..Len(t) : t[i] = r
    BY <1>1
  <2> QED BY <2>1, <2>2, <2>3 DEF SetOf
<1>5. \A i, j \in 1..Len(t) : t[i] = t[j] => i = j
  BY <1>1, <1>2, <1>3 DEF Holds
<1>6. \A i, j \in 1..Len(t) : <<t[i], t[j]>> \in order => i < j
  BY <1>1, <1>2, <1>3, SMTT(30) DEF Holds
<1>7. Holds(t, S \cup {r}, order)
  BY <1>4, <1>5, <1>6 DEF Holds
<1> QED BY <1>1, <1>7 DEF t

\* The scheduler takes a request out of the middle.
LEMMA HoldsErase ==
    ASSUME NEW q \in Seq(Requests), NEW S, NEW order, Holds(q, S, order), NEW k \in 1..Len(q)
    PROVE  /\ q[k] \in S /\ Erase(q, k) \in Seq(Requests)
           /\ Holds(Erase(q, k), S \ {q[k]}, order)
<1> DEFINE t == Erase(q, k)
           n == Len(q) - 1
           old(i) == IF i < k THEN i ELSE i + 1
<1>1. Len(q) \in Nat /\ n \in Nat /\ k \in Nat /\ \A i \in 1..Len(q) : q[i] \in Requests
  OBVIOUS
<1>2. \A i \in 1..n : old(i) \in 1..Len(q) /\ old(i) # k
  BY <1>1
<1>3. \A i, j \in 1..n : (old(i) = old(j) => i = j) /\ (old(i) < old(j) => i < j)
  BY <1>1
<1>4. t = [i \in 1..n |-> q[old(i)]]
  BY DEF Erase
<1>5. \A i \in 1..Len(q) : i # k => \E j \in 1..n : old(j) = i
  <2> SUFFICES ASSUME NEW i \in 1..Len(q), i # k PROVE \E j \in 1..n : old(j) = i
    OBVIOUS
  <2>1. CASE i < k
    <3>1. i \in 1..n /\ old(i) = i
      BY <1>1, <2>1
    <3> QED BY <3>1
  <2>2. CASE i > k
    <3>1. i - 1 \in 1..n /\ old(i - 1) = i
      BY <1>1, <2>2
    <3> QED BY <3>1
  <2> QED BY <1>1, <2>1, <2>2
<1> HIDE DEF t, n, old
<1>6. t \in Seq(Requests) /\ Len(t) = n
  BY <1>1, <1>2, <1>4
<1>7. \A i \in 1..n : t[i] = q[old(i)]
  BY <1>4
<1>8. q[k] \in S
  BY DEF Holds, SetOf
<1>9. SetOf(t) = S \ {q[k]}
  <2>1. \A i \in 1..n : t[i] \in S \ {q[k]}
    BY <1>2, <1>7 DEF Holds, SetOf
  <2>2. ASSUME NEW x \in S \ {q[k]} PROVE \E i \in 1..n : t[i] = x
    <3>1. PICK i \in 1..Len(q) : q[i] = x
      BY DEF Holds, SetOf
    <3>2. PICK j \in 1..n : old(j) = i
      BY <1>5, <3>1
    <3> QED BY <1>7, <3>1, <3>2
  <2> QED BY <1>6, <2>1, <2>2 DEF SetOf
<1>10. \A i, j \in 1..n : t[i] = t[j] => i = j
  BY <1>2, <1>3, <1>7 DEF Holds
<1>11. \A i, j \in 1..n : <<t[i], t[j]>> \in order => i < j
  BY <1>2, <1>3, <1>7 DEF Holds
<1>12. Holds(t, S \ {q[k]}, order)
  BY <1>6, <1>9, <1>10, <1>11 DEF Holds
<1> QED BY <1>6, <1>8, <1>12 DEF t

-----------------------------------------------------------------------------
(* Places.                                                                  *)

LEMMA OrderedPair ==
    ASSUME NEW x, NEW y, <<x, y>> \in RowOrder
    PROVE  /\ x \in Requests /\ y \in Requests /\ x < y
           /\ Kind[x] \in {"read", "write"} /\ Kind[y] \in {"read", "write"}
           /\ QueueOf(x) = QueueOf(y) /\ SubOf[x] = SubOf[y]
           /\ BankOf[x] = BankOf[y] /\ RowOf[x] = RowOf[y]
BY DEF RowOrder

LEMMA OrderStrict ==
    ASSUME NEW x \in Requests PROVE <<x, x>> \notin RowOrder
<1>1. x \in Nat
  BY DEF Requests
<1>2. ~(x < x)
  BY <1>1
<1> QED BY <1>2, OrderedPair

\* The configuration does not change, and the order of accesses with it.
LEMMA OrderStays ==
    ASSUME UNCHANGED config
    PROVE  RowOrder' = RowOrder /\ \A r : QueueOf(r)' = QueueOf(r)
BY DEF config, RowOrder, QueueOf

\* A request moves to a place.
Move(place, r, p) == [place EXCEPT ![r] = p]

\* One request moves on, and those it follows are there already.
LEMMA MoveOrder ==
    ASSUME NEW place \in [Requests -> Places], NoneOvertakes(place),
           NEW r \in Requests, NEW p \in Places, place[r] < p,
           \A x \in Requests : <<x, r>> \in RowOrder => p <= place[x]
    PROVE  /\ Move(place, r, p) \in [Requests -> Places]
           /\ NoneOvertakes(Move(place, r, p))
<1> DEFINE new == Move(place, r, p)
<1>1. /\ new \in [Requests -> Places] /\ new[r] = p
      /\ \A x \in Requests : x # r => new[x] = place[x]
  BY DEF Move
<1> HIDE DEF new
<1>2. ASSUME NEW x \in Requests, NEW y \in Requests, <<x, y>> \in RowOrder
      PROVE  new[y] <= new[x]
  <2>1. place[y] <= place[x] /\ place[x] \in 0..12 /\ place[y] \in 0..12 /\ p \in 0..12
    BY <1>2 DEF NoneOvertakes, Places
  <2>2. CASE y = r
    <3>1. x # r
      BY <1>2, <2>2, OrderStrict
    <3> QED BY <1>1, <1>2, <2>2, <3>1
  <2>3. CASE x = r /\ y # r
    <3>1. new[x] = p /\ new[y] = place[y] /\ place[x] = place[r]
      BY <1>1, <2>3
    <3> QED BY <2>1, <3>1
  <2>4. CASE x # r /\ y # r
    BY <1>1, <2>1, <2>4
  <2> QED BY <2>2, <2>3, <2>4
<1>3. NoneOvertakes(new)
  BY <1>2 DEF NoneOvertakes
<1> QED BY <1>1, <1>3 DEF new

\* A sub-partition none of whose queues changes.
SubUnchanged(s) ==
    /\ m_rop'[s] = m_rop[s] /\ m_icnt_L2_queue'[s] = m_icnt_L2_queue[s]
    /\ m_L2_dram_queue'[s] = m_L2_dram_queue[s] /\ m_dram_L2_queue'[s] = m_dram_L2_queue[s]
    /\ m_L2_icnt_queue'[s] = m_L2_icnt_queue[s] /\ m_request_tracker'[s] = m_request_tracker[s]

LEMMA SubFrame ==
    ASSUME UNCHANGED config, NEW s, NEW place, NEW new, SubHolds(place, s), SubUnchanged(s),
           \A x \in Requests : SubOf[x] = s =>
               new[x] = place[x] \/ (new[x] \in 4..9 /\ place[x] \in 4..9)
    PROVE  SubHolds(new, s)'
<1>1. \A k \in {1, 2, 3, 10, 11} : AtSub(new, k, s) = AtSub(place, k, s)
  BY DEF AtSub
<1>2. {r \in Requests : new[r] \in 1..11 /\ SubOf[r] = s}
        = {r \in Requests : place[r] \in 1..11 /\ SubOf[r] = s}
  OBVIOUS
<1>3. RowOrder' = RowOrder
  BY OrderStays
<1> QED BY <1>1, <1>2, <1>3 DEF SubHolds, SubUnchanged

\* The channel, when none of its queues changes.
LEMMA DramFrame ==
    ASSUME UNCHANGED <<config, m_dram_latency_queue, mrqq, m_queue, mrq, rwq, returnq>>,
           NEW place, NEW new, DramHolds(place),
           \A x \in Requests : new[x] = place[x] \/ (new[x] \notin 4..9 /\ place[x] \notin 4..9)
    PROVE  DramHolds(new)'
<1>1. \A k \in 4..9 : At(new, k) = At(place, k)
  BY DEF At
<1>2. RowOrder' = RowOrder /\ \A r : QueueOf(r)' = QueueOf(r)
  BY OrderStays
<1>3. simple_dram_model' => \A r \in Requests : new[r] \notin 5..9
  BY DEF DramHolds, config
<1>4. BanksHold(new)'
  <2>1. At(new, 7) = At(place, 7)
    BY <1>1
  <2>2. BanksHold(place) /\ mrq' = mrq
    BY DEF DramHolds
  <2> QED BY <2>1, <2>2 DEF BanksHold
<1>5. \A m \in Modes : {r \in At(new, 6) : QueueOf(r)'= m} = {r \in At(place, 6) : QueueOf(r) = m}
  BY <1>1, <1>2
<1> QED BY <1>1, <1>2, <1>3, <1>4, <1>5 DEF DramHolds

InChannel(place) == {r \in Requests : place[r] \in 4..9}

\* What a request that moves leaves behind it is ahead of nothing it follows.
Passable(place, r, p) ==
    /\ r \in Requests /\ p \in Places /\ place[r] < p
    /\ \A x \in Requests : <<x, r>> \in RowOrder => p <= place[x]

\* The front of a queue may move if nothing it follows is between.
LEMMA FrontPasses ==
    ASSUME NEW place \in [Requests -> Places], NoneOvertakes(place),
           NEW q \in Seq(Requests), q # <<>>, NEW S, Holds(q, S, RowOrder),
           NEW p \in Places, place[Head(q)] < p,
           \A x \in Requests :
              (<<x, Head(q)>> \in RowOrder /\ place[Head(q)] <= place[x]) => x \in S \/ p <= place[x]
    PROVE  Passable(place, Head(q), p)
<1>1. Head(q) \in Requests /\ \A x \in S : <<x, Head(q)>> \notin RowOrder
  BY HoldsTail
<1> QED BY <1>1 DEF NoneOvertakes, Passable

\* A request moves within the channel.
LEMMA ChannelMove ==
    ASSUME UNCHANGED <<config, traffic, queues>>, NEW place \in [Requests -> Places], Located(place),
           NEW r, NEW p \in 4..9, Passable(place, r, p), place[r] \in 4..9,
           DramHolds(Move(place, r, p))'
    PROVE  /\ Move(place, r, p) \in [Requests -> Places] /\ Located(Move(place, r, p))'
           /\ InChannel(Move(place, r, p)) = InChannel(place)
<1> DEFINE new == Move(place, r, p)
<1>1. r \in Requests /\ p \in Places /\ place[r] < p /\ place[r] # p
  BY DEF Passable, Places
<1>2. new \in [Requests -> Places] /\ NoneOvertakes(new)
  BY <1>1, MoveOrder DEF Passable, Located
<1>7. new[r] = p /\ \A x \in Requests : x # r => new[x] = place[x]
  BY <1>1 DEF Move
<1> HIDE DEF new
<1>3. ASSUME NEW s \in SubPartitions PROVE SubHolds(new, s)'
  <2>1. SubHolds(place, s) /\ SubUnchanged(s)
    BY DEF Located, SubUnchanged, queues, traffic
  <2> QED BY <1>7, <2>1, SubFrame
<1>4. {x \in Requests : new[x] # 0} = {x \in Requests : place[x] # 0} /\ At(new, 12) = At(place, 12)
  BY <1>7 DEF At
<1>5. InChannel(new) = InChannel(place)
  BY <1>1, <1>7 DEF InChannel
<1>6. NoneOvertakes(new)'
  BY <1>2, OrderStays DEF NoneOvertakes
<1>8. new \in [Requests -> Places] /\ Located(new)' /\ InChannel(new) = InChannel(place)
  <2>1. DramHolds(new)'
    BY DEF new
  <2> QED BY <1>2, <1>3, <1>4, <1>5, <1>6, <2>1 DEF Located, traffic
<1> QED BY <1>8 DEF new

\* Nothing moves.
LEMMA NothingMoves ==
    ASSUME UNCHANGED <<config, traffic, queues, m_dram_latency_queue, mrqq, m_queue, mrq, rwq, returnq>>,
           NEW place \in [Requests -> Places], Located(place)
    PROVE  Located(place)'
<1>1. ASSUME NEW s \in SubPartitions PROVE SubHolds(place, s)'
  <2>1. SubHolds(place, s) /\ SubUnchanged(s)
    BY DEF Located, SubUnchanged, queues, traffic
  <2> QED BY <2>1, SubFrame
<1>2. DramHolds(place)'
  BY DramFrame DEF Located
<1>3. NoneOvertakes(place)'
  BY OrderStays DEF Located, NoneOvertakes
<1> QED BY <1>1, <1>2, <1>3 DEF Located, traffic

LEMMA MoveAddReq ==
    ASSUME TypeOK, NEW place \in [Requests -> Places], Located(place), AddReq
    PROVE  \E new \in [Requests -> Places] : Located(new)' /\ InChannel(new) = InChannel(place)
<1>1. mrqq \in Seq(Requests) /\ mrqq # <<>> /\ mrqq' = Tail(mrqq)
  BY DEF AddReq, TypeOK
<1> PICK r \in Requests : r = Head(mrqq)
  BY <1>1
<1> DEFINE m   == QueueOf(r)
           new == Move(place, r, 6)
<1>2. /\ place[r] = 5 /\ Holds(mrqq', At(place, 5) \ {r}, RowOrder)
      /\ Passable(place, r, 6)
  <2>1. Holds(mrqq, At(place, 5), RowOrder) /\ NoneOvertakes(place)
    BY DEF Located, DramHolds
  <2>2. r \in At(place, 5) /\ Holds(Tail(mrqq), At(place, 5) \ {r}, RowOrder)
    BY <1>1, <2>1, HoldsTail
  <2>3. place[r] = 5
    BY <2>2 DEF At
  <2>4. \A x \in Requests : 5 <= place[x] => x \in At(place, 5) \/ 6 <= place[x]
    BY DEF At, Places
  <2>5. Passable(place, r, 6)
    BY <1>1, <2>1, <2>3, <2>4, FrontPasses DEF Places
  <2> QED BY <1>1, <2>2, <2>3, <2>5
<1>3. m \in Modes /\ m_queue \in [Modes -> Seq(Requests)]
  BY DEF QueueOf, Modes, TypeOK
<1>4. /\ m_queue'[m] = Append(m_queue[m], r)
      /\ \A l \in Modes \ {m} : m_queue'[l] = m_queue[l]
  BY <1>3 DEF AddReq
<1>5. UNCHANGED <<config, traffic, queues, m_dram_latency_queue, mrq, rwq, returnq>>
  BY DEF AddReq
<1> HIDE DEF new
<1>6. RowOrder' = RowOrder /\ \A x : QueueOf(x)' = QueueOf(x)
  BY <1>5, OrderStays
<1>7. /\ At(new, 5) = At(place, 5) \ {r} /\ At(new, 6) = At(place, 6) \cup {r} /\ r \notin At(place, 6)
      /\ At(new, 4) = At(place, 4) /\ At(new, 7) = At(place, 7)
      /\ At(new, 8) = At(place, 8) /\ At(new, 9) = At(place, 9)
  <2>1. new[r] = 6 /\ \A x \in Requests : x # r => new[x] = place[x]
    BY DEF new, Move
  <2>2. At(new, 5) = At(place, 5) \ {r} /\ At(new, 6) = At(place, 6) \cup {r}
    BY <1>2, <2>1 DEF At
  <2>3. \A k \in {4, 7, 8, 9} : At(new, k) = At(place, k)
    BY <1>2, <2>1 DEF At
  <2> QED BY <1>2, <2>2, <2>3 DEF At
<1>8. DramHolds(place)
  BY DEF Located
<1>9. ASSUME NEW l \in Modes PROVE Holds(m_queue'[l], {x \in At(new, 6) : QueueOf(x) = l}, RowOrder)
  <2>1. Holds(m_queue[l], {x \in At(place, 6) : QueueOf(x) = l}, RowOrder)
    BY <1>8 DEF DramHolds
  <2>2. CASE l = m
    <3>1. \A x \in At(place, 6) : <<r, x>> \notin RowOrder
      <4>1. \A x \in At(place, 6) : x \in Requests /\ place[x] = 6
        BY DEF At
      <4> QED BY <1>2, <4>1 DEF Located, NoneOvertakes
    <3>2. <<r, r>> \notin RowOrder
      BY <1>2, OrderStrict
    <3>3. {x \in At(new, 6) : QueueOf(x) = l} = {x \in At(place, 6) : QueueOf(x) = l} \cup {r}
      BY <1>7, <2>2
    <3>4. m_queue[l] \in Seq(Requests)
      BY <1>3
    <3>5. r \notin {x \in At(place, 6) : QueueOf(x) = l}
      BY <1>7
    <3>6. Holds(Append(m_queue[l], r), {x \in At(place, 6) : QueueOf(x) = l} \cup {r}, RowOrder)
      BY <1>2, <2>1, <3>1, <3>2, <3>4, <3>5, HoldsAppend
    <3> QED BY <1>4, <2>2, <3>3, <3>6
  <2>3. CASE l # m
    <3>1. {x \in At(new, 6) : QueueOf(x) = l} = {x \in At(place, 6) : QueueOf(x) = l}
      BY <1>7, <2>3
    <3> QED BY <1>4, <2>1, <2>3, <3>1
  <2> QED BY <2>2, <2>3
<1>10. BanksHold(new)'
  <2>1. BanksHold(place) /\ mrq' = mrq
    BY <1>5, <1>8 DEF DramHolds
  <2> QED BY <1>7, <2>1 DEF BanksHold
<1>11. ~simple_dram_model
  BY <1>2, <1>8 DEF DramHolds
<1>12. DramHolds(new)'
  BY <1>2, <1>5, <1>6, <1>7, <1>8, <1>9, <1>10, <1>11 DEF DramHolds, config
<1>13. new \in [Requests -> Places] /\ Located(new)' /\ InChannel(new) = InChannel(place)
  BY <1>2, <1>5, <1>12, ChannelMove DEF new
<1> QED BY <1>13

\* A request joins the queue of the place it moves to.
LEMMA JoinsBehind ==
    ASSUME NEW place \in [Requests -> Places], NoneOvertakes(place),
           NEW r, NEW p, Passable(place, r, p),
           NEW q \in Seq(Requests), NEW S, Holds(q, S, RowOrder),
           \A x \in S : x \in Requests /\ place[x] = p
    PROVE  Append(q, r) \in Seq(Requests) /\ Holds(Append(q, r), S \cup {r}, RowOrder)
<1>1. r \in Requests /\ p \in 0..12 /\ place[r] \in 0..12 /\ place[r] < p
  BY DEF Passable, Places
<1>2. r \notin S
  BY <1>1
<1>3. ASSUME NEW x \in S PROVE <<r, x>> \notin RowOrder
  <2>1. x \in Requests /\ place[x] = p
    OBVIOUS
  <2> QED BY <1>1, <2>1 DEF NoneOvertakes
<1>4. <<r, r>> \notin RowOrder
  BY <1>1, OrderStrict
<1> QED BY <1>1, <1>2, <1>3, <1>4, HoldsAppend

\* A request moves from or to its sub-partition.
LEMMA PlaceMove ==
    ASSUME UNCHANGED config, NEW place \in [Requests -> Places], Located(place),
           NEW r, NEW p, Passable(place, r, p), place[r] # 0, UNCHANGED sent,
           answered' = IF p = 12 THEN answered \cup {r} ELSE answered,
           \A s \in SubPartitions : s # SubOf[r] => SubUnchanged(s),
           SubHolds(Move(place, r, p), SubOf[r])',
           DramHolds(Move(place, r, p))'
    PROVE  Move(place, r, p) \in [Requests -> Places] /\ Located(Move(place, r, p))'
<1> DEFINE new == Move(place, r, p)
<1>1. r \in Requests /\ p \in 0..12 /\ place[r] \in 0..12 /\ place[r] < p
  BY DEF Passable, Places
<1>2. new \in [Requests -> Places] /\ NoneOvertakes(new)
  BY <1>1, MoveOrder DEF Passable, Located, Places
<1>3. new[r] = p /\ \A x \in Requests : x # r => new[x] = place[x]
  BY <1>1 DEF Move
<1>4. SubHolds(new, SubOf[r])' /\ DramHolds(new)'
  OBVIOUS
<1> HIDE DEF new
<1>5. ASSUME NEW s \in SubPartitions PROVE SubHolds(new, s)'
  <2>1. CASE s = SubOf[r]
    BY <1>4, <2>1
  <2>2. CASE s # SubOf[r]
    <3>1. SubHolds(place, s) /\ SubUnchanged(s)
      BY <2>2 DEF Located
    <3>2. \A x \in Requests : SubOf[x] = s => new[x] = place[x]
      BY <1>3, <2>2
    <3> QED BY <3>1, <3>2, SubFrame
  <2> QED BY <2>1, <2>2
<1>6. {x \in Requests : new[x] # 0} = {x \in Requests : place[x] # 0}
  BY <1>1, <1>3
<1>7. answered' = At(new, 12)
  <2>1. answered = At(place, 12)
    BY DEF Located
  <2>2. At(new, 12) = IF p = 12 THEN At(place, 12) \cup {r} ELSE At(place, 12)
    BY <1>1, <1>3 DEF At
  <2> QED BY <2>1, <2>2
<1>8. NoneOvertakes(new)'
  BY <1>2, OrderStays DEF NoneOvertakes
<1>9. Located(new)'
  BY <1>4, <1>5, <1>6, <1>7, <1>8 DEF Located
<1> QED BY <1>2, <1>9 DEF new

LEMMA MoveLatency ==
    ASSUME TypeOK, NEW place \in [Requests -> Places], Located(place), ~simple_dram_model, DramLatency
    PROVE  \E new \in [Requests -> Places] : Located(new)' /\ InChannel(new) = InChannel(place)
<1>1. CASE UNCHANGED <<mrqq, m_dram_latency_queue>>
  BY <1>1, NothingMoves DEF DramLatency, scheduler
<1>2. CASE /\ m_dram_latency_queue # <<>>
           /\ mrqq' = Append(mrqq, Head(m_dram_latency_queue))
           /\ m_dram_latency_queue' = Tail(m_dram_latency_queue)
  <2>1. m_dram_latency_queue \in Seq(Requests) /\ mrqq \in Seq(Requests)
    BY DEF TypeOK
  <2> PICK r \in Requests : r = Head(m_dram_latency_queue)
    BY <1>2, <2>1
  <2> DEFINE new == Move(place, r, 5)
  <2>2. DramHolds(place) /\ NoneOvertakes(place)
    BY DEF Located
  <2>3. /\ r \in At(place, 4) /\ Holds(m_dram_latency_queue', At(place, 4) \ {r}, RowOrder)
    BY <1>2, <2>1, <2>2, HoldsTail DEF DramHolds
  <2>4. place[r] = 4 /\ Passable(place, r, 5)
    <3>1. place[r] = 4 /\ \A x \in Requests : 4 <= place[x] => x \in At(place, 4) \/ 5 <= place[x]
      BY <2>3 DEF At, Places
    <3>2. Holds(m_dram_latency_queue, At(place, 4), RowOrder) /\ 5 \in Places
      BY <2>2 DEF DramHolds, Places
    <3>3. Passable(place, r, 5)
      BY <1>2, <2>1, <2>2, <3>1, <3>2, FrontPasses, SMTT(30)
    <3> QED BY <3>1, <3>3
  <2>5. Holds(mrqq', At(place, 5) \cup {r}, RowOrder)
    BY <1>2, <2>1, <2>2, <2>4, JoinsBehind DEF DramHolds, At
  <2> HIDE DEF new
  <2>6. UNCHANGED <<config, traffic, queues, m_queue, mrq, rwq, returnq>>
    BY DEF DramLatency, scheduler
  <2>7. RowOrder' = RowOrder /\ \A x : QueueOf(x)' = QueueOf(x)
    BY <2>6, OrderStays
  <2>8. /\ At(new, 4) = At(place, 4) \ {r} /\ At(new, 5) = At(place, 5) \cup {r}
        /\ At(new, 6) = At(place, 6) /\ At(new, 7) = At(place, 7)
        /\ At(new, 8) = At(place, 8) /\ At(new, 9) = At(place, 9)
    <3>1. new[r] = 5 /\ \A x \in Requests : x # r => new[x] = place[x]
      BY DEF new, Move
    <3>2. At(new, 4) = At(place, 4) \ {r} /\ At(new, 5) = At(place, 5) \cup {r}
      BY <2>4, <3>1 DEF At
    <3>3. \A k \in {6, 7, 8, 9} : At(new, k) = At(place, k)
      BY <2>4, <3>1 DEF At
    <3> QED BY <3>2, <3>3
  <2>9. BanksHold(new)'
    BY <2>2, <2>6, <2>8 DEF BanksHold, DramHolds
  <2>10. DramHolds(new)'
    BY <2>2, <2>3, <2>5, <2>6, <2>7, <2>8, <2>9 DEF DramHolds, config
  <2> QED BY <2>4, <2>6, <2>10, ChannelMove DEF new
<1> QED BY <1>1, <1>2 DEF DramLatency

LEMMA MoveCommand ==
    ASSUME TypeOK, NEW place \in [Requests -> Places], Located(place), ~simple_dram_model, DramCommand
    PROVE  \E new \in [Requests -> Places] : Located(new)' /\ InChannel(new) = InChannel(place)
<1>1. CASE UNCHANGED <<rwq, curr_row, mrq>>
  BY <1>1, NothingMoves DEF DramCommand, scheduler
<1>2. ASSUME NEW b \in Banks, mrq[b] # None, rwq' = Append(rwq, mrq[b]),
             mrq' = [mrq EXCEPT ![b] = None]
      PROVE  \E new \in [Requests -> Places] : Located(new)' /\ InChannel(new) = InChannel(place)
  <2>1. rwq \in Seq(Requests) /\ mrq \in [Banks -> Requests \cup {None}]
    BY DEF TypeOK
  <2> PICK r \in Requests : r = mrq[b]
    BY <1>2, <2>1
  <2> DEFINE new == Move(place, r, 8)
  <2>2. DramHolds(place) /\ NoneOvertakes(place) /\ BanksHold(place)
    BY DEF Located, DramHolds
  <2>3. place[r] = 7 /\ BankOf[r] = b
    BY <1>2, <2>2 DEF BanksHold, At
  <2>4. Passable(place, r, 8)
    <3>1. ASSUME NEW x \in Requests, <<x, r>> \in RowOrder PROVE 8 <= place[x]
      <4>1. 7 <= place[x] /\ BankOf[x] = b /\ x # r /\ place[x] \in 0..12
        BY <2>2, <2>3, <3>1, OrderedPair, OrderStrict DEF NoneOvertakes, Places
      <4>2. place[x] # 7
        <5> SUFFICES ASSUME place[x] = 7 PROVE FALSE
          OBVIOUS
        <5>1. x \in At(place, 7)
          BY DEF At
        <5> QED BY <2>2, <4>1, <5>1 DEF BanksHold
      <4> QED BY <4>1, <4>2
    <3> QED BY <2>3, <3>1 DEF Passable, Places
  <2>5. Holds(rwq', At(place, 8) \cup {r}, RowOrder)
    BY <1>2, <2>1, <2>2, <2>4, JoinsBehind DEF DramHolds, At
  <2>6. mrq'[b] = None /\ \A c \in Banks : c # b => mrq'[c] = mrq[c]
    BY <1>2, <2>1
  <2> HIDE DEF new
  <2>7. UNCHANGED <<config, traffic, queues, m_dram_latency_queue, mrqq, m_queue, returnq>>
    BY DEF DramCommand, scheduler
  <2>8. RowOrder' = RowOrder /\ \A x : QueueOf(x)' = QueueOf(x)
    BY <2>7, OrderStays
  <2>9. /\ At(new, 7) = At(place, 7) \ {r} /\ At(new, 8) = At(place, 8) \cup {r}
        /\ At(new, 4) = At(place, 4) /\ At(new, 5) = At(place, 5)
        /\ At(new, 6) = At(place, 6) /\ At(new, 9) = At(place, 9)
    <3>1. new[r] = 8 /\ \A x \in Requests : x # r => new[x] = place[x]
      BY DEF new, Move
    <3>2. At(new, 7) = At(place, 7) \ {r} /\ At(new, 8) = At(place, 8) \cup {r}
      BY <2>3, <3>1 DEF At
    <3>3. \A k \in {4, 5, 6, 9} : At(new, k) = At(place, k)
      BY <2>3, <3>1 DEF At
    <3> QED BY <3>2, <3>3
  <2>10. BanksHold(new)'
    <3>1. ASSUME NEW c \in Banks, mrq'[c] # None
          PROVE  mrq'[c] \in At(place, 7) \ {r} /\ BankOf[mrq'[c]] = c
      <4>1. c # b /\ mrq'[c] = mrq[c] /\ mrq[c] \in At(place, 7) /\ BankOf[mrq[c]] = c
        BY <2>2, <2>6, <3>1 DEF BanksHold
      <4> QED BY <2>3, <4>1
    <3>2. ASSUME NEW x \in At(place, 7) \ {r} PROVE mrq'[BankOf[x]] = x
      <4>1. x \in Requests /\ mrq[BankOf[x]] = x
        BY <2>2 DEF BanksHold, At
      <4>2. BankOf[x] \in Banks
        BY <4>1, MemoryPartitionAssumption
      <4>3. BankOf[x] # b
        BY <4>1
      <4> QED BY <2>6, <4>1, <4>2, <4>3
    <3> QED BY <2>9, <3>1, <3>2 DEF BanksHold
  <2>11. DramHolds(new)'
    BY <2>2, <2>5, <2>7, <2>8, <2>9, <2>10 DEF DramHolds, config
  <2> QED BY <2>3, <2>4, <2>7, <2>11, ChannelMove DEF new
<1> QED BY <1>1, <1>2 DEF DramCommand

-----------------------------------------------------------------------------
(* The scheduler.                                                           *)

LEMMA OldestFirst ==
    ASSUME NEW I, I \subseteq Nat, I # {}
    PROVE  Oldest(I) \in I /\ \A j \in I : Oldest(I) <= j
<1>1. \E i \in I : \A j \in I : ~(j < i)
  <2>1. PICK i \in I : \A j \in I : ~(<<j, i>> \in OpToRel(<, Nat))
    BY NatLessThanWellFounded, WFMin
  <2> QED BY <2>1 DEF OpToRel
<1>2. PICK i \in I : \A j \in I : ~(j < i)
  BY <1>1
<1>3. \A j \in I : i <= j
  BY <1>2
<1> QED BY <1>3 DEF Oldest

\* The requests of a row, by what is in the queue.
LEMMA RowWaits ==
    ASSUME NEW q \in Seq(Requests), NEW b, NEW row
    PROVE  OfRow(q, b, row) # {} <=> \E r \in SetOf(q) : BankOf[r] = b /\ RowOf[r] = row
BY DEF OfRow, OfBank, SetOf

\* A row schedule() turns to has a request waiting, and the one it takes is the
\* oldest of its row.
LEMMA RowHasRequest ==
    ASSUME NEW m \in Modes, NEW b \in Banks, m_queue[m] \in Seq(Requests),
           OfBank(m_queue[m], b) # {},
           m_last_row[m][b] # None => OfRow(m_queue[m], b, m_last_row[m][b]) # {}
    PROVE  LET bin == OfRow(m_queue[m], b, Row(m_queue[m], b, m))
           IN  /\ bin # {} /\ Oldest(bin) \in bin /\ \A j \in bin : Oldest(bin) <= j
               /\ bin \subseteq 1..Len(m_queue[m])
<1> DEFINE q   == m_queue[m]
           bin == OfRow(q, b, Row(q, b, m))
           old == Oldest(OfBank(q, b))
<1>1. Len(q) \in Nat /\ OfBank(q, b) \subseteq 1..Len(q) /\ OfBank(q, b) \subseteq Nat
  BY DEF OfBank
<1>2. old \in OfBank(q, b)
  BY <1>1, OldestFirst
<1>3. old \in OfRow(q, b, RowOf[q[old]])
  BY <1>2 DEF OfRow
<1>4. bin # {}
  BY <1>3 DEF Row
<1>5. bin \subseteq 1..Len(q) /\ bin \subseteq Nat
  BY <1>1 DEF OfRow
<1>6. Oldest(bin) \in bin /\ \A j \in bin : Oldest(bin) <= j
  BY <1>4, <1>5, OldestFirst
<1> QED BY <1>4, <1>5, <1>6

\* The choice schedule() makes: a free bank gets the oldest request of a row.
Scheduled(m, b, i) ==
    /\ mrq[b] = None /\ BankOf[m_queue[m][i]] = b
    /\ \A j \in 1..Len(m_queue[m]) :
          BankOf[m_queue[m][j]] = b /\ RowOf[m_queue[m][j]] = RowOf[m_queue[m][i]] => i <= j
    /\ mrq' = [mrq EXCEPT ![b] = m_queue[m][i]]
    /\ m_queue' = [m_queue EXCEPT ![m] = Erase(m_queue[m], i)]
    /\ m_last_row' = [m_last_row EXCEPT ![m][b] =
                        IF OfRow(m_queue[m], b, RowOf[m_queue[m][i]]) = {i} THEN None
                        ELSE RowOf[m_queue[m][i]]]

LEMMA ScheduleChoice ==
    ASSUME TypeOK, RowsServed, DramSchedule
    PROVE  /\ m_mode' \in Modes
           /\ \/ UNCHANGED <<m_queue, m_last_row, mrq>>
              \/ \E m \in Modes : \E b \in Banks : \E i \in 1..Len(m_queue[m]) : Scheduled(m, b, i)
<1> DEFINE free == {b \in Banks : mrq[b] = None}
           m    == IF free = {} THEN m_mode ELSE ModeFor
           q    == m_queue[m]
           some == {b \in free : OfBank(q, b) # {}}
<1>1. m_mode' = m /\ m \in Modes
  BY DEF DramSchedule, TypeOK, ModeFor, Modes
<1>2. m_queue[m] \in Seq(Requests)
  BY <1>1 DEF TypeOK
<1>3. ASSUME NEW b \in some,
             LET bin == OfRow(q, b, Row(q, b, m))
                 i   == Oldest(bin)
             IN  /\ mrq' = [mrq EXCEPT ![b] = q[i]]
                 /\ m_queue' = [m_queue EXCEPT ![m] = Erase(q, i)]
                 /\ m_last_row' = [m_last_row EXCEPT ![m][b] =
                                      IF bin = {i} THEN None ELSE RowOf[q[i]]]
      PROVE  \E l \in Modes : \E c \in Banks : \E k \in 1..Len(m_queue[l]) : Scheduled(l, c, k)
  <2> DEFINE row == Row(q, b, m)
             bin == OfRow(q, b, row)
             i   == Oldest(bin)
  <2>1. b \in Banks /\ mrq[b] = None /\ OfBank(q, b) # {}
    OBVIOUS
  <2>2. m_last_row[m][b] # None => OfRow(q, b, m_last_row[m][b]) # {}
    BY <1>1, <2>1 DEF RowsServed
  <2>3. i \in bin /\ (\A j \in bin : i <= j) /\ bin \subseteq 1..Len(q)
    BY <1>1, <1>2, <2>1, <2>2, RowHasRequest
  <2>4. BankOf[q[i]] = b /\ RowOf[q[i]] = row /\ i \in 1..Len(q)
    BY <2>3 DEF OfRow, OfBank
  <2>5. \A j \in 1..Len(q) : BankOf[q[j]] = b /\ RowOf[q[j]] = RowOf[q[i]] => i <= j
    BY <2>3, <2>4 DEF OfRow, OfBank
  <2>6. OfRow(q, b, RowOf[q[i]]) = bin
    BY <2>4
  <2>7. /\ mrq' = [mrq EXCEPT ![b] = q[i]]
        /\ m_queue' = [m_queue EXCEPT ![m] = Erase(q, i)]
        /\ m_last_row' = [m_last_row EXCEPT ![m][b] = IF bin = {i} THEN None ELSE RowOf[q[i]]]
    BY <1>3
  <2> HIDE DEF i, bin, row, m
  <2>8. Scheduled(m, b, i)
    BY <2>1, <2>4, <2>5, <2>6, <2>7 DEF Scheduled
  <2> QED BY <1>1, <2>1, <2>4, <2>8
<1>4. CASE some = {}
  BY <1>1, <1>4 DEF DramSchedule
<1>5. CASE some # {}
  <2>1. \E b \in some :
             LET bin == OfRow(q, b, Row(q, b, m))
                 i   == Oldest(bin)
             IN  /\ mrq' = [mrq EXCEPT ![b] = q[i]]
                 /\ m_queue' = [m_queue EXCEPT ![m] = Erase(q, i)]
                 /\ m_last_row' = [m_last_row EXCEPT ![m][b] =
                                      IF bin = {i} THEN None ELSE RowOf[q[i]]]
    BY <1>5 DEF DramSchedule
  <2> QED BY <1>1, <1>3, <2>1
<1> QED BY <1>4, <1>5

\* What is left of a row after its oldest request.
LEMMA RestOfRow ==
    ASSUME NEW q \in Seq(Requests), NEW S, Holds(q, S, RowOrder), NEW i \in 1..Len(q),
           NEW b, NEW row, OfRow(q, b, row) # {}, OfRow(q, b, row) # {i}
    PROVE  OfRow(Erase(q, i), b, row) # {}
<1>1. PICK j \in OfRow(q, b, row) : j # i
  OBVIOUS
<1>2. j \in 1..Len(q) /\ BankOf[q[j]] = b /\ RowOf[q[j]] = row
  BY <1>1 DEF OfRow, OfBank
<1>3. q[j] # q[i] /\ q[j] \in S
  BY <1>1, <1>2 DEF Holds, SetOf
<1>4. Erase(q, i) \in Seq(Requests) /\ Holds(Erase(q, i), S \ {q[i]}, RowOrder)
  BY HoldsErase
<1>5. q[j] \in SetOf(Erase(q, i))
  BY <1>3, <1>4 DEF Holds
<1> QED BY <1>2, <1>4, <1>5, RowWaits

LEMMA MoveSchedule ==
    ASSUME TypeOK, NEW place \in [Requests -> Places], Located(place), ~simple_dram_model,
           RowsServed, DramSchedule
    PROVE  \E new \in [Requests -> Places] : Located(new)' /\ InChannel(new) = InChannel(place)
<1>1. CASE UNCHANGED <<m_queue, m_last_row, mrq>>
  BY <1>1, NothingMoves DEF DramSchedule
<1>2. ASSUME NEW m \in Modes, NEW b \in Banks, NEW i \in 1..Len(m_queue[m]), Scheduled(m, b, i)
      PROVE  \E new \in [Requests -> Places] : Located(new)' /\ InChannel(new) = InChannel(place)
  <2>1. /\ m_queue \in [Modes -> Seq(Requests)] /\ m_queue[m] \in Seq(Requests)
        /\ mrq \in [Banks -> Requests \cup {None}]
    BY DEF TypeOK
  <2> DEFINE S == {x \in At(place, 6) : QueueOf(x) = m}
  <2>2. DramHolds(place) /\ NoneOvertakes(place) /\ BanksHold(place) /\ Holds(m_queue[m], S, RowOrder)
    BY DEF Located, DramHolds
  <2> PICK r \in Requests : r = m_queue[m][i]
    BY <2>1
  <2> DEFINE new == Move(place, r, 7)
  <2>3. r \in S /\ Erase(m_queue[m], i) \in Seq(Requests) /\ Holds(Erase(m_queue[m], i), S \ {r}, RowOrder)
    BY <2>1, <2>2, HoldsErase
  <2>4. place[r] = 6 /\ QueueOf(r) = m /\ BankOf[r] = b /\ mrq[b] = None
    BY <1>2, <2>3 DEF At, Scheduled
  <2>5. Passable(place, r, 7)
    <3>1. ASSUME NEW x \in Requests, <<x, r>> \in RowOrder PROVE 7 <= place[x]
      <4>1. /\ 6 <= place[x] /\ BankOf[x] = b /\ RowOf[x] = RowOf[r] /\ QueueOf(x) = m
            /\ place[x] \in 0..12
        BY <2>2, <2>4, <3>1, OrderedPair DEF NoneOvertakes, Places
      <4>2. place[x] # 6
        <5> SUFFICES ASSUME place[x] = 6 PROVE FALSE
          OBVIOUS
        <5>1. x \in S
          BY <4>1 DEF At
        <5>2. PICK j \in 1..Len(m_queue[m]) : m_queue[m][j] = x
          BY <2>2, <5>1 DEF Holds, SetOf
        <5>3. j < i
          BY <2>2, <3>1, <5>2 DEF Holds
        <5>4. i <= j
          BY <1>2, <4>1, <5>2 DEF Scheduled
        <5>5. i \in Int /\ j \in Int
          OBVIOUS
        <5> QED BY <5>3, <5>4, <5>5
      <4> QED BY <4>1, <4>2
    <3> QED BY <2>4, <3>1 DEF Passable, Places
  <2>6. mrq'[b] = r /\ \A c \in Banks : c # b => mrq'[c] = mrq[c]
    BY <1>2, <2>1 DEF Scheduled
  <2>7. m_queue'[m] = Erase(m_queue[m], i) /\ \A l \in Modes : l # m => m_queue'[l] = m_queue[l]
    BY <1>2, <2>1 DEF Scheduled
  <2> HIDE DEF new
  <2>8. UNCHANGED <<config, traffic, queues, m_dram_latency_queue, mrqq, rwq, returnq>>
    BY DEF DramSchedule
  <2>9. RowOrder' = RowOrder /\ \A x : QueueOf(x)' = QueueOf(x)
    BY <2>8, OrderStays
  <2>10. /\ At(new, 6) = At(place, 6) \ {r} /\ At(new, 7) = At(place, 7) \cup {r}
         /\ At(new, 4) = At(place, 4) /\ At(new, 5) = At(place, 5)
         /\ At(new, 8) = At(place, 8) /\ At(new, 9) = At(place, 9)
    <3>1. new[r] = 7 /\ \A x \in Requests : x # r => new[x] = place[x]
      BY DEF new, Move
    <3>2. At(new, 6) = At(place, 6) \ {r} /\ At(new, 7) = At(place, 7) \cup {r}
      BY <2>4, <3>1 DEF At
    <3>3. \A k \in {4, 5, 8, 9} : At(new, k) = At(place, k)
      BY <2>4, <3>1 DEF At
    <3> QED BY <3>2, <3>3
  <2>11. ASSUME NEW l \in Modes PROVE Holds(m_queue'[l], {x \in At(new, 6) : QueueOf(x) = l}, RowOrder)
    <3>1. CASE l = m
      <4>1. {x \in At(new, 6) : QueueOf(x) = l} = S \ {r}
        BY <2>10, <3>1
      <4> QED BY <2>3, <2>7, <3>1, <4>1
    <3>2. CASE l # m
      <4>1. {x \in At(new, 6) : QueueOf(x) = l} = {x \in At(place, 6) : QueueOf(x) = l}
        BY <2>4, <2>10, <3>2
      <4>2. Holds(m_queue[l], {x \in At(place, 6) : QueueOf(x) = l}, RowOrder)
        BY <2>2 DEF DramHolds
      <4> QED BY <2>7, <3>2, <4>1, <4>2
    <3> QED BY <3>1, <3>2
  <2>12. BanksHold(new)'
    <3>1. ASSUME NEW c \in Banks, mrq'[c] # None
          PROVE  mrq'[c] \in At(place, 7) \cup {r} /\ BankOf[mrq'[c]] = c
      <4>1. CASE c = b
        BY <2>4, <2>6, <4>1
      <4>2. CASE c # b
        BY <2>2, <2>6, <3>1, <4>2 DEF BanksHold
      <4> QED BY <4>1, <4>2
    <3>2. ASSUME NEW x \in At(place, 7) PROVE mrq'[BankOf[x]] = x
      <4>1. x \in Requests /\ mrq[BankOf[x]] = x /\ x # None
        BY <2>2, MemoryPartitionAssumption DEF BanksHold, At
      <4>2. BankOf[x] \in Banks /\ BankOf[x] # b
        BY <2>4, <4>1, MemoryPartitionAssumption
      <4> QED BY <2>6, <4>1, <4>2
    <3>3. mrq'[BankOf[r]] = r
      BY <2>4, <2>6
    <3> QED BY <2>10, <3>1, <3>2, <3>3 DEF BanksHold
  <2>13. DramHolds(new)'
    BY <2>2, <2>8, <2>9, <2>10, <2>11, <2>12 DEF DramHolds, config
  <2> QED BY <2>4, <2>5, <2>8, <2>13, ChannelMove DEF new
<1> QED BY <1>1, <1>2, ScheduleChoice

-----------------------------------------------------------------------------
(* Out of the channel.                                                      *)

\* What a step does to the requests that hold a credit, and to the credits.
CreditStep(place, new) ==
    \/ InChannel(new) = InChannel(place) /\ UNCHANGED credits
    \/ \E r \in InChannel(place) : InChannel(new) = InChannel(place) \ {r} /\ ReturnCredit(SubOf[r])
    \/ \E r \in Requests \ InChannel(place) :
          /\ HasCredits(SubOf[r]) /\ BorrowCredit(SubOf[r])
          /\ InChannel(new) = InChannel(place) \cup {r}

\* A request goes up to its sub-partition.
LEMMA Delivered ==
    ASSUME TypeOK, UNCHANGED config, NEW place \in [Requests -> Places], Located(place),
           NEW r, place[r] \in {4, 9}, Passable(place, r, 10), DeliverTo(SubOf[r], r),
           DramHolds(Move(place, r, 10))'
    PROVE  \E new \in [Requests -> Places] : Located(new)' /\ CreditStep(place, new)
<1> DEFINE new == Move(place, r, 10)
           s   == SubOf[r]
<1>1. r \in Requests /\ s \in SubPartitions /\ m_dram_L2_queue \in [SubPartitions -> Seq(Requests)]
  BY MemoryPartitionAssumption DEF Passable, TypeOK
<1>2. new[r] = 10 /\ \A x \in Requests : x # r => new[x] = place[x]
  BY <1>1 DEF Move
<1>3. UNCHANGED <<traffic, m_rop, m_icnt_L2_queue, m_L2_dram_queue, m_L2_icnt_queue>>
  BY DEF DeliverTo
<1>4. /\ m_dram_L2_queue'[s] = Append(m_dram_L2_queue[s], r)
      /\ \A x \in SubPartitions : x # s => m_dram_L2_queue'[x] = m_dram_L2_queue[x]
  BY <1>1 DEF DeliverTo
<1>5. SubHolds(place, s) /\ NoneOvertakes(place)
  BY <1>1 DEF Located
<1>6. Holds(m_dram_L2_queue'[s], AtSub(place, 10, s) \cup {r}, RowOrder)
  <2>1. \A x \in AtSub(place, 10, s) : x \in Requests /\ place[x] = 10
    BY DEF AtSub
  <2>2. m_dram_L2_queue[s] \in Seq(Requests) /\ Holds(m_dram_L2_queue[s], AtSub(place, 10, s), RowOrder)
    BY <1>1, <1>5 DEF SubHolds
  <2>3. Holds(Append(m_dram_L2_queue[s], r), AtSub(place, 10, s) \cup {r}, RowOrder)
    BY <1>5, <2>1, <2>2, JoinsBehind
  <2> QED BY <1>4, <2>3
<1>7. DramHolds(new)'
  OBVIOUS
<1> HIDE DEF new
<1>8. \A k \in {1, 2, 3, 11} : AtSub(new, k, s) = AtSub(place, k, s)
  BY <1>2 DEF AtSub
<1>9. AtSub(new, 10, s) = AtSub(place, 10, s) \cup {r}
  BY <1>1, <1>2 DEF AtSub
<1>10. {x \in Requests : new[x] \in 1..11 /\ SubOf[x] = s}
         = {x \in Requests : place[x] \in 1..11 /\ SubOf[x] = s}
  BY <1>1, <1>2
<1>11. RowOrder' = RowOrder
  BY OrderStays
<1>12. SubHolds(new, s)'
  BY <1>3, <1>5, <1>6, <1>8, <1>9, <1>10, <1>11 DEF SubHolds, traffic
<1>13. \A x \in SubPartitions : x # s => SubUnchanged(x)
  BY <1>3, <1>4 DEF SubUnchanged, traffic
<1>14. place[r] # 0 /\ UNCHANGED sent /\ answered' = answered
  BY <1>3 DEF traffic
<1>15. new \in [Requests -> Places] /\ Located(new)'
  BY <1>7, <1>12, <1>13, <1>14, PlaceMove DEF new
<1>16. r \in InChannel(place) /\ InChannel(new) = InChannel(place) \ {r}
  BY <1>1, <1>2 DEF InChannel
<1>17. CreditStep(place, new)
  BY <1>16 DEF CreditStep, DeliverTo
<1> QED BY <1>15, <1>17

\* A write-back is done with.
LEMMA Done ==
    ASSUME TypeOK, UNCHANGED config, NEW place \in [Requests -> Places], Located(place),
           NEW r \in Requests, place[r] \in {4, 8}, Kind[r] = "writeback", SetDone(r),
           DramHolds(Move(place, r, 12))'
    PROVE  \E new \in [Requests -> Places] : Located(new)' /\ CreditStep(place, new)
<1> DEFINE new == Move(place, r, 12)
           s   == SubOf[r]
<1>1. s \in SubPartitions /\ m_request_tracker \in [SubPartitions -> SUBSET Requests]
  BY MemoryPartitionAssumption DEF TypeOK
<1>2. new[r] = 12 /\ \A x \in Requests : x # r => new[x] = place[x]
  BY DEF Move
<1>3. UNCHANGED <<sent, queues>>
  BY DEF SetDone
<1>4. /\ m_request_tracker'[s] = m_request_tracker[s] \ {r}
      /\ \A x \in SubPartitions : x # s => m_request_tracker'[x] = m_request_tracker[x]
  BY <1>1 DEF SetDone
<1>5. SubHolds(place, s)
  BY <1>1 DEF Located
<1>6. Passable(place, r, 12)
  BY OrderedPair DEF Passable, Places
<1>7. DramHolds(new)'
  OBVIOUS
<1> HIDE DEF new
<1>8. \A k \in {1, 2, 3, 10, 11} : AtSub(new, k, s) = AtSub(place, k, s)
  BY <1>2 DEF AtSub
<1>9. {x \in Requests : new[x] \in 1..11 /\ SubOf[x] = s}
        = {x \in Requests : place[x] \in 1..11 /\ SubOf[x] = s} \ {r}
  BY <1>2
<1>10. RowOrder' = RowOrder
  BY OrderStays
<1>11. SubHolds(new, s)'
  BY <1>3, <1>4, <1>5, <1>8, <1>9, <1>10 DEF SubHolds, queues
<1>12. \A x \in SubPartitions : x # s => SubUnchanged(x)
  BY <1>3, <1>4 DEF SubUnchanged, queues
<1>13. place[r] # 0 /\ UNCHANGED sent /\ answered' = answered \cup {r}
  BY <1>3 DEF SetDone
<1>14. new \in [Requests -> Places] /\ Located(new)'
  BY <1>6, <1>7, <1>11, <1>12, <1>13, PlaceMove DEF new
<1>15. r \in InChannel(place) /\ InChannel(new) = InChannel(place) \ {r}
  BY <1>2 DEF InChannel
<1>16. CreditStep(place, new)
  BY <1>15 DEF CreditStep, SetDone
<1> QED BY <1>14, <1>16

LEMMA MoveReturn ==
    ASSUME TypeOK, NEW place \in [Requests -> Places], Located(place), DramReturn
    PROVE  \E new \in [Requests -> Places] : Located(new)' /\ CreditStep(place, new)
<1>1. CASE UNCHANGED <<traffic, queues, credits, returnq>>
  <2>1. UNCHANGED <<config, m_dram_latency_queue, mrqq, m_queue, mrq, rwq>>
    BY DEF DramReturn, scheduler
  <2>2. Located(place)'
    BY <1>1, <2>1, NothingMoves
  <2> QED BY <1>1, <2>2 DEF CreditStep
<1>2. CASE /\ returnq # <<>> /\ DeliverTo(SubOf[Head(returnq)], Head(returnq))
           /\ returnq' = Tail(returnq)
  <2>1. returnq \in Seq(Requests)
    BY DEF TypeOK
  <2> PICK r \in Requests : r = Head(returnq)
    BY <1>2, <2>1
  <2> DEFINE new == Move(place, r, 10)
  <2>2. DramHolds(place) /\ NoneOvertakes(place)
    BY DEF Located
  <2>3. Holds(returnq, At(place, 9), RowOrder) /\ 10 \in Places
    BY <2>2 DEF DramHolds, Places
  <2>4. r \in At(place, 9) /\ Holds(returnq', At(place, 9) \ {r}, RowOrder)
    BY <1>2, <2>1, <2>3, HoldsTail
  <2>5. place[r] = 9 /\ Passable(place, r, 10)
    <3>1. place[r] = 9 /\ \A x \in Requests : 9 <= place[x] => x \in At(place, 9) \/ 10 <= place[x]
      BY <2>4 DEF At, Places
    <3>2. Passable(place, r, 10)
      BY <1>2, <2>1, <2>2, <2>3, <3>1, FrontPasses
    <3> QED BY <3>1, <3>2
  <2> HIDE DEF new
  <2>6. UNCHANGED <<config, m_dram_latency_queue, mrqq, m_queue, mrq, rwq>>
    BY DEF DramReturn, scheduler
  <2>7. RowOrder' = RowOrder /\ \A x : QueueOf(x)' = QueueOf(x)
    BY <2>6, OrderStays
  <2>8. /\ At(new, 9) = At(place, 9) \ {r}
        /\ At(new, 4) = At(place, 4) /\ At(new, 5) = At(place, 5)
        /\ At(new, 6) = At(place, 6) /\ At(new, 7) = At(place, 7) /\ At(new, 8) = At(place, 8)
    <3>1. new[r] = 10 /\ \A x \in Requests : x # r => new[x] = place[x]
      BY DEF new, Move
    <3>2. At(new, 9) = At(place, 9) \ {r}
      BY <2>5, <3>1 DEF At
    <3>3. \A k \in {4, 5, 6, 7, 8} : At(new, k) = At(place, k)
      BY <2>5, <3>1 DEF At
    <3> QED BY <3>2, <3>3
  <2>9. BanksHold(new)'
    BY <2>2, <2>6, <2>8 DEF BanksHold, DramHolds
  <2>10. ~simple_dram_model
    BY DEF DramReturn
  <2>11. DramHolds(new)'
    BY <2>2, <2>4, <2>6, <2>7, <2>8, <2>9, <2>10 DEF DramHolds, config
  <2> QED BY <1>2, <2>5, <2>6, <2>11, Delivered DEF new
<1> QED BY <1>1, <1>2 DEF DramReturn

LEMMA MoveData ==
    ASSUME TypeOK, NEW place \in [Requests -> Places], Located(place), ~simple_dram_model, DramData
    PROVE  \E new \in [Requests -> Places] : Located(new)' /\ CreditStep(place, new)
<1>1. UNCHANGED <<config, m_dram_latency_queue, mrqq, m_queue, mrq>>
  BY DEF DramData, scheduler
<1>2. RowOrder' = RowOrder /\ \A x : QueueOf(x)' = QueueOf(x)
  BY <1>1, OrderStays
<1>3. CASE UNCHANGED <<rwq, returnq, traffic, queues, credits>>
  <2>1. Located(place)'
    BY <1>1, <1>3, NothingMoves
  <2> QED BY <1>3, <2>1 DEF CreditStep
<1>4. CASE /\ rwq # <<>> /\ rwq' = Tail(rwq)
           /\ IF Kind[Head(rwq)] = "writeback"
              THEN SetDone(Head(rwq)) /\ UNCHANGED returnq
              ELSE /\ returnq' = Append(returnq, Head(rwq))
                   /\ UNCHANGED <<traffic, queues, credits>>
  <2>1. rwq \in Seq(Requests) /\ returnq \in Seq(Requests)
    BY DEF TypeOK
  <2> PICK r \in Requests : r = Head(rwq)
    BY <1>4, <2>1
  <2>2. DramHolds(place) /\ NoneOvertakes(place)
    BY DEF Located
  <2>3. Holds(rwq, At(place, 8), RowOrder) /\ 9 \in Places
    BY <2>2 DEF DramHolds, Places
  <2>4. r \in At(place, 8) /\ Holds(rwq', At(place, 8) \ {r}, RowOrder)
    BY <1>4, <2>1, <2>3, HoldsTail
  <2>5. place[r] = 8
    BY <2>4 DEF At
  <2>6. CASE Kind[r] = "writeback"
    <3> DEFINE new == Move(place, r, 12)
    <3>1. new[r] = 12 /\ \A x \in Requests : x # r => new[x] = place[x]
      BY DEF Move
    <3> HIDE DEF new
    <3>2. SetDone(r) /\ UNCHANGED returnq
      BY <1>4, <2>6
    <3>3. At(new, 8) = At(place, 8) \ {r}
      BY <2>5, <3>1 DEF At
    <3>4. \A k \in {4, 5, 6, 7, 9} : At(new, k) = At(place, k)
      BY <2>5, <3>1 DEF At
    <3>5. BanksHold(new)'
      BY <1>1, <2>2, <3>4 DEF BanksHold, DramHolds
    <3>6. DramHolds(new)'
      BY <1>1, <1>2, <2>2, <2>4, <3>2, <3>3, <3>4, <3>5 DEF DramHolds, config
    <3> QED BY <1>1, <2>5, <2>6, <3>2, <3>6, Done DEF new
  <2>7. CASE Kind[r] # "writeback"
    <3> DEFINE new == Move(place, r, 9)
    <3>1. new[r] = 9 /\ \A x \in Requests : x # r => new[x] = place[x]
      BY DEF Move
    <3> HIDE DEF new
    <3>2. returnq' = Append(returnq, r) /\ UNCHANGED <<traffic, queues, credits>>
      BY <1>4, <2>7
    <3>3. Passable(place, r, 9)
      <4>1. \A x \in Requests : 8 <= place[x] => x \in At(place, 8) \/ 9 <= place[x]
        BY DEF At, Places
      <4> QED BY <1>4, <2>1, <2>2, <2>3, <2>5, <4>1, FrontPasses, SMTT(30)
    <3>4. Holds(returnq', At(place, 9) \cup {r}, RowOrder)
      <4>1. Holds(returnq, At(place, 9), RowOrder) /\ \A x \in At(place, 9) : x \in Requests /\ place[x] = 9
        BY <2>2 DEF DramHolds, At
      <4> QED BY <2>1, <2>2, <3>2, <3>3, <4>1, JoinsBehind
    <3>5. At(new, 8) = At(place, 8) \ {r} /\ At(new, 9) = At(place, 9) \cup {r}
      BY <2>5, <3>1 DEF At
    <3>6. \A k \in {4, 5, 6, 7} : At(new, k) = At(place, k)
      BY <2>5, <3>1 DEF At
    <3>7. BanksHold(new)'
      BY <1>1, <2>2, <3>6 DEF BanksHold, DramHolds
    <3>8. DramHolds(new)'
      BY <1>1, <1>2, <2>2, <2>4, <3>4, <3>5, <3>6, <3>7 DEF DramHolds, config
    <3>9. new \in [Requests -> Places] /\ Located(new)' /\ InChannel(new) = InChannel(place)
      BY <1>1, <2>5, <3>2, <3>3, <3>8, ChannelMove DEF new
    <3> QED BY <3>2, <3>9 DEF CreditStep
  <2> QED BY <2>6, <2>7
<1> QED BY <1>3, <1>4 DEF DramData

LEMMA MoveSimple ==
    ASSUME TypeOK, NEW place \in [Requests -> Places], Located(place), SimpleReturn
    PROVE  \E new \in [Requests -> Places] : Located(new)' /\ CreditStep(place, new)
<1>1. UNCHANGED <<config, mrqq, m_queue, mrq, rwq, returnq>> /\ simple_dram_model
  BY DEF SimpleReturn, dram, scheduler
<1>2. RowOrder' = RowOrder /\ \A x : QueueOf(x)' = QueueOf(x)
  BY <1>1, OrderStays
<1>3. CASE UNCHANGED <<m_dram_latency_queue, traffic, queues, credits>>
  <2>1. Located(place)'
    BY <1>1, <1>3, NothingMoves
  <2> QED BY <1>3, <2>1 DEF CreditStep
<1>4. ASSUME m_dram_latency_queue # <<>>, m_dram_latency_queue' = Tail(m_dram_latency_queue),
             NEW r \in Requests, r = Head(m_dram_latency_queue),
             \/ Kind[r] = "writeback" /\ SetDone(r)
             \/ Kind[r] # "writeback" /\ DeliverTo(SubOf[r], r)
      PROVE  \E new \in [Requests -> Places] : Located(new)' /\ CreditStep(place, new)
  <2>1. m_dram_latency_queue \in Seq(Requests)
    BY DEF TypeOK
  <2>2. DramHolds(place) /\ NoneOvertakes(place)
    BY DEF Located
  <2>3. Holds(m_dram_latency_queue, At(place, 4), RowOrder) /\ 10 \in Places
    BY <2>2 DEF DramHolds, Places
  <2>4. r \in At(place, 4) /\ Holds(m_dram_latency_queue', At(place, 4) \ {r}, RowOrder)
    BY <1>4, <2>1, <2>3, HoldsTail
  <2>5. place[r] = 4
    BY <2>4 DEF At
  <2>6. ASSUME NEW p \in {10, 12} PROVE DramHolds(Move(place, r, p))'
    <3> DEFINE new == Move(place, r, p)
    <3>1. new[r] = p /\ \A x \in Requests : x # r => new[x] = place[x]
      BY DEF Move
    <3> HIDE DEF new
    <3>2. At(new, 4) = At(place, 4) \ {r}
      BY <2>5, <3>1 DEF At
    <3>3. \A k \in {5, 6, 7, 8, 9} : At(new, k) = At(place, k)
      BY <2>5, <3>1 DEF At
    <3>4. BanksHold(new)'
      BY <1>1, <2>2, <3>3 DEF BanksHold, DramHolds
    <3>5. \A x \in Requests : new[x] \notin 5..9
      BY <1>1, <2>2, <3>1 DEF DramHolds
    <3>6. DramHolds(new)'
      BY <1>1, <1>2, <2>2, <2>4, <3>2, <3>3, <3>4, <3>5 DEF DramHolds, config
    <3> QED BY <3>6 DEF new
  <2>7. CASE Kind[r] = "writeback" /\ SetDone(r)
    BY <1>1, <2>5, <2>6, <2>7, Done
  <2>8. CASE Kind[r] # "writeback" /\ DeliverTo(SubOf[r], r)
    <3>1. \A x \in Requests : 4 <= place[x] => x \in At(place, 4) \/ 10 <= place[x]
      BY <1>1, <2>2 DEF At, Places, DramHolds
    <3>2. Passable(place, r, 10)
      BY <1>4, <2>1, <2>2, <2>3, <2>5, <3>1, FrontPasses
    <3> QED BY <1>1, <2>5, <2>6, <2>8, <3>2, Delivered
  <2> QED BY <1>4, <2>7, <2>8
<1>5. CASE ~UNCHANGED <<m_dram_latency_queue, traffic, queues, credits>>
  <2>1. m_dram_latency_queue # <<>> /\ m_dram_latency_queue \in Seq(Requests)
    BY <1>5 DEF SimpleReturn, TypeOK
  <2> PICK r \in Requests : r = Head(m_dram_latency_queue)
    BY <2>1
  <2>2. /\ m_dram_latency_queue' = Tail(m_dram_latency_queue)
        /\ \/ Kind[r] = "writeback" /\ SetDone(r)
           \/ Kind[r] # "writeback" /\ DeliverTo(SubOf[r], r)
    BY <1>5 DEF SimpleReturn
  <2> QED BY <1>4, <2>1, <2>2
<1> QED BY <1>3, <1>5

-----------------------------------------------------------------------------
(* The arbiter and the interconnect.                                        *)

LEMMA ChosenSound ==
    ASSUME TypeOK, NEW s \in Chosen
    PROVE  s \in SubPartitions /\ m_L2_dram_queue[s] # <<>> /\ HasCredits(s)
<1>1. PICK p \in SubPartitions : s = InTurn(p) /\ Candidate(InTurn(p))
  BY DEF Chosen
<1>2. p \in Nat /\ m_last_borrower \in Nat /\ NSub \in Nat /\ NSub > 0
  BY MemoryPartitionAssumption DEF TypeOK, SubPartitions
<1>3. (p + m_last_borrower + 1) % NSub \in 0..(NSub - 1)
  BY <1>2
<1> QED BY <1>1, <1>3 DEF InTurn, SubPartitions, Candidate, CanIssueToDram

\* The front of a queue of a sub-partition may move to the next place.
LEMMA SubFrontPasses ==
    ASSUME NEW place \in [Requests -> Places], NoneOvertakes(place), NEW s \in SubPartitions,
           NEW k \in 0..11, NEW q \in Seq(Requests), q # <<>>, Holds(q, AtSub(place, k, s), RowOrder)
    PROVE  Head(q) \in AtSub(place, k, s) /\ Passable(place, Head(q), k + 1)
<1>1. Head(q) \in AtSub(place, k, s)
  BY HoldsTail
<1>2. place[Head(q)] = k /\ SubOf[Head(q)] = s /\ k + 1 \in Places
  BY <1>1 DEF AtSub, Places
<1>3. ASSUME NEW x \in Requests, <<x, Head(q)>> \in RowOrder, place[Head(q)] <= place[x]
      PROVE  x \in AtSub(place, k, s) \/ k + 1 <= place[x]
  <2>1. SubOf[x] = s /\ place[x] \in 0..12 /\ k <= place[x]
    BY <1>2, <1>3, OrderedPair DEF Places
  <2> QED BY <2>1 DEF AtSub
<1>4. Passable(place, Head(q), k + 1)
  BY <1>2, <1>3, FrontPasses
<1> QED BY <1>1, <1>4

LEMMA MoveArbitrate ==
    ASSUME TypeOK, NEW place \in [Requests -> Places], Located(place), Arbitrate
    PROVE  \E new \in [Requests -> Places] : Located(new)' /\ CreditStep(place, new)
<1>1. /\ UNCHANGED <<config, traffic, m_rop, m_icnt_L2_queue, m_dram_L2_queue, m_L2_icnt_queue>>
      /\ UNCHANGED <<mrqq, m_queue, mrq, rwq, returnq>>
  BY DEF Arbitrate, dram, scheduler
<1>2. RowOrder' = RowOrder /\ \A x : QueueOf(x)' = QueueOf(x)
  BY <1>1, OrderStays
<1>3. CASE UNCHANGED <<m_L2_dram_queue, m_dram_latency_queue, credits>>
  <2>1. Located(place)'
    BY <1>1, <1>3, NothingMoves DEF queues
  <2> QED BY <1>3, <2>1 DEF CreditStep
<1>4. ASSUME NEW s \in Chosen,
             m_L2_dram_queue' = [m_L2_dram_queue EXCEPT ![s] = Tail(@)],
             m_dram_latency_queue' = Append(m_dram_latency_queue, Head(m_L2_dram_queue[s])),
             BorrowCredit(s)
      PROVE  \E new \in [Requests -> Places] : Located(new)' /\ CreditStep(place, new)
  <2>1. s \in SubPartitions /\ m_L2_dram_queue[s] # <<>> /\ HasCredits(s)
    BY ChosenSound
  <2>2. /\ m_L2_dram_queue \in [SubPartitions -> Seq(Requests)] /\ m_L2_dram_queue[s] \in Seq(Requests)
        /\ m_dram_latency_queue \in Seq(Requests)
    BY <2>1 DEF TypeOK
  <2> PICK r \in Requests : r = Head(m_L2_dram_queue[s])
    BY <2>1, <2>2
  <2> DEFINE new == Move(place, r, 4)
  <2>3. DramHolds(place) /\ NoneOvertakes(place) /\ SubHolds(place, s)
    BY <2>1 DEF Located
  <2>4. Holds(m_L2_dram_queue[s], AtSub(place, 3, s), RowOrder) /\ 3 \in 0..11 /\ 3 + 1 = 4
    BY <2>3 DEF SubHolds
  <2>5. r \in AtSub(place, 3, s) /\ Holds(Tail(m_L2_dram_queue[s]), AtSub(place, 3, s) \ {r}, RowOrder)
    BY <2>1, <2>2, <2>4, HoldsTail
  <2>6. place[r] = 3 /\ SubOf[r] = s
    BY <2>5 DEF AtSub
  <2>7. Passable(place, r, 4)
    BY <2>1, <2>2, <2>3, <2>4, SubFrontPasses
  <2>8. /\ m_L2_dram_queue'[s] = Tail(m_L2_dram_queue[s])
        /\ \A x \in SubPartitions : x # s => m_L2_dram_queue'[x] = m_L2_dram_queue[x]
    BY <1>4, <2>1, <2>2
  <2>9. Holds(m_dram_latency_queue', At(place, 4) \cup {r}, RowOrder)
    <3>1. /\ Holds(m_dram_latency_queue, At(place, 4), RowOrder)
          /\ \A x \in At(place, 4) : x \in Requests /\ place[x] = 4
      BY <2>3 DEF DramHolds, At
    <3> QED BY <1>4, <2>2, <2>3, <2>7, <3>1, JoinsBehind
  <2>10. new[r] = 4 /\ \A x \in Requests : x # r => new[x] = place[x]
    BY DEF Move
  <2> HIDE DEF new
  <2>11. At(new, 4) = At(place, 4) \cup {r}
    BY <2>10 DEF At
  <2>12. \A k \in {5, 6, 7, 8, 9} : At(new, k) = At(place, k)
    BY <2>6, <2>10 DEF At
  <2>13. BanksHold(new)'
    BY <1>1, <2>3, <2>12 DEF BanksHold, DramHolds
  <2>14. simple_dram_model' => \A x \in Requests : new[x] \notin 5..9
    BY <1>1, <2>3, <2>10 DEF DramHolds, config
  <2>15. DramHolds(new)'
    BY <1>1, <1>2, <2>3, <2>9, <2>11, <2>12, <2>13, <2>14 DEF DramHolds
  <2>16. AtSub(new, 3, s) = AtSub(place, 3, s) \ {r}
    BY <2>10 DEF AtSub
  <2>17. \A k \in {1, 2, 10, 11} : AtSub(new, k, s) = AtSub(place, k, s)
    BY <2>6, <2>10 DEF AtSub
  <2>18. {x \in Requests : new[x] \in 1..11 /\ SubOf[x] = s}
           = {x \in Requests : place[x] \in 1..11 /\ SubOf[x] = s}
    BY <2>6, <2>10
  <2>19. SubHolds(new, s)'
    BY <1>1, <1>2, <2>3, <2>5, <2>8, <2>16, <2>17, <2>18 DEF SubHolds, traffic
  <2>20. \A x \in SubPartitions : x # s => SubUnchanged(x)
    BY <1>1, <2>8 DEF SubUnchanged, traffic
  <2>21. new \in [Requests -> Places] /\ Located(new)'
    BY <1>1, <2>6, <2>7, <2>15, <2>19, <2>20, PlaceMove DEF new, traffic
  <2>22. r \in Requests \ InChannel(place) /\ InChannel(new) = InChannel(place) \cup {r}
    BY <2>6, <2>10 DEF InChannel
  <2>23. CreditStep(place, new)
    BY <1>4, <2>1, <2>6, <2>22 DEF CreditStep
  <2> QED BY <2>21, <2>23
<1> QED BY <1>3, <1>4 DEF Arbitrate

LEMMA MoveIcnt ==
    ASSUME TypeOK, NEW place \in [Requests -> Places], Located(place),
           NEW s \in SubPartitions, IcntCycle(s)
    PROVE  \E new \in [Requests -> Places] : Located(new)' /\ CreditStep(place, new)
<1>1. /\ UNCHANGED <<config, sent, m_rop, m_icnt_L2_queue, m_L2_dram_queue, m_dram_L2_queue, credits>>
      /\ UNCHANGED <<m_dram_latency_queue, mrqq, m_queue, mrq, rwq, returnq>>
      /\ m_L2_icnt_queue[s] # <<>>
  BY DEF IcntCycle, dram, scheduler
<1>2. /\ m_L2_icnt_queue \in [SubPartitions -> Seq(Requests)] /\ m_L2_icnt_queue[s] \in Seq(Requests)
      /\ m_request_tracker \in [SubPartitions -> SUBSET Requests]
  BY DEF TypeOK
<1> PICK r \in Requests : r = Head(m_L2_icnt_queue[s])
  BY <1>1, <1>2
<1> DEFINE new == Move(place, r, 12)
<1>3. DramHolds(place) /\ NoneOvertakes(place) /\ SubHolds(place, s)
  BY DEF Located
<1>4. Holds(m_L2_icnt_queue[s], AtSub(place, 11, s), RowOrder) /\ 11 \in 0..11 /\ 11 + 1 = 12
  BY <1>3 DEF SubHolds
<1>5. r \in AtSub(place, 11, s) /\ Holds(Tail(m_L2_icnt_queue[s]), AtSub(place, 11, s) \ {r}, RowOrder)
  BY <1>1, <1>2, <1>4, HoldsTail
<1>6. place[r] = 11 /\ SubOf[r] = s
  BY <1>5 DEF AtSub
<1>7. Passable(place, r, 12)
  BY <1>1, <1>2, <1>3, <1>4, SubFrontPasses
<1>8. /\ m_L2_icnt_queue'[s] = Tail(m_L2_icnt_queue[s])
      /\ m_request_tracker'[s] = m_request_tracker[s] \ {r}
      /\ answered' = answered \cup {r}
  BY <1>2 DEF IcntCycle
<1>9. \A x \in SubPartitions : x # s => /\ m_L2_icnt_queue'[x] = m_L2_icnt_queue[x]
                                        /\ m_request_tracker'[x] = m_request_tracker[x]
  BY <1>2 DEF IcntCycle
<1>10. new[r] = 12 /\ \A x \in Requests : x # r => new[x] = place[x]
  BY DEF Move
<1> HIDE DEF new
<1>11. DramHolds(new)'
  BY <1>1, <1>3, <1>6, <1>10, DramFrame
<1>12. AtSub(new, 11, s) = AtSub(place, 11, s) \ {r}
  BY <1>10 DEF AtSub
<1>13. \A k \in {1, 2, 3, 10} : AtSub(new, k, s) = AtSub(place, k, s)
  BY <1>6, <1>10 DEF AtSub
<1>14. {x \in Requests : new[x] \in 1..11 /\ SubOf[x] = s}
         = {x \in Requests : place[x] \in 1..11 /\ SubOf[x] = s} \ {r}
  BY <1>10
<1>15. RowOrder' = RowOrder
  BY <1>1, OrderStays
<1>16. SubHolds(new, s)'
  BY <1>1, <1>3, <1>5, <1>8, <1>12, <1>13, <1>14, <1>15 DEF SubHolds
<1>17. \A x \in SubPartitions : x # s => SubUnchanged(x)
  BY <1>1, <1>9 DEF SubUnchanged
<1>18. new \in [Requests -> Places] /\ Located(new)'
  BY <1>1, <1>6, <1>7, <1>8, <1>11, <1>16, <1>17, PlaceMove DEF new
<1>19. InChannel(new) = InChannel(place)
  BY <1>6, <1>10 DEF InChannel
<1> QED BY <1>1, <1>18, <1>19 DEF CreditStep

\* A queue of a sub-partition and the next, when at most one request has moved.
Passed(place, new, k, s, q, t) ==
    /\ NoneOvertakes(new)
    /\ Holds(q, AtSub(new, k, s), RowOrder) /\ Holds(t, AtSub(new, k + 1, s), RowOrder)
    /\ \A x \in Requests : \/ new[x] = place[x]
                           \/ place[x] = k /\ new[x] = k + 1 /\ SubOf[x] = s

\* A request leaves the front of a queue, or none, and joins the next.
LEMMA QueueStep ==
    ASSUME NEW place \in [Requests -> Places], NoneOvertakes(place), NEW s \in SubPartitions,
           NEW k \in 0..11, NEW q \in Seq(Requests), Holds(q, AtSub(place, k, s), RowOrder),
           NEW t \in Seq(Requests), Holds(t, AtSub(place, k + 1, s), RowOrder),
           NEW out, out = <<>> \/ (q # <<>> /\ out = <<Head(q)>>)
    PROVE  /\ Rest(q, out) \in Seq(Requests) /\ t \o out \in Seq(Requests)
           /\ \E new \in [Requests -> Places] : Passed(place, new, k, s, Rest(q, out), t \o out)
<1>1. CASE out = <<>>
  <2>1. SubSeq(q, 1, Len(q)) = q /\ t \o <<>> = t
    OBVIOUS
  <2>2. Rest(q, out) = q /\ t \o out = t
    BY <1>1, <2>1 DEF Rest
  <2> QED BY <2>2 DEF Passed
<1>2. CASE q # <<>> /\ out = <<Head(q)>>
  <2> PICK r \in Requests : r = Head(q)
    BY <1>2
  <2> DEFINE new == Move(place, r, k + 1)
  <2>1. Rest(q, out) = Tail(q) /\ Tail(q) \in Seq(Requests)
    <3>1. Tail(q) = SubSeq(q, 2, Len(q)) /\ Len(<<r>>) + 1 = 2
      BY <1>2
    <3> QED BY <1>2, <3>1 DEF Rest
  <2>2. t \o out = Append(t, r) /\ Append(t, r) \in Seq(Requests)
    BY <1>2
  <2>3. r \in AtSub(place, k, s) /\ Passable(place, r, k + 1)
    BY <1>2, SubFrontPasses
  <2>4. place[r] = k /\ SubOf[r] = s /\ k + 1 \in Places /\ k < k + 1
    BY <2>3 DEF AtSub, Places
  <2>5. new \in [Requests -> Places] /\ NoneOvertakes(new)
    BY <2>3, <2>4, MoveOrder DEF Passable
  <2>6. new[r] = k + 1 /\ \A x \in Requests : x # r => new[x] = place[x]
    BY DEF Move
  <2> HIDE DEF new
  <2>7. Holds(Tail(q), AtSub(place, k, s) \ {r}, RowOrder)
    BY <1>2, HoldsTail
  <2>8. Holds(Append(t, r), AtSub(place, k + 1, s) \cup {r}, RowOrder)
    <3>1. \A x \in AtSub(place, k + 1, s) : x \in Requests /\ place[x] = k + 1
      BY DEF AtSub
    <3> QED BY <2>3, <3>1, JoinsBehind
  <2>9. AtSub(new, k, s) = AtSub(place, k, s) \ {r}
    BY <2>4, <2>6 DEF AtSub
  <2>10. AtSub(new, k + 1, s) = AtSub(place, k + 1, s) \cup {r}
    BY <2>4, <2>6 DEF AtSub
  <2>11. Passed(place, new, k, s, Tail(q), Append(t, r))
    BY <2>4, <2>5, <2>6, <2>7, <2>8, <2>9, <2>10 DEF Passed
  <2> QED BY <2>1, <2>2, <2>5, <2>11
<1> QED BY <1>1, <1>2

\* The first two queues of a sub-partition when a request has come.
Arrived(place, new, s, come, rop, icnt) ==
    /\ NoneOvertakes(new)
    /\ Holds(rop, AtSub(new, 1, s), RowOrder) /\ Holds(icnt, AtSub(new, 2, s), RowOrder)
    /\ \A x \in Requests : IF x \in SetOf(come) THEN new[x] \in 1..2 ELSE new[x] = place[x]

\* A request comes from its core, to m_rop or, a texture, past it.
LEMMA CoreSends ==
    ASSUME TypeOK, NEW place \in [Requests -> Places], Located(place), NEW s \in SubPartitions,
           NEW come \in {<<>>} \cup {<<r>> : r \in NextFrom(s)},
           NEW past \in BOOLEAN, past <=> come # <<>> /\ Kind[Head(come)] = "texture",
           NEW rop, rop = m_rop[s] \o (IF past THEN <<>> ELSE come),
           NEW icnt, icnt = m_icnt_L2_queue[s] \o (IF past THEN come ELSE <<>>)
    PROVE  /\ rop \in Seq(Requests) /\ icnt \in Seq(Requests)
           /\ \A x \in SetOf(come) : x \in Requests /\ place[x] = 0 /\ SubOf[x] = s
           /\ \E new \in [Requests -> Places] : Arrived(place, new, s, come, rop, icnt)
<1>1. /\ m_rop[s] \in Seq(Requests) /\ m_icnt_L2_queue[s] \in Seq(Requests)
      /\ SubHolds(place, s) /\ NoneOvertakes(place)
  BY DEF TypeOK, Located
<1>2. /\ Holds(m_rop[s], AtSub(place, 1, s), RowOrder)
      /\ Holds(m_icnt_L2_queue[s], AtSub(place, 2, s), RowOrder)
  BY <1>1 DEF SubHolds
<1>3. CASE come = <<>>
  <2>1. rop = m_rop[s] /\ icnt = m_icnt_L2_queue[s] /\ SetOf(come) = {}
    BY <1>1, <1>3 DEF SetOf
  <2> QED BY <1>1, <1>2, <2>1 DEF Arrived
<1>4. CASE come # <<>>
  <2> PICK r \in NextFrom(s) : come = <<r>>
    BY <1>4
  <2>1. r \in Requests /\ place[r] = 0 /\ SubOf[r] = s
    BY DEF NextFrom, Located
  <2>2. \A x \in Requests : <<x, r>> \in RowOrder => 1 <= place[x]
    <3> SUFFICES ASSUME NEW x \in Requests, <<x, r>> \in RowOrder PROVE 1 <= place[x]
      OBVIOUS
    <3>1. SubOf[x] = s /\ x < r /\ x \in Int /\ r \in Int /\ place[x] \in 0..12
      BY <2>1, OrderedPair DEF Requests, Places
    <3>2. x \in sent
      BY <3>1 DEF NextFrom
    <3> QED BY <3>1, <3>2 DEF Located
  <2>3. come # <<>> /\ Head(come) = r /\ SetOf(come) = {r}
    BY DEF SetOf
  <2>4. CASE Kind[r] = "texture"
    <3> DEFINE new == Move(place, r, 2)
    <3>1. Passable(place, r, 2)
      BY <2>1, <2>4, OrderedPair DEF Passable, Places
    <3>2. new \in [Requests -> Places] /\ NoneOvertakes(new)
      BY <1>1, <3>1, MoveOrder DEF Passable
    <3>3. new[r] = 2 /\ \A x \in Requests : x # r => new[x] = place[x]
      BY <2>1 DEF Move
    <3> HIDE DEF new
    <3>4. rop = m_rop[s] /\ icnt = Append(m_icnt_L2_queue[s], r) /\ icnt \in Seq(Requests)
      <4>1. past
        BY <2>3, <2>4
      <4>2. m_rop[s] \o <<>> = m_rop[s]
        BY <1>1
      <4>3. /\ m_icnt_L2_queue[s] \o <<r>> = Append(m_icnt_L2_queue[s], r)
            /\ Append(m_icnt_L2_queue[s], r) \in Seq(Requests)
        BY <1>1, <2>1
      <4> QED BY <4>1, <4>2, <4>3
    <3>5. Holds(Append(m_icnt_L2_queue[s], r), AtSub(place, 2, s) \cup {r}, RowOrder)
      <4>1. \A x \in AtSub(place, 2, s) : x \in Requests /\ place[x] = 2
        BY DEF AtSub
      <4> QED BY <1>1, <1>2, <3>1, <4>1, JoinsBehind
    <3>6. AtSub(new, 1, s) = AtSub(place, 1, s) /\ AtSub(new, 2, s) = AtSub(place, 2, s) \cup {r}
      BY <2>1, <3>3 DEF AtSub
    <3>7. Holds(rop, AtSub(new, 1, s), RowOrder) /\ Holds(icnt, AtSub(new, 2, s), RowOrder)
      BY <1>2, <3>4, <3>5, <3>6
    <3>8. \A x \in Requests : IF x \in SetOf(come) THEN new[x] \in 1..2 ELSE new[x] = place[x]
      BY <2>3, <3>3
    <3>9. rop \in Seq(Requests) /\ icnt \in Seq(Requests)
      BY <1>1, <3>4
    <3>10. Arrived(place, new, s, come, rop, icnt)
      BY <3>2, <3>7, <3>8 DEF Arrived
    <3> QED BY <2>1, <2>3, <3>2, <3>9, <3>10
  <2>5. CASE Kind[r] # "texture"
    <3> DEFINE new == Move(place, r, 1)
    <3>1. Passable(place, r, 1)
      BY <2>1, <2>2 DEF Passable, Places
    <3>2. new \in [Requests -> Places] /\ NoneOvertakes(new)
      BY <1>1, <3>1, MoveOrder DEF Passable
    <3>3. new[r] = 1 /\ \A x \in Requests : x # r => new[x] = place[x]
      BY <2>1 DEF Move
    <3> HIDE DEF new
    <3>4. icnt = m_icnt_L2_queue[s] /\ rop = Append(m_rop[s], r) /\ rop \in Seq(Requests)
      <4>1. ~past
        BY <2>3, <2>5
      <4>2. m_icnt_L2_queue[s] \o <<>> = m_icnt_L2_queue[s]
        BY <1>1
      <4>3. m_rop[s] \o <<r>> = Append(m_rop[s], r) /\ Append(m_rop[s], r) \in Seq(Requests)
        BY <1>1, <2>1
      <4> QED BY <4>1, <4>2, <4>3
    <3>5. Holds(Append(m_rop[s], r), AtSub(place, 1, s) \cup {r}, RowOrder)
      <4>1. \A x \in AtSub(place, 1, s) : x \in Requests /\ place[x] = 1
        BY DEF AtSub
      <4> QED BY <1>1, <1>2, <3>1, <4>1, JoinsBehind
    <3>6. AtSub(new, 2, s) = AtSub(place, 2, s) /\ AtSub(new, 1, s) = AtSub(place, 1, s) \cup {r}
      BY <2>1, <3>3 DEF AtSub
    <3>7. Holds(rop, AtSub(new, 1, s), RowOrder) /\ Holds(icnt, AtSub(new, 2, s), RowOrder)
      BY <1>2, <3>4, <3>5, <3>6
    <3>8. \A x \in Requests : IF x \in SetOf(come) THEN new[x] \in 1..2 ELSE new[x] = place[x]
      BY <2>3, <3>3
    <3>9. rop \in Seq(Requests) /\ icnt \in Seq(Requests)
      BY <1>1, <3>4
    <3>10. Arrived(place, new, s, come, rop, icnt)
      BY <3>2, <3>7, <3>8 DEF Arrived
    <3> QED BY <2>1, <2>3, <3>2, <3>9, <3>10
  <2> QED BY <2>4, <2>5
<1> QED BY <1>3, <1>4

LEMMA MoveL2 ==
    ASSUME TypeOK, NEW place \in [Requests -> Places], Located(place), NEW s \in SubPartitions, L2Cycle(s)
    PROVE  \E new \in [Requests -> Places] : Located(new)' /\ CreditStep(place, new)
<1>0. PICK come \in {<<>>} \cup {<<r>> : r \in NextFrom(s)}, ready \in BOOLEAN :
          LET past  == come # <<>> /\ Kind[Head(come)] = "texture"
              rop   == m_rop[s] \o (IF past THEN <<>> ELSE come)
              icnt  == m_icnt_L2_queue[s] \o (IF past THEN come ELSE <<>>)
              reply == Leaves(m_dram_L2_queue[s], Len(m_L2_icnt_queue[s]) < L2IcntSize)
              down  == Leaves(icnt, Len(m_L2_dram_queue[s]) < L2DramSize)
              left  == Rest(icnt, down)
              enter == Leaves(rop, ready /\ Len(left) < IcntL2Size)
          IN  /\ sent' = sent \cup SetOf(come)
              /\ m_request_tracker' = [m_request_tracker EXCEPT ![s] = @ \cup SetOf(come)]
              /\ m_rop' = [m_rop EXCEPT ![s] = Rest(rop, enter)]
              /\ m_icnt_L2_queue' = [m_icnt_L2_queue EXCEPT ![s] = left \o enter]
              /\ m_L2_dram_queue' = [m_L2_dram_queue EXCEPT ![s] = @ \o down]
              /\ m_dram_L2_queue' = [m_dram_L2_queue EXCEPT ![s] = Rest(@, reply)]
              /\ m_L2_icnt_queue' = [m_L2_icnt_queue EXCEPT ![s] = @ \o reply]
  BY DEF L2Cycle
<1> DEFINE past  == come # <<>> /\ Kind[Head(come)] = "texture"
           rop   == m_rop[s] \o (IF past THEN <<>> ELSE come)
           icnt  == m_icnt_L2_queue[s] \o (IF past THEN come ELSE <<>>)
           reply == Leaves(m_dram_L2_queue[s], Len(m_L2_icnt_queue[s]) < L2IcntSize)
           down  == Leaves(icnt, Len(m_L2_dram_queue[s]) < L2DramSize)
           left  == Rest(icnt, down)
           enter == Leaves(rop, ready /\ Len(left) < IcntL2Size)
<1>1. /\ m_rop \in [SubPartitions -> Seq(Requests)] /\ m_icnt_L2_queue \in [SubPartitions -> Seq(Requests)]
      /\ m_L2_dram_queue \in [SubPartitions -> Seq(Requests)]
      /\ m_dram_L2_queue \in [SubPartitions -> Seq(Requests)]
      /\ m_L2_icnt_queue \in [SubPartitions -> Seq(Requests)]
      /\ m_request_tracker \in [SubPartitions -> SUBSET Requests]
  BY DEF TypeOK
<1>2. UNCHANGED <<config, answered, credits, m_dram_latency_queue, mrqq, m_queue, mrq, rwq, returnq>>
  BY DEF L2Cycle, dram, scheduler
<1>3. /\ sent' = sent \cup SetOf(come)
      /\ m_request_tracker'[s] = m_request_tracker[s] \cup SetOf(come)
      /\ m_rop'[s] = Rest(rop, enter) /\ m_icnt_L2_queue'[s] = left \o enter
      /\ m_L2_dram_queue'[s] = m_L2_dram_queue[s] \o down
      /\ m_dram_L2_queue'[s] = Rest(m_dram_L2_queue[s], reply)
      /\ m_L2_icnt_queue'[s] = m_L2_icnt_queue[s] \o reply
  BY <1>0, <1>1
<1>4. \A x \in SubPartitions : x # s => SubUnchanged(x)
  BY <1>0, <1>1 DEF SubUnchanged
<1>5. /\ SubHolds(place, s) /\ NoneOvertakes(place) /\ DramHolds(place)
      /\ sent = {r \in Requests : place[r] # 0} /\ answered = At(place, 12)
  BY DEF Located
<1>6. /\ m_dram_L2_queue[s] \in Seq(Requests) /\ m_L2_icnt_queue[s] \in Seq(Requests)
      /\ m_L2_dram_queue[s] \in Seq(Requests)
      /\ Holds(m_dram_L2_queue[s], AtSub(place, 10, s), RowOrder)
      /\ Holds(m_L2_icnt_queue[s], AtSub(place, 11, s), RowOrder)
      /\ Holds(m_L2_dram_queue[s], AtSub(place, 3, s), RowOrder)
  BY <1>1, <1>5 DEF SubHolds
<1>7. /\ rop \in Seq(Requests) /\ icnt \in Seq(Requests)
      /\ \A x \in SetOf(come) : x \in Requests /\ place[x] = 0 /\ SubOf[x] = s
      /\ \E new \in [Requests -> Places] : Arrived(place, new, s, come, rop, icnt)
  <2>1. past \in BOOLEAN
    OBVIOUS
  <2> QED BY <2>1, CoreSends, ZenonT(60)
<1>8. /\ reply = <<>> \/ (m_dram_L2_queue[s] # <<>> /\ reply = <<Head(m_dram_L2_queue[s])>>)
      /\ down = <<>> \/ (icnt # <<>> /\ down = <<Head(icnt)>>)
      /\ enter = <<>> \/ (rop # <<>> /\ enter = <<Head(rop)>>)
  BY DEF Leaves
<1> HIDE DEF past, rop, icnt, reply, down, enter
<1>9. PICK p1 \in [Requests -> Places] : Arrived(place, p1, s, come, rop, icnt)
  BY <1>7
\* One reply up.
<1>10. PICK p2 \in [Requests -> Places] :
            Passed(p1, p2, 10, s, Rest(m_dram_L2_queue[s], reply), m_L2_icnt_queue[s] \o reply)
  <2>1. AtSub(p1, 10, s) = AtSub(place, 10, s) /\ AtSub(p1, 10 + 1, s) = AtSub(place, 11, s)
    BY <1>7, <1>9 DEF AtSub, Arrived
  <2>2. 10 \in 0..11
    OBVIOUS
  <2> QED BY <1>6, <1>8, <1>9, <2>1, <2>2, QueueStep DEF Arrived
<1>11. \A x \in Requests : p2[x] = p1[x] \/ (p1[x] = 10 /\ p2[x] = 11 /\ SubOf[x] = s)
  BY <1>10 DEF Passed
\* One request down.
<1>12. left \in Seq(Requests) /\ \E new \in [Requests -> Places] :
            Passed(p2, new, 2, s, left, m_L2_dram_queue[s] \o down)
  <2>1. AtSub(p2, 2, s) = AtSub(p1, 2, s)
    BY <1>11 DEF AtSub
  <2>2. AtSub(p2, 2 + 1, s) = AtSub(p1, 3, s)
    BY <1>11 DEF AtSub
  <2>3. AtSub(p1, 3, s) = AtSub(place, 3, s)
    BY <1>7, <1>9 DEF AtSub, Arrived
  <2>4. 2 \in 0..11 /\ NoneOvertakes(p2)
    BY <1>10 DEF Passed
  <2> QED BY <1>6, <1>7, <1>8, <1>9, <2>1, <2>2, <2>3, <2>4, QueueStep DEF Arrived
<1> HIDE DEF left
<1>13. PICK p3 \in [Requests -> Places] : Passed(p2, p3, 2, s, left, m_L2_dram_queue[s] \o down)
  BY <1>12
<1>14. \A x \in Requests : p3[x] = p2[x] \/ (p2[x] = 2 /\ p3[x] = 3 /\ SubOf[x] = s)
  BY <1>13 DEF Passed
\* One request out of m_rop.
<1>15. PICK new \in [Requests -> Places] : Passed(p3, new, 1, s, Rest(rop, enter), left \o enter)
  <2>1. AtSub(p3, 1, s) = AtSub(p1, 1, s)
    BY <1>11, <1>14 DEF AtSub
  <2>2. AtSub(p3, 1 + 1, s) = AtSub(p3, 2, s)
    BY DEF AtSub
  <2>3. 1 \in 0..11 /\ NoneOvertakes(p3) /\ Holds(left, AtSub(p3, 2, s), RowOrder)
    BY <1>13 DEF Passed
  <2> QED BY <1>7, <1>8, <1>9, <1>12, <2>1, <2>2, <2>3, QueueStep DEF Arrived
<1>16. \A x \in Requests : new[x] = p3[x] \/ (p3[x] = 1 /\ new[x] = 2 /\ SubOf[x] = s)
  BY <1>15 DEF Passed
<1>17. /\ NoneOvertakes(new)
       /\ Holds(Rest(rop, enter), AtSub(new, 1, s), RowOrder)
       /\ Holds(left \o enter, AtSub(new, 2, s), RowOrder)
       /\ Holds(m_L2_dram_queue[s] \o down, AtSub(new, 3, s), RowOrder)
       /\ Holds(Rest(m_dram_L2_queue[s], reply), AtSub(new, 10, s), RowOrder)
       /\ Holds(m_L2_icnt_queue[s] \o reply, AtSub(new, 11, s), RowOrder)
  <2>1. AtSub(new, 1 + 1, s) = AtSub(new, 2, s)
    BY DEF AtSub
  <2>2. AtSub(p3, 2 + 1, s) = AtSub(new, 3, s)
    BY <1>16 DEF AtSub
  <2>3. AtSub(p2, 10, s) = AtSub(new, 10, s)
    BY <1>14, <1>16 DEF AtSub
  <2>4. AtSub(p2, 10 + 1, s) = AtSub(new, 11, s)
    BY <1>14, <1>16 DEF AtSub
  <2> QED BY <1>10, <1>13, <1>15, <2>1, <2>2, <2>3, <2>4 DEF Passed
<1>18. \A x \in Requests : \/ new[x] = place[x] /\ x \notin SetOf(come)
                           \/ /\ place[x] \in {0, 1, 2, 10} /\ new[x] \in {1, 2, 3, 11}
                              /\ SubOf[x] = s /\ (place[x] = 0 <=> x \in SetOf(come))
  <2>1. ASSUME NEW x \in Requests
        PROVE  \/ new[x] = place[x] /\ x \notin SetOf(come)
               \/ /\ place[x] \in {0, 1, 2, 10} /\ new[x] \in {1, 2, 3, 11}
                  /\ SubOf[x] = s /\ (place[x] = 0 <=> x \in SetOf(come))
    <3>1. /\ IF x \in SetOf(come) THEN p1[x] \in 1..2 /\ place[x] = 0 /\ SubOf[x] = s
             ELSE p1[x] = place[x]
          /\ p2[x] = p1[x] \/ (p1[x] = 10 /\ p2[x] = 11 /\ SubOf[x] = s)
          /\ p3[x] = p2[x] \/ (p2[x] = 2 /\ p3[x] = 3 /\ SubOf[x] = s)
          /\ new[x] = p3[x] \/ (p3[x] = 1 /\ new[x] = 2 /\ SubOf[x] = s)
      BY <1>7, <1>9, <1>11, <1>14, <1>16 DEF Arrived
    <3> QED BY <3>1
  <2> QED BY <2>1
<1>19. RowOrder' = RowOrder
  BY <1>2, OrderStays
<1>20. SubHolds(new, s)'
  <2>1. {x \in Requests : new[x] \in 1..11 /\ SubOf[x] = s}
          = {x \in Requests : place[x] \in 1..11 /\ SubOf[x] = s} \cup SetOf(come)
    BY <1>7, <1>18
  <2>2. m_request_tracker'[s] = {x \in Requests : new[x] \in 1..11 /\ SubOf[x] = s}
    BY <1>3, <1>5, <2>1 DEF SubHolds
  <2> QED BY <1>3, <1>17, <1>19, <2>2 DEF SubHolds
<1>21. ASSUME NEW t \in SubPartitions PROVE SubHolds(new, t)'
  <2>1. CASE t = s
    BY <1>20, <2>1
  <2>2. CASE t # s
    <3>1. SubHolds(place, t) /\ SubUnchanged(t) /\ \A x \in Requests : SubOf[x] = t => new[x] = place[x]
      BY <1>4, <1>18, <2>2 DEF Located
    <3> QED BY <1>2, <3>1, SubFrame
  <2> QED BY <2>1, <2>2
<1>22. DramHolds(new)'
  <2>1. \A x \in Requests : new[x] = place[x] \/ (new[x] \notin 4..9 /\ place[x] \notin 4..9)
    BY <1>18
  <2> QED BY <1>2, <1>5, <2>1, DramFrame
<1>23. sent' = {x \in Requests : new[x] # 0}
  <2>1. ASSUME NEW x \in Requests PROVE new[x] # 0 <=> (place[x] # 0 \/ x \in SetOf(come))
    <3>1. CASE new[x] = place[x] /\ x \notin SetOf(come)
      BY <3>1
    <3>2. CASE new[x] \in {1, 2, 3, 11} /\ (place[x] = 0 <=> x \in SetOf(come))
      BY <3>2
    <3> QED BY <1>18, <3>1, <3>2
  <2> QED BY <1>3, <1>5, <1>7, <2>1
<1>24. answered' = At(new, 12)
  BY <1>2, <1>5, <1>18 DEF At
<1>25. NoneOvertakes(new)'
  BY <1>17, <1>19 DEF NoneOvertakes
<1>26. Located(new)'
  BY <1>21, <1>22, <1>23, <1>24, <1>25 DEF Located
<1>27. InChannel(new) = InChannel(place)
  <2>1. \A x \in Requests : new[x] \in 4..9 <=> place[x] \in 4..9
    BY <1>18
  <2> QED BY <2>1 DEF InChannel
<1> QED BY <1>2, <1>26, <1>27 DEF CreditStep

-----------------------------------------------------------------------------
(* Credits.                                                                 *)

\* The requests that hold a credit are those in the channel.
LEMMA InDramIsInChannel ==
    \A place \in [Requests -> Places] : DramHolds(place) => InDram = InChannel(place)
<1> SUFFICES ASSUME NEW place \in [Requests -> Places], DramHolds(place)
             PROVE  InDram = InChannel(place)
  OBVIOUS
<1>1. /\ SetOf(m_dram_latency_queue) = At(place, 4) /\ SetOf(mrqq) = At(place, 5)
      /\ SetOf(rwq) = At(place, 8) /\ SetOf(returnq) = At(place, 9)
  BY DEF DramHolds, Holds
<1>2. SetOf(m_queue["read"]) \cup SetOf(m_queue["write"]) = At(place, 6)
  <2>1. \A m \in Modes : SetOf(m_queue[m]) = {r \in At(place, 6) : QueueOf(r) = m}
    BY DEF DramHolds, Holds
  <2>2. \A r : QueueOf(r) = "read" \/ QueueOf(r) = "write"
    BY DEF QueueOf
  <2>3. "read" \in Modes /\ "write" \in Modes
    BY DEF Modes
  <2> QED BY <2>1, <2>2, <2>3
<1>3. {mrq[b] : b \in Banks} \ {None} = At(place, 7)
  <2>1. BanksHold(place)
    BY DEF DramHolds
  <2>2. ASSUME NEW r \in At(place, 7) PROVE r # None /\ \E b \in Banks : mrq[b] = r
    <3>1. r \in Requests /\ mrq[BankOf[r]] = r
      BY <2>1 DEF BanksHold, At
    <3>2. r # None /\ BankOf[r] \in Banks
      BY <3>1, MemoryPartitionAssumption
    <3> QED BY <3>1, <3>2
  <2>3. ASSUME NEW b \in Banks, mrq[b] # None PROVE mrq[b] \in At(place, 7)
    BY <2>1, <2>3 DEF BanksHold
  <2> QED BY <2>2, <2>3
<1>4. InDram = At(place, 4) \cup At(place, 5) \cup At(place, 6) \cup At(place, 7)
               \cup At(place, 8) \cup At(place, 9)
  BY <1>1, <1>2, <1>3 DEF InDram
<1>5. \A r \in Requests : place[r] \in 4..9 <=> place[r] \in {4, 5, 6, 7, 8, 9}
  BY DEF Places
<1> QED BY <1>4, <1>5 DEF At, InChannel

LEMMA InDramIsInChannelNext ==
    (\A place \in [Requests -> Places] : DramHolds(place) => InDram = InChannel(place))'
BY InDramIsInChannel, PTL

Private == {s \in SubPartitions : m_private_credit[s] = 1}

\* Each sub-partition with a private credit has a request in the channel.
LEMMA PrivateFits ==
    ASSUME NEW D \in SUBSET Requests, NEW P \in SUBSET SubPartitions,
           \A s \in P : \E mf \in D : SubOf[mf] = s
    PROVE  /\ IsFiniteSet(P) /\ IsFiniteSet(D)
           /\ Cardinality(P) \in Nat /\ Cardinality(D) \in Nat /\ Cardinality(P) <= Cardinality(D)
<1>1. IsFiniteSet(Requests) /\ IsFiniteSet(SubPartitions)
  <2>1. 1 \in Int /\ NRequests \in Int /\ 0 \in Int /\ NSub - 1 \in Int
    BY MemoryPartitionAssumption
  <2> QED BY <2>1, FS_Interval DEF Requests, SubPartitions
<1>2. IsFiniteSet(P) /\ IsFiniteSet(D)
  BY <1>1, FS_Subset
<1> DEFINE f == [s \in P |-> CHOOSE mf \in D : SubOf[mf] = s]
<1>3. \A s \in P : f[s] \in D /\ SubOf[f[s]] = s
  OBVIOUS
<1>4. f \in [P -> D]
  BY <1>3
<1> HIDE DEF f
<1>5. f \in Injection(P, D)
  BY <1>3, <1>4 DEF Injection, IsInjective
<1> QED BY <1>2, <1>5, FS_Injection, FS_CardinalityType

LEMMA CreditsStep ==
    ASSUME TypeOK, CreditsMatch, UNCHANGED config, NEW place, NEW new, CreditStep(place, new),
           InDram = InChannel(place), InDram' = InChannel(new)
    PROVE  /\ CreditsMatch'
           /\ m_private_credit' \in [SubPartitions -> 0..m_private_credit_limit]
           /\ m_shared_credit' \in Nat /\ m_last_borrower' \in SubPartitions
<1> DEFINE P == Private
           D == InDram
<1>1. /\ m_private_credit \in [SubPartitions -> 0..1] /\ m_shared_credit \in Nat
      /\ m_last_borrower \in SubPartitions /\ m_private_credit_limit = 1
      /\ m_shared_credit_limit' = m_shared_credit_limit
  BY DEF TypeOK, m_private_credit_limit, m_shared_credit_limit, config
<1>2. /\ m_shared_credit + Cardinality(P) = Cardinality(D)
      /\ \A s \in P : \E mf \in D : SubOf[mf] = s
      /\ m_shared_credit_limit # 0 => m_shared_credit <= m_shared_credit_limit
  BY DEF CreditsMatch, Private
<1>3. D \in SUBSET Requests /\ P \in SUBSET SubPartitions
  BY DEF InChannel, Private
<1>4. IsFiniteSet(P) /\ IsFiniteSet(D) /\ Cardinality(P) \in Nat /\ Cardinality(D) \in Nat
  BY <1>2, <1>3, PrivateFits
<1>5. \A s \in SubPartitions : m_private_credit[s] \in {0, 1} /\ (s \in P <=> m_private_credit[s] = 1)
  BY <1>1 DEF Private
<1> HIDE DEF P, D
\* Enough for the conclusion, in terms of the two sets.
<1>6. SUFFICES /\ m_private_credit' \in [SubPartitions -> 0..1] /\ m_shared_credit' \in Nat
               /\ m_last_borrower' \in SubPartitions
               /\ m_shared_credit' + Cardinality(Private') = Cardinality(InDram')
               /\ \A s \in Private' : \E mf \in InDram' : SubOf[mf] = s
               /\ m_shared_credit_limit # 0 => m_shared_credit' <= m_shared_credit_limit
  BY <1>1 DEF CreditsMatch, Private
<1>7. CASE InChannel(new) = InChannel(place) /\ UNCHANGED credits
  <2>1. Private' = P /\ InDram' = D /\ UNCHANGED credits
    BY <1>7 DEF P, D, Private, credits
  <2> QED BY <1>1, <1>2, <2>1 DEF credits
<1>8. ASSUME NEW r \in InChannel(place), InChannel(new) = InChannel(place) \ {r}, ReturnCredit(SubOf[r])
      PROVE  /\ m_private_credit' \in [SubPartitions -> 0..1] /\ m_shared_credit' \in Nat
             /\ m_last_borrower' \in SubPartitions
             /\ m_shared_credit' + Cardinality(Private') = Cardinality(InDram')
             /\ \A s \in Private' : \E mf \in InDram' : SubOf[mf] = s
             /\ m_shared_credit_limit # 0 => m_shared_credit' <= m_shared_credit_limit
  <2> DEFINE s == SubOf[r]
  <2>1. r \in D /\ InDram' = D \ {r} /\ s \in SubPartitions
    BY <1>3, <1>8, MemoryPartitionAssumption DEF D
  <2>2. Cardinality(InDram') = Cardinality(D) - 1 /\ UNCHANGED m_last_borrower
    BY <1>4, <1>8, <2>1, FS_RemoveElement DEF ReturnCredit
  <2> HIDE DEF s
  <2>3. CASE m_private_credit[s] > 0
    <3>1. m_private_credit' = [m_private_credit EXCEPT ![s] = @ - 1] /\ UNCHANGED m_shared_credit
      BY <1>8, <2>3 DEF ReturnCredit, s
    <3>2. m_private_credit[s] = 1 /\ s \in P
      BY <1>5, <2>1, <2>3
    <3>3. /\ m_private_credit'[s] = 0
          /\ \A t \in SubPartitions : t # s => m_private_credit'[t] = m_private_credit[t]
      BY <1>1, <2>1, <3>1, <3>2
    <3>4. m_private_credit' \in [SubPartitions -> 0..1]
      BY <1>1, <2>1, <3>1, <3>2
    <3>5. Private' = P \ {s}
      BY <1>3, <1>5, <3>3 DEF Private
    <3>6. Cardinality(Private') = Cardinality(P) - 1
      BY <1>4, <3>2, <3>5, FS_RemoveElement
    <3>7. \A t \in Private' : \E mf \in InDram' : SubOf[mf] = t
      BY <1>2, <2>1, <3>5 DEF s
    <3> QED BY <1>1, <1>2, <1>4, <2>2, <3>1, <3>4, <3>6, <3>7
  <2>4. CASE ~(m_private_credit[s] > 0)
    <3>1. m_shared_credit' = m_shared_credit - 1 /\ UNCHANGED m_private_credit
      BY <1>8, <2>4 DEF ReturnCredit, s
    <3>2. Private' = P /\ s \notin P
      BY <1>5, <2>1, <2>4, <3>1 DEF P, Private
    <3>3. \A t \in P : \E mf \in D \ {r} : SubOf[mf] = t
      BY <1>2, <3>2 DEF s
    <3>4. D \ {r} \in SUBSET Requests
      BY <1>3
    <3>5. Cardinality(P) <= Cardinality(D \ {r})
      BY <1>3, <3>3, <3>4, PrivateFits
    <3>6. m_shared_credit >= 1
      BY <1>1, <1>2, <1>4, <2>1, <2>2, <3>5
    <3>7. m_shared_credit' \in Nat /\ m_shared_credit' <= m_shared_credit
      BY <1>1, <3>1, <3>6
    <3>8. m_shared_credit' + Cardinality(Private') = Cardinality(InDram')
      BY <1>1, <1>2, <1>4, <2>2, <3>1, <3>2
    <3>9. m_shared_credit_limit # 0 => m_shared_credit' <= m_shared_credit_limit
      <4>1. m_shared_credit_limit \in Int
        BY MemoryPartitionAssumption DEF m_shared_credit_limit
      <4> QED BY <1>1, <1>2, <3>7, <4>1
    <3> QED BY <1>1, <2>1, <2>2, <3>1, <3>2, <3>3, <3>7, <3>8, <3>9
  <2> QED BY <2>3, <2>4
<1>9. ASSUME NEW r \in Requests \ InChannel(place), HasCredits(SubOf[r]), BorrowCredit(SubOf[r]),
             InChannel(new) = InChannel(place) \cup {r}
      PROVE  /\ m_private_credit' \in [SubPartitions -> 0..1] /\ m_shared_credit' \in Nat
             /\ m_last_borrower' \in SubPartitions
             /\ m_shared_credit' + Cardinality(Private') = Cardinality(InDram')
             /\ \A s \in Private' : \E mf \in InDram' : SubOf[mf] = s
             /\ m_shared_credit_limit # 0 => m_shared_credit' <= m_shared_credit_limit
  <2> DEFINE s == SubOf[r]
  <2>1. r \notin D /\ InDram' = D \cup {r} /\ s \in SubPartitions
    BY <1>9, MemoryPartitionAssumption DEF D
  <2>2. Cardinality(InDram') = Cardinality(D) + 1 /\ m_last_borrower' = s
    BY <1>4, <1>9, <2>1, FS_AddElement DEF BorrowCredit
  <2> HIDE DEF s
  <2>3. CASE m_private_credit[s] < 1
    <3>1. m_private_credit' = [m_private_credit EXCEPT ![s] = @ + 1] /\ UNCHANGED m_shared_credit
      BY <1>1, <1>9, <2>3 DEF BorrowCredit, s
    <3>2. m_private_credit[s] = 0 /\ s \notin P
      BY <1>5, <2>1, <2>3
    <3>3. /\ m_private_credit'[s] = 1
          /\ \A t \in SubPartitions : t # s => m_private_credit'[t] = m_private_credit[t]
      BY <1>1, <2>1, <3>1, <3>2
    <3>4. m_private_credit' \in [SubPartitions -> 0..1]
      BY <1>1, <2>1, <3>1, <3>2
    <3>5. Private' = P \cup {s}
      BY <1>3, <1>5, <2>1, <3>3 DEF Private
    <3>6. Cardinality(Private') = Cardinality(P) + 1
      BY <1>4, <3>2, <3>5, FS_AddElement
    <3>7. \A t \in Private' : \E mf \in InDram' : SubOf[mf] = t
      BY <1>2, <2>1, <3>5 DEF s
    <3> QED BY <1>1, <1>2, <1>4, <2>1, <2>2, <3>1, <3>4, <3>6, <3>7
  <2>4. CASE ~(m_private_credit[s] < 1)
    <3>1. m_shared_credit' = m_shared_credit + 1 /\ UNCHANGED m_private_credit
      BY <1>1, <1>9, <2>4 DEF BorrowCredit, s
    <3>2. Private' = P
      BY <3>1 DEF P, Private
    <3>3. \A t \in P : \E mf \in InDram' : SubOf[mf] = t
      BY <1>2, <2>1
    <3>4. m_shared_credit_limit # 0 => m_shared_credit < m_shared_credit_limit
      BY <1>1, <1>9, <2>4 DEF HasCredits, s
    <3>5. m_shared_credit_limit \in Int
      BY MemoryPartitionAssumption DEF m_shared_credit_limit
    <3> QED BY <1>1, <1>2, <1>4, <2>1, <2>2, <3>1, <3>2, <3>3, <3>4, <3>5
  <2> QED BY <2>3, <2>4
<1> QED BY <1>7, <1>8, <1>9 DEF CreditStep

-----------------------------------------------------------------------------
(* Every step.                                                              *)

LEMMA RowsServedStep ==
    ASSUME TypeOK, RowsServed, NEW place \in [Requests -> Places], Located(place), Next
    PROVE  RowsServed'
<1>1. m_queue \in [Modes -> Seq(Requests)] /\ m_last_row \in [Modes -> [Banks -> Rows \cup {None}]]
  BY DEF TypeOK
<1>2. CASE UNCHANGED <<m_queue, m_last_row>>
  BY <1>2 DEF RowsServed
<1>3. CASE AddReq
  <2>1. mrqq \in Seq(Requests) /\ mrqq # <<>> /\ UNCHANGED m_last_row
    BY <1>3 DEF AddReq, TypeOK
  <2> PICK r \in Requests : r = Head(mrqq)
    BY <2>1
  <2>2. QueueOf(r) \in Modes
    BY DEF QueueOf, Modes
  <2>3. /\ m_queue'[QueueOf(r)] = Append(m_queue[QueueOf(r)], r)
        /\ \A l \in Modes : l # QueueOf(r) => m_queue'[l] = m_queue[l]
    BY <1>1, <1>3, <2>2 DEF AddReq
  <2>4. ASSUME NEW m \in Modes PROVE m_queue'[m] \in Seq(Requests) /\ SetOf(m_queue[m]) \subseteq SetOf(m_queue'[m])
    <3>1. m_queue[m] \in Seq(Requests)
      BY <1>1
    <3>2. CASE m = QueueOf(r)
      <4>1. /\ Append(m_queue[m], r) \in Seq(Requests)
            /\ Len(Append(m_queue[m], r)) = Len(m_queue[m]) + 1
            /\ \A i \in 1..Len(m_queue[m]) : Append(m_queue[m], r)[i] = m_queue[m][i]
        BY <3>1
      <4>2. \A i \in 1..Len(m_queue[m]) : i \in 1..Len(Append(m_queue[m], r))
        BY <3>1, <4>1
      <4>3. SetOf(m_queue[m]) \subseteq SetOf(Append(m_queue[m], r))
        BY <4>1, <4>2 DEF SetOf
      <4> QED BY <2>3, <3>2, <4>1, <4>3
    <3>3. CASE m # QueueOf(r)
      BY <2>3, <3>1, <3>3
    <3> QED BY <3>2, <3>3
  <2>5. ASSUME NEW m \in Modes, NEW b \in Banks, m_last_row[m][b] # None
        PROVE  OfRow(m_queue'[m], b, m_last_row[m][b]) # {}
    <3>1. OfRow(m_queue[m], b, m_last_row[m][b]) # {} /\ m_queue[m] \in Seq(Requests)
      BY <1>1, <2>5 DEF RowsServed
    <3>2. \E x \in SetOf(m_queue[m]) : BankOf[x] = b /\ RowOf[x] = m_last_row[m][b]
      BY <3>1, RowWaits
    <3>3. \E x \in SetOf(m_queue'[m]) : BankOf[x] = b /\ RowOf[x] = m_last_row[m][b]
      BY <2>4, <3>2
    <3> QED BY <2>4, <3>3, RowWaits
  <2> QED BY <2>1, <2>5 DEF RowsServed
<1>4. CASE DramSchedule
  <2>1. ASSUME NEW m \in Modes, NEW b \in Banks, NEW i \in 1..Len(m_queue[m]), Scheduled(m, b, i)
        PROVE  RowsServed'
    <3> DEFINE q   == m_queue[m]
               row == RowOf[q[i]]
               S   == {r \in At(place, 6) : QueueOf(r) = m}
    <3>1. q \in Seq(Requests) /\ Holds(q, S, RowOrder)
      BY <1>1 DEF Located, DramHolds
    <3>2. m_queue'[m] = Erase(q, i) /\ \A l \in Modes : l # m => m_queue'[l] = m_queue[l]
      BY <1>1, <2>1 DEF Scheduled
    <3>3. /\ m_last_row'[m][b] = IF OfRow(q, b, row) = {i} THEN None ELSE row
          /\ \A l \in Modes, c \in Banks : l # m \/ c # b => m_last_row'[l][c] = m_last_row[l][c]
      BY <1>1, <2>1 DEF Scheduled
    <3>4. i \in OfRow(q, b, row)
      BY <2>1 DEF OfRow, OfBank, Scheduled
    <3>5. OfRow(q, b, row) # {i} => OfRow(Erase(q, i), b, row) # {}
      BY <3>1, <3>4, RestOfRow
    <3>6. ASSUME NEW c \in Banks, c # b, m_last_row[m][c] # None
          PROVE  OfRow(Erase(q, i), c, m_last_row[m][c]) # {}
      <4>1. OfRow(q, c, m_last_row[m][c]) # {}
        BY <3>6 DEF RowsServed
      <4>2. OfRow(q, c, m_last_row[m][c]) # {i}
        <5>1. i \notin OfRow(q, c, m_last_row[m][c])
          BY <2>1, <3>6 DEF OfRow, OfBank, Scheduled
        <5> QED BY <5>1
      <4> QED BY <3>1, <4>1, <4>2, RestOfRow
    <3>7. ASSUME NEW l \in Modes, NEW c \in Banks, m_last_row'[l][c] # None
          PROVE  OfRow(m_queue'[l], c, m_last_row'[l][c]) # {}
      <4>1. CASE l # m
        BY <3>2, <3>3, <3>7, <4>1 DEF RowsServed
      <4>2. CASE l = m /\ c # b
        BY <3>2, <3>3, <3>6, <3>7, <4>2
      <4>3. CASE l = m /\ c = b
        BY <3>2, <3>3, <3>5, <3>7, <4>3
      <4> QED BY <4>1, <4>2, <4>3
    <3> QED BY <3>7 DEF RowsServed
  <2> QED BY <1>2, <1>4, <2>1, ScheduleChoice
<1> QED BY <1>2, <1>3, <1>4
     DEF Next, DramStep, DramReturn, DramData, DramCommand, Arbitrate, DramLatency, SimpleReturn,
         L2Cycle, IcntCycle, dram, scheduler

LEMMA TailOfOne ==
    ASSUME NEW q \in Seq(Requests), q # <<>>, Len(q) <= 1
    PROVE  Tail(q) = <<>>
<1>1. Len(q) \in Nat /\ Len(q) # 0
  OBVIOUS
<1>2. Len(q) = 1
  BY <1>1
<1>3. Tail(q) \in Seq(Requests) /\ Len(Tail(q)) = 0
  BY <1>2
<1> QED BY <1>3

LEMMA PhasesStep ==
    ASSUME TypeOK, Phases, Next PROVE Phases'
<1>1. mrqq \in Seq(Requests) /\ Len(mrqq) \in Nat
  BY DEF TypeOK
<1>2. Len(mrqq) = 0 <=> mrqq = <<>>
  BY <1>1
<1>3. ASSUME NEW s \in SubPartitions, L2Cycle(s) \/ IcntCycle(s) PROVE Phases'
  <2>1. UNCHANGED <<phase, mrqq, simple_dram_model>>
    BY <1>3 DEF L2Cycle, IcntCycle, config, dram
  <2> QED BY <2>1 DEF Phases
<1>4. CASE DramReturn
  BY <1>4 DEF Phases, DramReturn, config
<1>5. CASE DramData
  BY <1>5 DEF Phases, DramData, config
<1>6. CASE AddReq
  <2>1. Tail(mrqq) \in Seq(Requests) /\ Len(Tail(mrqq)) = Len(mrqq) - 1
    BY <1>1, <1>6 DEF AddReq
  <2> QED BY <1>1, <1>6, <2>1 DEF Phases, AddReq, config
<1>7. CASE DramSchedule
  BY <1>7 DEF Phases, DramSchedule, config
<1>8. CASE DramCommand
  BY <1>8 DEF Phases, DramCommand, config
<1>9. CASE Arbitrate
  BY <1>9 DEF Phases, Arbitrate, config, dram
<1>10. CASE SimpleReturn
  <2>1. /\ phase' = "arbitrate" /\ UNCHANGED <<mrqq, simple_dram_model>> /\ simple_dram_model
    BY <1>10 DEF SimpleReturn, config, dram
  <2> QED BY <2>1 DEF Phases
<1>11. CASE DramLatency
  <2>1. mrqq = <<>> /\ phase' = "idle" /\ UNCHANGED config /\ ~simple_dram_model
    BY <1>11 DEF Phases, DramLatency
  <2>2. Len(mrqq') <= 1
    <3>1. CASE UNCHANGED mrqq
      BY <2>1, <3>1
    <3>2. CASE m_dram_latency_queue # <<>> /\ mrqq' = Append(mrqq, Head(m_dram_latency_queue))
      <4>1. Head(m_dram_latency_queue) \in Requests
        BY <3>2 DEF TypeOK
      <4> QED BY <2>1, <3>2, <4>1
    <3> QED BY <1>11, <3>1, <3>2 DEF DramLatency
  <2> QED BY <2>1, <2>2 DEF Phases, config
<1> QED BY <1>3, <1>4, <1>5, <1>6, <1>7, <1>8, <1>9, <1>10, <1>11 DEF Next, DramStep

LEMMA MoveNext ==
    ASSUME TypeOK, RowsServed, Phases, NEW place \in [Requests -> Places], Located(place), Next
    PROVE  \E new \in [Requests -> Places] : Located(new)' /\ CreditStep(place, new)
<1>1. phase \notin {"idle", "arbitrate"} => ~simple_dram_model
  BY DEF Phases
<1>2. CASE AddReq
  BY <1>2, MoveAddReq DEF AddReq, CreditStep
<1>3. CASE DramSchedule
  <2>1. ~simple_dram_model /\ UNCHANGED credits
    BY <1>1, <1>3 DEF DramSchedule
  <2> QED BY <1>3, <2>1, MoveSchedule DEF CreditStep
<1>4. CASE DramCommand
  <2>1. ~simple_dram_model /\ UNCHANGED credits
    BY <1>1, <1>4 DEF DramCommand
  <2> QED BY <1>4, <2>1, MoveCommand DEF CreditStep
<1>5. CASE DramLatency
  <2>1. ~simple_dram_model /\ UNCHANGED credits
    BY <1>1, <1>5 DEF DramLatency
  <2> QED BY <1>5, <2>1, MoveLatency DEF CreditStep
<1>6. CASE DramData
  <2>1. ~simple_dram_model
    BY <1>1, <1>6 DEF DramData
  <2> QED BY <1>6, <2>1, MoveData
<1>7. CASE DramReturn
  BY <1>7, MoveReturn
<1>8. CASE SimpleReturn
  BY <1>8, MoveSimple
<1>9. CASE Arbitrate
  BY <1>9, MoveArbitrate
<1>10. ASSUME NEW s \in SubPartitions, L2Cycle(s)
       PROVE  \E new \in [Requests -> Places] : Located(new)' /\ CreditStep(place, new)
  BY <1>10, MoveL2
<1>11. ASSUME NEW s \in SubPartitions, IcntCycle(s)
       PROVE  \E new \in [Requests -> Places] : Located(new)' /\ CreditStep(place, new)
  BY <1>11, MoveIcnt
<1> QED BY <1>2, <1>3, <1>4, <1>5, <1>6, <1>7, <1>8, <1>9, <1>10, <1>11 DEF Next, DramStep

\* The types that a step of the credits gives.
CreditTypes ==
    /\ m_private_credit \in [SubPartitions -> 0..m_private_credit_limit]
    /\ m_shared_credit \in Nat /\ m_last_borrower \in SubPartitions

LEMMA LeavesType ==
    ASSUME NEW q \in Seq(Requests), NEW room
    PROVE  Leaves(q, room) \in Seq(Requests) /\ Rest(q, Leaves(q, room)) \in Seq(Requests)
<1>1. CASE Leaves(q, room) = <<>>
  <2>1. SubSeq(q, 1, Len(q)) = q /\ Len(<<>>) + 1 = 1
    OBVIOUS
  <2> QED BY <1>1, <2>1 DEF Rest
<1>2. CASE q # <<>> /\ Leaves(q, room) = <<Head(q)>>
  <2>1. Tail(q) = SubSeq(q, 2, Len(q)) /\ Tail(q) \in Seq(Requests) /\ Head(q) \in Requests
    BY <1>2
  <2>2. Len(<<Head(q)>>) + 1 = 2 /\ <<Head(q)>> \in Seq(Requests)
    BY <2>1
  <2> QED BY <1>2, <2>1, <2>2 DEF Rest
<1> QED BY <1>1, <1>2 DEF Leaves

LEMMA TypeL2 ==
    ASSUME TypeOK, NEW s \in SubPartitions, L2Cycle(s) PROVE TypeOK'
<1>0. PICK come \in {<<>>} \cup {<<r>> : r \in NextFrom(s)}, ready \in BOOLEAN :
          LET past  == come # <<>> /\ Kind[Head(come)] = "texture"
              rop   == m_rop[s] \o (IF past THEN <<>> ELSE come)
              icnt  == m_icnt_L2_queue[s] \o (IF past THEN come ELSE <<>>)
              reply == Leaves(m_dram_L2_queue[s], Len(m_L2_icnt_queue[s]) < L2IcntSize)
              down  == Leaves(icnt, Len(m_L2_dram_queue[s]) < L2DramSize)
              left  == Rest(icnt, down)
              enter == Leaves(rop, ready /\ Len(left) < IcntL2Size)
          IN  /\ sent' = sent \cup SetOf(come)
              /\ m_request_tracker' = [m_request_tracker EXCEPT ![s] = @ \cup SetOf(come)]
              /\ m_rop' = [m_rop EXCEPT ![s] = Rest(rop, enter)]
              /\ m_icnt_L2_queue' = [m_icnt_L2_queue EXCEPT ![s] = left \o enter]
              /\ m_L2_dram_queue' = [m_L2_dram_queue EXCEPT ![s] = @ \o down]
              /\ m_dram_L2_queue' = [m_dram_L2_queue EXCEPT ![s] = Rest(@, reply)]
              /\ m_L2_icnt_queue' = [m_L2_icnt_queue EXCEPT ![s] = @ \o reply]
  BY DEF L2Cycle
<1> DEFINE past  == come # <<>> /\ Kind[Head(come)] = "texture"
           rop   == m_rop[s] \o (IF past THEN <<>> ELSE come)
           icnt  == m_icnt_L2_queue[s] \o (IF past THEN come ELSE <<>>)
           reply == Leaves(m_dram_L2_queue[s], Len(m_L2_icnt_queue[s]) < L2IcntSize)
           down  == Leaves(icnt, Len(m_L2_dram_queue[s]) < L2DramSize)
           left  == Rest(icnt, down)
           enter == Leaves(rop, ready /\ Len(left) < IcntL2Size)
<1>1. /\ m_rop \in [SubPartitions -> Seq(Requests)] /\ m_icnt_L2_queue \in [SubPartitions -> Seq(Requests)]
      /\ m_L2_dram_queue \in [SubPartitions -> Seq(Requests)]
      /\ m_dram_L2_queue \in [SubPartitions -> Seq(Requests)]
      /\ m_L2_icnt_queue \in [SubPartitions -> Seq(Requests)]
      /\ m_request_tracker \in [SubPartitions -> SUBSET Requests]
  BY DEF TypeOK
<1>2. come \in Seq(Requests) /\ SetOf(come) \subseteq Requests
  <2>1. CASE come = <<>>
    BY <2>1 DEF SetOf
  <2>2. CASE come # <<>>
    <3> PICK r \in NextFrom(s) : come = <<r>>
      BY <2>2
    <3>1. r \in Requests
      BY DEF NextFrom
    <3> QED BY <3>1 DEF SetOf
  <2> QED BY <2>1, <2>2
<1>3. rop \in Seq(Requests) /\ icnt \in Seq(Requests)
  <2>1. m_rop[s] \in Seq(Requests) /\ m_icnt_L2_queue[s] \in Seq(Requests) /\ <<>> \in Seq(Requests)
    BY <1>1
  <2> HIDE DEF past
  <2>2. CASE past
    BY <1>2, <2>1, <2>2
  <2>3. CASE ~past
    BY <1>2, <2>1, <2>3
  <2> QED BY <2>2, <2>3
<1> HIDE DEF past, rop, icnt
<1>4. /\ reply \in Seq(Requests) /\ Rest(m_dram_L2_queue[s], reply) \in Seq(Requests)
      /\ m_dram_L2_queue[s] \in Seq(Requests) /\ m_L2_icnt_queue[s] \in Seq(Requests)
      /\ m_L2_dram_queue[s] \in Seq(Requests)
  BY <1>1, LeavesType
<1>5. down \in Seq(Requests) /\ left \in Seq(Requests)
  BY <1>3, LeavesType
<1> HIDE DEF left, down, reply
<1>6. enter \in Seq(Requests) /\ Rest(rop, enter) \in Seq(Requests)
  BY <1>3, LeavesType
<1> HIDE DEF enter
<1>7. /\ left \o enter \in Seq(Requests) /\ m_L2_dram_queue[s] \o down \in Seq(Requests)
      /\ m_L2_icnt_queue[s] \o reply \in Seq(Requests)
  BY <1>4, <1>5, <1>6
<1>8. /\ sent' = sent \cup SetOf(come)
      /\ m_request_tracker' = [m_request_tracker EXCEPT ![s] = @ \cup SetOf(come)]
      /\ m_rop' = [m_rop EXCEPT ![s] = Rest(rop, enter)]
      /\ m_icnt_L2_queue' = [m_icnt_L2_queue EXCEPT ![s] = left \o enter]
      /\ m_L2_dram_queue' = [m_L2_dram_queue EXCEPT ![s] = m_L2_dram_queue[s] \o down]
      /\ m_dram_L2_queue' = [m_dram_L2_queue EXCEPT ![s] = Rest(m_dram_L2_queue[s], reply)]
      /\ m_L2_icnt_queue' = [m_L2_icnt_queue EXCEPT ![s] = m_L2_icnt_queue[s] \o reply]
  BY <1>0 DEF left, down, reply, enter, rop, icnt, past
<1>9. /\ m_rop' \in [SubPartitions -> Seq(Requests)] /\ m_icnt_L2_queue' \in [SubPartitions -> Seq(Requests)]
      /\ m_L2_dram_queue' \in [SubPartitions -> Seq(Requests)]
      /\ m_dram_L2_queue' \in [SubPartitions -> Seq(Requests)]
      /\ m_L2_icnt_queue' \in [SubPartitions -> Seq(Requests)]
  BY <1>1, <1>4, <1>6, <1>7, <1>8
<1>10. sent' \subseteq Requests /\ m_request_tracker' \in [SubPartitions -> SUBSET Requests]
  BY <1>1, <1>2, <1>8 DEF TypeOK
<1>11. UNCHANGED <<config, answered, credits, m_dram_latency_queue, dram, phase>>
  BY DEF L2Cycle
<1> QED BY <1>9, <1>10, <1>11 DEF TypeOK, config, credits, dram, scheduler, m_private_credit_limit

\* The types of what the two ways out of the channel change.
LEMMA TypeOut ==
    ASSUME TypeOK, NEW r \in Requests, DeliverTo(SubOf[r], r) \/ SetDone(r)
    PROVE  /\ sent' \subseteq Requests /\ answered' \subseteq Requests
           /\ m_request_tracker' \in [SubPartitions -> SUBSET Requests]
           /\ m_rop' \in [SubPartitions -> Seq(Requests)]
           /\ m_icnt_L2_queue' \in [SubPartitions -> Seq(Requests)]
           /\ m_L2_dram_queue' \in [SubPartitions -> Seq(Requests)]
           /\ m_dram_L2_queue' \in [SubPartitions -> Seq(Requests)]
           /\ m_L2_icnt_queue' \in [SubPartitions -> Seq(Requests)]
<1> DEFINE s == SubOf[r]
<1>1. /\ s \in SubPartitions /\ m_request_tracker \in [SubPartitions -> SUBSET Requests]
      /\ m_dram_L2_queue \in [SubPartitions -> Seq(Requests)]
      /\ m_rop \in [SubPartitions -> Seq(Requests)] /\ m_icnt_L2_queue \in [SubPartitions -> Seq(Requests)]
      /\ m_L2_dram_queue \in [SubPartitions -> Seq(Requests)]
      /\ m_L2_icnt_queue \in [SubPartitions -> Seq(Requests)]
      /\ sent \subseteq Requests /\ answered \subseteq Requests
  BY MemoryPartitionAssumption DEF TypeOK
<1>2. CASE DeliverTo(s, r)
  <2>1. Append(m_dram_L2_queue[s], r) \in Seq(Requests)
    BY <1>1
  <2>2. m_dram_L2_queue' = [m_dram_L2_queue EXCEPT ![s] = Append(m_dram_L2_queue[s], r)]
    BY <1>2 DEF DeliverTo
  <2>3. m_dram_L2_queue' \in [SubPartitions -> Seq(Requests)]
    BY <1>1, <2>1, <2>2
  <2> QED BY <1>1, <1>2, <2>3 DEF DeliverTo, traffic
<1>3. CASE SetDone(r)
  <2>1. m_request_tracker' = [m_request_tracker EXCEPT ![s] = m_request_tracker[s] \ {r}]
    BY <1>3 DEF SetDone
  <2>2. m_request_tracker' \in [SubPartitions -> SUBSET Requests]
    BY <1>1, <2>1
  <2> QED BY <1>1, <1>3, <2>2 DEF SetDone, queues
<1> QED BY <1>2, <1>3

LEMMA TypeStep ==
    ASSUME TypeOK, RowsServed, CreditTypes', Next PROVE TypeOK'
<1>1. /\ m_dram_latency_queue \in Seq(Requests) /\ mrqq \in Seq(Requests)
      /\ m_queue \in [Modes -> Seq(Requests)]
      /\ m_last_row \in [Modes -> [Banks -> Rows \cup {None}]]
      /\ mrq \in [Banks -> Requests \cup {None}] /\ curr_row \in [Banks -> Rows]
      /\ rwq \in Seq(Requests) /\ returnq \in Seq(Requests)
  BY DEF TypeOK
<1>2. CASE AddReq
  <2>1. mrqq # <<>> /\ Tail(mrqq) \in Seq(Requests) /\ Head(mrqq) \in Requests
    BY <1>1, <1>2 DEF AddReq
  <2>2. QueueOf(Head(mrqq)) \in Modes
    BY DEF QueueOf, Modes
  <2>3. Append(m_queue[QueueOf(Head(mrqq))], Head(mrqq)) \in Seq(Requests)
    BY <1>1, <2>1, <2>2
  <2>4. m_queue' \in [Modes -> Seq(Requests)]
    BY <1>1, <1>2, <2>3 DEF AddReq
  <2>5. mrqq' \in Seq(Requests)
    BY <1>2, <2>1 DEF AddReq
  <2>6. UNCHANGED <<config, traffic, queues, m_dram_latency_queue, m_last_row, m_mode,
                    mrq, curr_row, rwq, returnq, phase>>
    BY <1>2 DEF AddReq
  <2> QED BY <2>4, <2>5, <2>6 DEF TypeOK, CreditTypes, config, traffic, queues
<1>3. CASE DramSchedule
  <2>1. m_mode' \in Modes
    BY <1>3, ScheduleChoice
  <2>2. /\ UNCHANGED <<config, traffic, queues, m_dram_latency_queue, mrqq, curr_row, rwq, returnq>>
        /\ phase' = "command"
    BY <1>3 DEF DramSchedule
  <2>3. CASE UNCHANGED <<m_queue, m_last_row, mrq>>
    BY <2>1, <2>2, <2>3 DEF TypeOK, CreditTypes, config, traffic, queues
  <2>4. ASSUME NEW m \in Modes, NEW b \in Banks, NEW i \in 1..Len(m_queue[m]), Scheduled(m, b, i)
        PROVE  TypeOK'
    <3> DEFINE q == m_queue[m]
               S == SetOf(q)
               row == IF OfRow(q, b, RowOf[q[i]]) = {i} THEN None ELSE RowOf[q[i]]
    <3>1. q \in Seq(Requests) /\ q[i] \in Requests
      BY <1>1
    <3>2. Erase(q, i) \in Seq(Requests)
      <4>1. Len(q) \in Nat /\ \A j \in 1..Len(q) : q[j] \in Requests
        BY <3>1
      <4>2. \A j \in 1..(Len(q) - 1) : (IF j < i THEN q[j] ELSE q[j + 1]) \in Requests
        BY <4>1
      <4>3. Len(q) - 1 \in Nat
        BY <4>1
      <4>4. Erase(q, i) \in [1..(Len(q) - 1) -> Requests]
        BY <4>2 DEF Erase
      <4> QED BY <4>3, <4>4
    <3>3. row \in Rows \cup {None}
      BY <3>1, MemoryPartitionAssumption
    <3>4. m_last_row' = [m_last_row EXCEPT ![m][b] = row]
      BY <2>4 DEF Scheduled
    <3> HIDE DEF row
    <3>5. m_last_row' \in [Modes -> [Banks -> Rows \cup {None}]]
      BY <1>1, <3>3, <3>4
    <3>6. m_queue' \in [Modes -> Seq(Requests)] /\ mrq' \in [Banks -> Requests \cup {None}]
      BY <1>1, <2>4, <3>1, <3>2 DEF Scheduled
    <3> QED BY <2>1, <2>2, <3>5, <3>6 DEF TypeOK, CreditTypes, config, traffic, queues
  <2> QED BY <1>3, <2>3, <2>4, ScheduleChoice
<1>4. CASE DramCommand
  <2>1. /\ rwq' \in Seq(Requests) /\ curr_row' \in [Banks -> Rows]
        /\ mrq' \in [Banks -> Requests \cup {None}]
    <3>1. CASE UNCHANGED <<rwq, curr_row, mrq>>
      BY <1>1, <3>1
    <3>2. ASSUME NEW b \in Banks, mrq[b] # None, rwq' = Append(rwq, mrq[b]),
                 curr_row' = [curr_row EXCEPT ![b] = RowOf[mrq[b]]],
                 mrq' = [mrq EXCEPT ![b] = None]
          PROVE  /\ rwq' \in Seq(Requests) /\ curr_row' \in [Banks -> Rows]
                 /\ mrq' \in [Banks -> Requests \cup {None}]
      <4>1. mrq[b] \in Requests /\ RowOf[mrq[b]] \in Rows
        BY <1>1, <3>2, MemoryPartitionAssumption
      <4> QED BY <1>1, <3>2, <4>1
    <3> QED BY <1>4, <3>1, <3>2 DEF DramCommand
  <2>2. /\ UNCHANGED <<config, traffic, queues, m_dram_latency_queue, mrqq, scheduler, returnq>>
        /\ phase' = "arbitrate"
    BY <1>4 DEF DramCommand
  <2> QED BY <2>1, <2>2 DEF TypeOK, CreditTypes, config, traffic, queues, scheduler
<1>5. CASE DramLatency
  <2>1. mrqq' \in Seq(Requests) /\ m_dram_latency_queue' \in Seq(Requests)
    <3>1. CASE UNCHANGED <<mrqq, m_dram_latency_queue>>
      BY <1>1, <3>1
    <3>2. CASE /\ m_dram_latency_queue # <<>>
               /\ mrqq' = Append(mrqq, Head(m_dram_latency_queue))
               /\ m_dram_latency_queue' = Tail(m_dram_latency_queue)
      BY <1>1, <3>2
    <3> QED BY <1>5, <3>1, <3>2 DEF DramLatency
  <2>2. UNCHANGED <<config, traffic, queues, scheduler, mrq, curr_row, rwq, returnq>> /\ phase' = "idle"
    BY <1>5 DEF DramLatency
  <2> QED BY <2>1, <2>2 DEF TypeOK, CreditTypes, config, traffic, queues, scheduler
<1>6. CASE DramData
  <2>1. UNCHANGED <<config, m_dram_latency_queue, mrqq, scheduler, mrq, curr_row>> /\ phase' = "schedule"
    BY <1>6 DEF DramData
  <2>2. CASE UNCHANGED <<rwq, returnq, traffic, queues>>
    BY <2>1, <2>2 DEF TypeOK, CreditTypes, config, traffic, queues, scheduler
  <2>3. CASE /\ rwq # <<>> /\ rwq' = Tail(rwq)
             /\ \/ SetDone(Head(rwq)) /\ UNCHANGED returnq
                \/ returnq' = Append(returnq, Head(rwq)) /\ UNCHANGED <<traffic, queues>>
    <3>1. Head(rwq) \in Requests /\ Tail(rwq) \in Seq(Requests)
      BY <1>1, <2>3
    <3>2. CASE SetDone(Head(rwq)) /\ UNCHANGED returnq
      BY <1>1, <2>1, <2>3, <3>1, <3>2, TypeOut DEF TypeOK, CreditTypes, config, scheduler
    <3>3. CASE returnq' = Append(returnq, Head(rwq)) /\ UNCHANGED <<traffic, queues>>
      <4>1. returnq' \in Seq(Requests) /\ rwq' \in Seq(Requests)
        BY <1>1, <2>3, <3>1, <3>3
      <4> QED BY <2>1, <3>3, <4>1 DEF TypeOK, CreditTypes, config, traffic, queues, scheduler
    <3> QED BY <2>3, <3>2, <3>3
  <2>4. \/ UNCHANGED <<rwq, returnq, traffic, queues>>
        \/ /\ rwq # <<>> /\ rwq' = Tail(rwq)
           /\ \/ SetDone(Head(rwq)) /\ UNCHANGED returnq
              \/ returnq' = Append(returnq, Head(rwq)) /\ UNCHANGED <<traffic, queues>>
    BY <1>6 DEF DramData
  <2> QED BY <2>2, <2>3, <2>4
<1>7. CASE DramReturn
  <2>1. UNCHANGED <<config, m_dram_latency_queue, mrqq, scheduler, mrq, curr_row, rwq>> /\ phase' = "data"
    BY <1>7 DEF DramReturn
  <2>2. CASE UNCHANGED <<traffic, queues, returnq>>
    BY <2>1, <2>2 DEF TypeOK, CreditTypes, config, traffic, queues, scheduler
  <2>3. CASE returnq # <<>> /\ DeliverTo(SubOf[Head(returnq)], Head(returnq)) /\ returnq' = Tail(returnq)
    <3>1. Head(returnq) \in Requests /\ Tail(returnq) \in Seq(Requests)
      BY <1>1, <2>3
    <3> QED BY <1>1, <2>1, <2>3, <3>1, TypeOut DEF TypeOK, CreditTypes, config, scheduler
  <2> QED BY <1>7, <2>2, <2>3 DEF DramReturn
<1>8. CASE SimpleReturn
  <2>1. UNCHANGED <<config, dram>> /\ phase' = "arbitrate"
    BY <1>8 DEF SimpleReturn
  <2>2. CASE UNCHANGED <<m_dram_latency_queue, traffic, queues>>
    BY <2>1, <2>2 DEF TypeOK, CreditTypes, config, traffic, queues, dram, scheduler
  <2>3. CASE /\ m_dram_latency_queue # <<>> /\ m_dram_latency_queue' = Tail(m_dram_latency_queue)
             /\ \/ SetDone(Head(m_dram_latency_queue))
                \/ DeliverTo(SubOf[Head(m_dram_latency_queue)], Head(m_dram_latency_queue))
    <3>1. Head(m_dram_latency_queue) \in Requests /\ Tail(m_dram_latency_queue) \in Seq(Requests)
      BY <1>1, <2>3
    <3> QED BY <1>1, <2>1, <2>3, <3>1, TypeOut DEF TypeOK, CreditTypes, config, dram, scheduler
  <2>4. \/ UNCHANGED <<m_dram_latency_queue, traffic, queues>>
        \/ /\ m_dram_latency_queue # <<>> /\ m_dram_latency_queue' = Tail(m_dram_latency_queue)
           /\ \/ SetDone(Head(m_dram_latency_queue))
              \/ DeliverTo(SubOf[Head(m_dram_latency_queue)], Head(m_dram_latency_queue))
    BY <1>8 DEF SimpleReturn
  <2> QED BY <2>2, <2>3, <2>4
<1>9. CASE Arbitrate
  <2>1. /\ UNCHANGED <<config, traffic, m_rop, m_icnt_L2_queue, m_dram_L2_queue, m_L2_icnt_queue, dram>>
        /\ phase' \in {"idle", "latency"}
    BY <1>9 DEF Arbitrate
  <2>2. /\ m_L2_dram_queue' \in [SubPartitions -> Seq(Requests)]
        /\ m_dram_latency_queue' \in Seq(Requests)
    <3>1. m_L2_dram_queue \in [SubPartitions -> Seq(Requests)]
      BY DEF TypeOK
    <3>2. CASE UNCHANGED <<m_L2_dram_queue, m_dram_latency_queue>>
      BY <1>1, <3>1, <3>2
    <3>3. ASSUME NEW s \in Chosen,
                 m_L2_dram_queue' = [m_L2_dram_queue EXCEPT ![s] = Tail(@)],
                 m_dram_latency_queue' = Append(m_dram_latency_queue, Head(m_L2_dram_queue[s]))
          PROVE  /\ m_L2_dram_queue' \in [SubPartitions -> Seq(Requests)]
                 /\ m_dram_latency_queue' \in Seq(Requests)
      <4>1. s \in SubPartitions /\ m_L2_dram_queue[s] # <<>>
        BY ChosenSound
      <4>2. Tail(m_L2_dram_queue[s]) \in Seq(Requests) /\ Head(m_L2_dram_queue[s]) \in Requests
        BY <3>1, <4>1
      <4>3. m_dram_latency_queue' \in Seq(Requests)
        BY <1>1, <3>3, <4>2
      <4>4. m_L2_dram_queue' \in [SubPartitions -> Seq(Requests)]
        BY <3>1, <3>3, <4>1, <4>2
      <4> QED BY <4>3, <4>4
    <3> QED BY <1>9, <3>2, <3>3 DEF Arbitrate
  <2> QED BY <2>1, <2>2 DEF TypeOK, CreditTypes, config, traffic, dram, scheduler
<1>10. ASSUME NEW s \in SubPartitions, L2Cycle(s) PROVE TypeOK'
  BY <1>10, TypeL2
<1>11. ASSUME NEW s \in SubPartitions, IcntCycle(s) PROVE TypeOK'
  <2>1. UNCHANGED <<config, sent, m_rop, m_icnt_L2_queue, m_L2_dram_queue, m_dram_L2_queue,
                    m_dram_latency_queue, dram, phase>>
    BY <1>11 DEF IcntCycle
  <2>2. /\ m_L2_icnt_queue \in [SubPartitions -> Seq(Requests)] /\ m_L2_icnt_queue[s] # <<>>
        /\ m_request_tracker \in [SubPartitions -> SUBSET Requests] /\ answered \subseteq Requests
    BY <1>11 DEF TypeOK, IcntCycle
  <2>3. Tail(m_L2_icnt_queue[s]) \in Seq(Requests) /\ Head(m_L2_icnt_queue[s]) \in Requests
    BY <2>2
  <2>4. /\ m_L2_icnt_queue' \in [SubPartitions -> Seq(Requests)]
        /\ m_request_tracker' \in [SubPartitions -> SUBSET Requests] /\ answered' \subseteq Requests
    BY <1>11, <2>2, <2>3 DEF IcntCycle
  <2> QED BY <2>1, <2>4 DEF TypeOK, CreditTypes, config, dram, scheduler
<1> QED BY <1>2, <1>3, <1>4, <1>5, <1>6, <1>7, <1>8, <1>9, <1>10, <1>11 DEF Next, DramStep

-----------------------------------------------------------------------------
(* The invariant, and the theorems.                                         *)

LEMMA InvInit == Init => IInv
<1> SUFFICES ASSUME Init PROVE IInv
  OBVIOUS
<1>1. /\ NSub \in Nat /\ NSub > 0 /\ NSub - 1 \in SubPartitions
      /\ FirstRow \in Rows /\ Simple \subseteq BOOLEAN /\ Separate \subseteq BOOLEAN
  BY MemoryPartitionAssumption DEF SubPartitions
<1>2. TypeOK
  <2>1. /\ m_rop \in [SubPartitions -> Seq(Requests)] /\ m_icnt_L2_queue \in [SubPartitions -> Seq(Requests)]
        /\ m_L2_dram_queue \in [SubPartitions -> Seq(Requests)]
        /\ m_dram_L2_queue \in [SubPartitions -> Seq(Requests)]
        /\ m_L2_icnt_queue \in [SubPartitions -> Seq(Requests)]
        /\ m_request_tracker \in [SubPartitions -> SUBSET Requests]
        /\ m_queue \in [Modes -> Seq(Requests)]
        /\ m_dram_latency_queue \in Seq(Requests) /\ mrqq \in Seq(Requests)
        /\ rwq \in Seq(Requests) /\ returnq \in Seq(Requests)
    BY DEF Init
  <2>2. /\ m_last_row \in [Modes -> [Banks -> Rows \cup {None}]] /\ m_mode \in Modes
        /\ mrq \in [Banks -> Requests \cup {None}] /\ curr_row \in [Banks -> Rows]
    BY <1>1 DEF Init, Modes
  <2>3. /\ m_private_credit \in [SubPartitions -> 0..m_private_credit_limit]
        /\ m_shared_credit \in Nat /\ m_last_borrower \in SubPartitions
    BY <1>1 DEF Init, m_private_credit_limit
  <2>4. /\ simple_dram_model \in BOOLEAN /\ seperate_write_queue_enabled \in BOOLEAN
        /\ sent \subseteq Requests /\ answered \subseteq Requests /\ phase = "idle"
    BY <1>1 DEF Init
  <2> QED BY <2>1, <2>2, <2>3, <2>4 DEF TypeOK
<1>3. RowsServed /\ Phases
  BY DEF Init, RowsServed, Phases
<1> DEFINE place == [r \in Requests |-> 0]
<1>4. place \in [Requests -> Places] /\ \A r \in Requests : place[r] = 0
  BY DEF Places
<1> HIDE DEF place
<1>5. \A k \in 1..12 : At(place, k) = {} /\ \A s : AtSub(place, k, s) = {}
  BY <1>4 DEF At, AtSub
<1>6. \A q, S : q = <<>> /\ S = {} => Holds(q, S, RowOrder)
  BY DEF Holds, SetOf
<1>7. ASSUME NEW s \in SubPartitions PROVE SubHolds(place, s)
  <2>1. /\ m_rop[s] = <<>> /\ m_icnt_L2_queue[s] = <<>> /\ m_L2_dram_queue[s] = <<>>
        /\ m_dram_L2_queue[s] = <<>> /\ m_L2_icnt_queue[s] = <<>> /\ m_request_tracker[s] = {}
    BY DEF Init
  <2>2. {r \in Requests : place[r] \in 1..11 /\ SubOf[r] = s} = {}
    BY <1>4
  <2>3. /\ AtSub(place, 1, s) = {} /\ AtSub(place, 2, s) = {} /\ AtSub(place, 3, s) = {}
        /\ AtSub(place, 10, s) = {} /\ AtSub(place, 11, s) = {}
    BY <1>5
  <2> QED BY <1>6, <2>1, <2>2, <2>3 DEF SubHolds
<1>8. DramHolds(place)
  <2>1. BanksHold(place)
    BY <1>5 DEF BanksHold, Init
  <2>2. \A m \in Modes : m_queue[m] = <<>> /\ {r \in At(place, 6) : QueueOf(r) = m} = {}
    BY <1>5 DEF Init
  <2>3. m_dram_latency_queue = <<>> /\ mrqq = <<>> /\ rwq = <<>> /\ returnq = <<>>
    BY DEF Init
  <2>4. \A r \in Requests : place[r] \notin 5..9
    BY <1>4
  <2>5. At(place, 4) = {} /\ At(place, 5) = {} /\ At(place, 8) = {} /\ At(place, 9) = {}
    BY <1>5
  <2>6. \A m \in Modes : Holds(m_queue[m], {r \in At(place, 6) : QueueOf(r) = m}, RowOrder)
    BY <1>6, <2>2
  <2>7. /\ Holds(m_dram_latency_queue, At(place, 4), RowOrder) /\ Holds(mrqq, At(place, 5), RowOrder)
        /\ Holds(rwq, At(place, 8), RowOrder) /\ Holds(returnq, At(place, 9), RowOrder)
    BY <1>6, <2>3, <2>5
  <2> QED BY <2>1, <2>4, <2>6, <2>7 DEF DramHolds
<1>9. Located(place)
  <2>1. sent = {r \in Requests : place[r] # 0} /\ answered = At(place, 12)
    BY <1>4, <1>5 DEF Init
  <2>2. NoneOvertakes(place)
    BY <1>4 DEF NoneOvertakes
  <2> QED BY <1>7, <1>8, <2>1, <2>2 DEF Located
<1>10. CreditsMatch
  <2>1. InDram = {}
    <3>1. InDram = InChannel(place)
      BY <1>2, <1>4, <1>8, InDramIsInChannel
    <3> QED BY <1>4, <3>1 DEF InChannel
  <2>2. {s \in SubPartitions : m_private_credit[s] = 1} = {} /\ m_shared_credit = 0
    BY DEF Init
  <2>3. m_shared_credit_limit # 0 => 0 <= m_shared_credit_limit
    <3>1. /\ SchedSize \in Nat /\ ReturnSize \in Nat /\ WriteSize \in Nat
          /\ SchedSize = 0 \/ ReturnSize = 0 \/ SchedSize + ReturnSize >= NSub - 1
      BY MemoryPartitionAssumption
    <3>2. CASE SchedSize = 0 \/ ReturnSize = 0
      BY <3>2 DEF m_shared_credit_limit
    <3>3. CASE SchedSize # 0 /\ ReturnSize # 0
      <4>1. SchedSize + ReturnSize - (NSub - 1) \in Nat
        BY <1>1, <3>1, <3>3
      <4>2. (IF seperate_write_queue_enabled THEN WriteSize ELSE 0) \in Nat
        BY <3>1
      <4> QED BY <4>1, <4>2 DEF m_shared_credit_limit
    <3> QED BY <3>2, <3>3
  <2>4. Cardinality({}) = 0
    BY FS_EmptySet
  <2> QED BY <2>1, <2>2, <2>3, <2>4 DEF CreditsMatch
<1> QED BY <1>2, <1>3, <1>4, <1>9, <1>10 DEF IInv

LEMMA InvNext == IInv /\ [Next]_vars => IInv'
<1> SUFFICES ASSUME IInv, [Next]_vars PROVE IInv'
  OBVIOUS
<1>1. TypeOK /\ CreditsMatch /\ RowsServed /\ Phases
  BY DEF IInv
<1> PICK place \in [Requests -> Places] : Located(place)
  BY DEF IInv
<1>2. CASE Next
  <2>1. PICK new \in [Requests -> Places] : Located(new)' /\ CreditStep(place, new)
    BY <1>1, <1>2, MoveNext
  <2>2. UNCHANGED config
    BY <1>2 DEF Next, DramStep, DramReturn, DramData, AddReq, DramSchedule, DramCommand, Arbitrate,
                DramLatency, SimpleReturn, L2Cycle, IcntCycle
  <2>3. InDram = InChannel(place) /\ InDram' = InChannel(new)
    BY <2>1, InDramIsInChannel, InDramIsInChannelNext DEF Located
  <2>4. CreditsMatch' /\ CreditTypes'
    BY <1>1, <2>1, <2>2, <2>3, CreditsStep DEF CreditTypes
  <2>5. TypeOK'
    BY <1>1, <1>2, <2>4, TypeStep
  <2>6. RowsServed' /\ Phases'
    BY <1>1, <1>2, RowsServedStep, PhasesStep
  <2> QED BY <2>1, <2>4, <2>5, <2>6 DEF IInv
<1>3. CASE UNCHANGED vars
  <2>1. /\ UNCHANGED <<config, traffic, queues, credits, m_dram_latency_queue>>
        /\ UNCHANGED <<mrqq, m_queue, m_last_row, m_mode, mrq, curr_row, rwq, returnq, phase>>
    BY <1>3 DEF vars, dram, scheduler
  <2>2. Located(place)'
    BY <2>1, NothingMoves
  <2>3. TypeOK'
    BY <1>1, <2>1 DEF TypeOK, config, traffic, queues, credits, m_private_credit_limit
  <2>4. RowsServed' /\ Phases'
    BY <1>1, <2>1 DEF RowsServed, Phases, config
  <2>5. InDram' = InDram /\ m_shared_credit_limit' = m_shared_credit_limit
    BY <2>1 DEF InDram, m_shared_credit_limit, config
  <2>6. CreditsMatch'
    BY <1>1, <2>1, <2>5 DEF CreditsMatch, credits
  <2> QED BY <2>2, <2>3, <2>4, <2>6 DEF IInv
<1> QED BY <1>2, <1>3

LEMMA InvHolds == Spec => []IInv
BY InvInit, InvNext, PTL DEF Spec

\* Every variable stays in its domain.
THEOREM TypeCorrect == Spec => []TypeOK
<1>1. IInv => TypeOK
  BY DEF IInv
<1> QED BY <1>1, InvHolds, PTL

\* return_credit() gives back as many credits, private and shared, as
\* borrow_credit() took, whichever kind it meets first, and the shared ones
\* never fall below zero or rise above their limit.
THEOREM CreditsKept == Spec => []CreditsMatch
<1>1. IInv => CreditsMatch
  BY DEF IInv
<1> QED BY <1>1, InvHolds, PTL

\* memory_sub_partition::busy() tells whether a request of the sub-partition
\* is anywhere in the partition, and which it is.
THEOREM BusyCovers == Spec => []BusyCoversRequests
<1>1. ASSUME IInv PROVE BusyCoversRequests
  <2> PICK place \in [Requests -> Places] : Located(place)
    BY <1>1 DEF IInv
  <2>1. InDram = InChannel(place)
    BY InDramIsInChannel DEF Located
  <2>2. ASSUME NEW s \in SubPartitions
        PROVE  /\ m_request_tracker[s] = InSubPartition(s) \cup {mf \in InDram : SubOf[mf] = s}
               /\ m_request_tracker[s] = {mf \in sent \ answered : SubOf[mf] = s}
    <3>1. /\ m_request_tracker[s] = {r \in Requests : place[r] \in 1..11 /\ SubOf[r] = s}
          /\ InSubPartition(s) = AtSub(place, 1, s) \cup AtSub(place, 2, s) \cup AtSub(place, 3, s)
                                   \cup AtSub(place, 10, s) \cup AtSub(place, 11, s)
      BY DEF Located, SubHolds, Holds, InSubPartition
    <3>2. \A r \in Requests : place[r] \in 1..11 <=> (place[r] \in {1, 2, 3, 10, 11} \/ place[r] \in 4..9)
      BY DEF Places
    <3>3. m_request_tracker[s] = InSubPartition(s) \cup {mf \in InDram : SubOf[mf] = s}
      BY <2>1, <3>1, <3>2 DEF AtSub, InChannel
    <3>4. \A r \in Requests : place[r] \in 1..11 <=> (place[r] # 0 /\ place[r] # 12)
      BY DEF Places
    <3>5. sent = {r \in Requests : place[r] # 0} /\ answered = {r \in Requests : place[r] = 12}
      BY DEF Located, At
    <3>6. m_request_tracker[s] = {mf \in sent \ answered : SubOf[mf] = s}
      BY <3>1, <3>4, <3>5
    <3> QED BY <3>3, <3>6
  <2> QED BY <2>2 DEF BusyCoversRequests
<1> QED BY <1>1, InvHolds, PTL

\* Two accesses to one row that share a way through the partition are answered
\* in the order in which their core sent them, whatever schedule() and the
\* other sub-partitions do in between.
THEOREM RowsInOrder == Spec => []SameRowInOrder
<1>1. ASSUME IInv PROVE SameRowInOrder
  <2> PICK place \in [Requests -> Places] : Located(place)
    BY <1>1 DEF IInv
  <2>1. ASSUME NEW x \in Requests, NEW y \in Requests,
               Kind[x] \in {"read", "write"}, Kind[y] \in {"read", "write"},
               x < y, y \in answered, QueueOf(x) = QueueOf(y), SubOf[x] = SubOf[y],
               BankOf[x] = BankOf[y], RowOf[x] = RowOf[y]
        PROVE  x \in answered
    <3>1. <<x, y>> \in RowOrder
      BY <2>1 DEF RowOrder
    <3>2. place[y] <= place[x] /\ place[y] = 12 /\ place[x] \in 0..12
      BY <2>1, <3>1 DEF Located, NoneOvertakes, At, Places
    <3>3. place[x] = 12
      BY <3>2
    <3> QED BY <3>3 DEF Located, At
  <2> QED BY <2>1 DEF SameRowInOrder
<1> QED BY <1>1, InvHolds, PTL

\* frfcfs_scheduler::add_req() finds room when the request arrives, a cycle
\* after dram_t::full() was asked: a limit of the queue that is not 0 holds.
THEOREM RoomWhenAdded == SchedSize # 0 => (Spec => []SchedulerHasRoom)
<1> SUFFICES ASSUME SchedSize # 0 PROVE Spec => []SchedulerHasRoom
  OBVIOUS
<1>1. Init => SchedulerHasRoom
  BY DEF Init, SchedulerHasRoom
<1>2. ASSUME IInv, SchedulerHasRoom, [Next]_vars PROVE SchedulerHasRoom'
  <2>1. TypeOK /\ Phases
    BY <1>2 DEF IInv
  <2>2. mrqq \in Seq(Requests) /\ m_queue \in [Modes -> Seq(Requests)]
    BY <2>1 DEF TypeOK
  <2>3. CASE UNCHANGED <<config, mrqq, m_queue>>
    BY <1>2, <2>3 DEF SchedulerHasRoom, Room, QueueOf, config
  <2>4. CASE mrqq' = <<>>
    BY <2>4 DEF SchedulerHasRoom
  <2>5. CASE AddReq
    <3>1. mrqq' = <<>>
      <4>1. mrqq # <<>> /\ Len(mrqq) <= 1 /\ mrqq' = Tail(mrqq)
        BY <2>1, <2>5 DEF AddReq, Phases
      <4>2. Tail(mrqq) = <<>>
        BY <2>2, <4>1, TailOfOne
      <4> QED BY <4>1, <4>2
    <3> QED BY <2>4, <3>1
  <2>6. CASE DramSchedule
    BY <2>4, <2>6 DEF DramSchedule
  <2>7. CASE DramLatency
    <3>1. mrqq = <<>> /\ UNCHANGED <<config, m_queue>>
      BY <2>1, <2>7 DEF Phases, DramLatency, scheduler
    <3>2. CASE UNCHANGED mrqq
      BY <2>3, <3>1, <3>2
    <3>3. CASE /\ m_dram_latency_queue # <<>> /\ ~DramFull(Head(m_dram_latency_queue))
               /\ mrqq' = Append(mrqq, Head(m_dram_latency_queue))
      <4> PICK r \in Requests : r = Head(m_dram_latency_queue)
        BY <2>1, <3>3 DEF TypeOK
      <4>1. mrqq' = <<r>> /\ Head(mrqq') = r
        BY <3>1, <3>3
      <4>2. QueueOf(r)' = QueueOf(r) /\ QueueOf(r) \in Modes
        BY <3>1, OrderStays DEF QueueOf, Modes
      <4>3. Len(m_queue[QueueOf(r)]) \in Int /\ Room(QueueOf(r)) \in Int
        BY <2>2, <4>2, MemoryPartitionAssumption DEF Room
      <4>4. Len(m_queue[QueueOf(r)]) < Room(QueueOf(r))
        BY <3>3, <4>3 DEF DramFull
      <4>5. Len(m_queue'[QueueOf(r)]) < Room(QueueOf(r))
        BY <3>1, <4>4
      <4> QED BY <4>1, <4>2, <4>5 DEF SchedulerHasRoom, Room
    <3> QED BY <2>7, <3>2, <3>3 DEF DramLatency
  <2> QED BY <1>2, <2>3, <2>5, <2>6, <2>7
       DEF Next, DramStep, DramReturn, DramData, DramCommand, Arbitrate, SimpleReturn,
           L2Cycle, IcntCycle, dram, scheduler, vars
<1> QED BY <1>1, <1>2, InvHolds, PTL DEF Spec

=============================================================================
