-------------------------- MODULE ShaderCoreProofs --------------------------
(***************************************************************************)
(* Proofs about ShaderCore, for any kernels, registers, barriers, numbers  *)
(* of warps and widths of pipelines: a fetch returns to the warp that      *)
(* waits for it, the scoreboard holds the outputs of what is in flight,    *)
(* each warp's counters are what is in flight for it and it ends before    *)
(* its warp does, every variable stays in its domain, and, for kernels     *)
(* without bar.arrive, a barrier lets nobody pass early.                   *)
(***************************************************************************)
EXTENDS ShaderCore, FiniteSetTheorems, TLAPS

\* The warps of a context that have not exited.
Alive(s) == {w \in WarpsOf(s) : ~m_done_exit[w]}

\* A context counts its warps, and is free only when all have exited.
Contexts ==
    /\ program \in Programs /\ issued_cta \in 0..Len(program)
    /\ cta_of \in [SlotIds -> 0..Len(program)] /\ m_cta_status \in [SlotIds -> Nat]
    /\ m_done_exit \in [Warps -> BOOLEAN] /\ functional_done \in [Warps -> BOOLEAN]
    /\ \A s \in SlotIds : m_cta_status[s] = Cardinality(Alive(s))
    /\ \A s \in SlotIds : cta_of[s] = 0 => Alive(s) = {}
    /\ \A w \in Warps : m_done_exit[w] => functional_done[w]

\* A warp that waits for a miss, or whose fetch has come back, has nothing to
\* issue; one that has ended has nothing at all.
Fetching ==
    /\ m_next_pc \in [Warps -> Nat] /\ m_ibuffer \in [Warps -> Seq(Nat)]
    /\ m_imiss_pending \in [Warps -> BOOLEAN] /\ m_last_warp_fetched \in Warps
    /\ m_inst_fetch_buffer \in [warp : Warps, pc : Nat] \cup {None} /\ l1i \subseteq [warp : Warps, pc : Nat]
    /\ \A w \in Warps : functional_done[w] \/ m_imiss_pending[w] => m_ibuffer[w] = <<>>
    /\ m_inst_fetch_buffer # None =>
          LET w == m_inst_fetch_buffer.warp
          IN  ~functional_done[w] /\ ~m_imiss_pending[w] /\ m_ibuffer[w] = <<>>

\* What is fetched is code of the program.
CodeOf(c, w) == program[c][(w % WarpsPerCta) + 1]
Fetched ==
    /\ pc \in [Warps -> Nat] /\ \A w \in Warps : ~functional_done[w] => pc[w] > 0
    /\ \A w \in Warps : \A j \in 1..Len(m_ibuffer[w]) : m_ibuffer[w][j] \in 0..Len(Text(w))

CoreInv == Contexts /\ Fetching /\ FetchMatchesPc /\ Fetched

\* Barriers.  Without bar.arrive a warp at a barrier waits there.
OnlySync == \A p \in Programs : \A c \in 1..Len(p), k \in 1..Len(p[1]) :
                \A j \in 1..Len(p[c][k]) : p[c][k][j].op # "arrive"

\* A warp is at one barrier at most, and then it waits.
AtBarriers ==
    /\ m_warp_active = {w \in Warps : ~functional_done[w]}
    /\ m_warp_at_barrier \subseteq m_warp_active
    /\ m_bar_id_to_warps \in [Barriers -> SUBSET m_warp_at_barrier]
    /\ \A a, b \in Barriers : a # b => m_bar_id_to_warps[a] \cap m_bar_id_to_warps[b] = {}

\* The warps of a CTA pass a barrier together.
Rounds(w, b) == IF w \in m_bar_id_to_warps[b] THEN arrivals[w][b] - 1 ELSE arrivals[w][b]
Together ==
    /\ arrivals \in [Warps -> [Barriers -> Nat]]
    /\ \A w, v \in Warps : \A b \in CtaWide :
          SlotOf(w) = SlotOf(v) /\ ~functional_done[w] /\ ~functional_done[v] => Rounds(w, b) = Rounds(v, b)

BarrierInv == CoreInv /\ AtBarriers /\ Together

-----------------------------------------------------------------------------
(* Registers.                                                               *)

Coded == {i \in Instances : i.pc \in 1..Len(CodeOf(i.cta, i.warp))}

\* The replies to come for i, and those its registers wait for.
In(bag, i) == IF i \in BagToSet(bag) THEN bag[i] ELSE 0
Answers(i) == In(l1_latency_queue, i) + In(mem, i) + One01(m_next_wb = i)
Awaited(i) == Answers(i) + (IF m_dispatch_reg = i THEN accessq ELSE 0)

\* The stages an instruction may be in.
Accessing(i) == Code(i).op \in {"load", "store", "atom"}
Staged ==
    /\ alu \subseteq Coded /\ oc \subseteq Coded
    /\ {m_dispatch_reg, smem, m_next_wb} \subseteq Coded \cup {None}
    /\ IsABag(l1_latency_queue) /\ BagToSet(l1_latency_queue) \subseteq Coded
    /\ IsABag(mem) /\ BagToSet(mem) \subseteq Coded
    /\ accessq \in Nat
    /\ \A i \in alu : Code(i).op \notin MemOps
    /\ \A i \in oc \cup ({m_dispatch_reg} \ {None}) : Code(i).op \in MemOps
    /\ m_dispatch_reg # None /\ accessq > 0 => Accessing(m_dispatch_reg)
    /\ smem # None => Code(smem).op = "shared"
    /\ \A i \in BagToSet(l1_latency_queue) \cup BagToSet(mem) : Accessing(i)
    /\ m_next_wb # None => IsLoad(m_next_wb) \/ Code(m_next_wb).op = "shared"

\* An instruction moves on from stage to stage.
Apart(i) ==
    /\ i \in oc => i # m_dispatch_reg /\ i # smem /\ Answers(i) = 0
    /\ i = smem => i # m_dispatch_reg /\ Answers(i) = 0
    /\ i = m_dispatch_reg /\ accessq = 0 => Answers(i) = 0
Separate == \A i \in InFlight : Apart(i)

\* An instruction that writes a register is of the CTA now in its context, and
\* its warp has not exited.
Owned ==
    \A i \in InFlight : Code(i).out # {} => cta_of[SlotOf(i.warp)] = i.cta /\ ~m_done_exit[i.warp]

\* No two instructions in flight write one register.
NoSharing ==
    \A i, j \in InFlight : i.warp = j.warp /\ Code(i).out \cap Code(j).out # {} => i = j

\* A register waits for the replies of the one load that will write it.
Loads(i, w, r) == i.warp = w /\ IsLoad(i) /\ r \in Code(i).out
Waits ==
    /\ m_pending_writes \in [Warps -> [Regs -> Nat]]
    /\ \A w \in Warps, r \in Regs :
          /\ \A i \in InFlight : Loads(i, w, r) => m_pending_writes[w][r] = Awaited(i)
          /\ (\A i \in InFlight : ~Loads(i, w, r)) => m_pending_writes[w][r] = 0

Reserved == reg_table \in [Warps -> SUBSET Regs] /\ ScoreboardExact /\ NoSharing

Flight == Staged /\ Separate /\ Reserved /\ Waits

-----------------------------------------------------------------------------
(* Contexts and their warps.                                                *)

LEMMA Division ==
    ASSUME NEW a \in Nat, NEW b \in Nat \ {0}
    PROVE  /\ a \div b \in 0..a /\ a % b \in 0..(b - 1)
           /\ b * (a \div b) <= a /\ a < b * (a \div b) + b
BY SMTT(30)

LEMMA Quotient ==
    ASSUME NEW a \in Nat, NEW b \in Nat \ {0}, NEW q \in Nat, b * q <= a, a < b * q + b
    PROVE  a \div b = q
BY SMTT(30)

LEMMA Monotone ==
    ASSUME NEW a \in Nat, NEW b \in Nat, NEW c \in Nat, b <= c
    PROVE  a * b \in Nat /\ a * (b + 1) = a * b + a /\ a * b <= a * c /\ (a > 0 => b <= a * b)
<1>1. c - b \in Nat /\ c = b + (c - b)
  OBVIOUS
<1>2. \A d \in Nat : a * (b + d) = a * b + a * d /\ a * d >= 0
  BY SMTT(30)
<1>3. a * c = a * b + a * (c - b) /\ a * (c - b) >= 0
  BY <1>1, <1>2
<1>4. a * b \in Nat /\ a * (b + 1) = a * b + a
  BY SMTT(30)
<1>5. a > 0 => b <= a * b
  BY SMTT(30)
<1>6. a * c \in Int /\ a * (c - b) \in Int
  OBVIOUS
<1> QED BY <1>3, <1>4, <1>5, <1>6

LEMMA IntervalSize ==
    ASSUME NEW m \in Nat, NEW k \in Nat \ {0}
    PROVE  IsFiniteSet(m..(m + k - 1)) /\ Cardinality(m..(m + k - 1)) = k
BY FS_Interval

\* The program's CTAs and their warps.
LEMMA Width ==
    ASSUME ShaderCoreAssumption, program \in Programs
    PROVE  /\ WarpsPerCta \in 1..NWarps
           /\ \A w \in Warps : /\ SlotOf(w) \in SlotIds /\ w \in WarpsOf(SlotOf(w))
                               /\ (w % WarpsPerCta) + 1 \in 1..WarpsPerCta
           /\ \A w \in Warps, s \in SlotIds : w \in WarpsOf(s) => SlotOf(w) = s
<1>1. WarpsPerCta \in 1..NWarps
  <2>1. program # <<>> /\ program \in Seq(Seq(Seq(Instructions)))
    BY DEF ShaderCoreAssumption
  <2>2. 1 \in 1..Len(program)
    BY <2>1
  <2> QED BY <2>2 DEF ShaderCoreAssumption, WarpsPerCta
<1>2. ASSUME NEW w \in Warps
      PROVE  /\ SlotOf(w) \in SlotIds /\ w \in WarpsOf(SlotOf(w))
             /\ (w % WarpsPerCta) + 1 \in 1..WarpsPerCta
  <2>1. w \in Nat /\ WarpsPerCta \in Nat \ {0} /\ NWarps \in Nat
    BY <1>1 DEF Warps, ShaderCoreAssumption
  <2>2. w \div WarpsPerCta \in 0..w /\ w % WarpsPerCta \in 0..(WarpsPerCta - 1)
    BY <2>1, Division
  <2>3. (w % WarpsPerCta) + 1 \in 1..WarpsPerCta
    BY <2>1, <2>2
  <2>4. SlotOf(w) \in SlotIds
    BY <2>1, <2>2 DEF SlotOf, SlotIds, Warps
  <2> QED BY <2>3, <2>4 DEF WarpsOf
<1> QED BY <1>1, <1>2 DEF WarpsOf

\* A context that takes a CTA has as many warps as the CTA.
LEMMA WarpsOfSlot ==
    ASSUME ShaderCoreAssumption, program \in Programs, NEW s \in 0..(Slots - 1)
    PROVE  s \in SlotIds /\ IsFiniteSet(WarpsOf(s)) /\ Cardinality(WarpsOf(s)) = WarpsPerCta
<1> DEFINE W == WarpsPerCta
<1>1. W \in Nat \ {0} /\ W <= NWarps /\ NWarps \in Nat
  <2>1. NWarps \in Nat
    BY DEF ShaderCoreAssumption
  <2>2. WarpsPerCta \in 1..NWarps
    BY Width
  <2> QED BY <2>1, <2>2
<1> HIDE DEF W
<1>2. W * (NWarps \div W) <= NWarps /\ NWarps \div W \in Nat
  <2>1. NWarps \div W \in 0..NWarps
    BY <1>1, Division
  <2>2. W * (NWarps \div W) <= NWarps
    BY <1>1, Division
  <2> QED BY <1>1, <2>1, <2>2
<1>3. s \in Nat /\ s + 1 <= NWarps \div W
  BY <1>2 DEF Slots, W
<1>4. W * s \in Nat /\ W * s + W <= NWarps
  <2> DEFINE q == NWarps \div W
  <2>1. q \in Nat /\ s + 1 \in Nat /\ s + 1 <= q /\ W * q <= NWarps
    BY <1>2, <1>3
  <2> HIDE DEF q
  <2>2. W * (s + 1) <= W * q
    BY <1>1, <2>1, Monotone
  <2>3. W * s \in Nat /\ W * (s + 1) = W * s + W
    BY <1>1, <1>3, Monotone
  <2> DEFINE n == W * q
             m == W * s
  <2>4. n \in Int /\ m + W <= n /\ n <= NWarps
    BY <1>1, <2>1, <2>2, <2>3
  <2>5. m \in Nat
    BY <2>3
  <2> HIDE DEF n, m
  <2>6. m + W <= NWarps
    BY <1>1, <2>4, <2>5
  <2> QED BY <2>5, <2>6 DEF m
<1>5. s \in SlotIds
  <2> DEFINE m == W * s
  <2>1. s <= m
    BY <1>1, <1>3, Monotone
  <2>2. m \in Nat /\ m + W <= NWarps
    BY <1>4
  <2> HIDE DEF m
  <2>3. s \in 0..(NWarps - 1)
    BY <1>1, <1>3, <2>1, <2>2
  <2> QED BY <2>3 DEF SlotIds, Warps
<1> DEFINE m == W * s
<1>6. WarpsOf(s) = m..(m + W - 1)
  <2>1. ASSUME NEW w \in Warps, w \div W = s PROVE w \in m..(m + W - 1)
    <3>1. w \in Nat
      BY <1>1 DEF Warps
    <3>2. W * (w \div W) <= w /\ w < W * (w \div W) + W
      BY <1>1, <3>1, Division
    <3>3. m <= w /\ w < m + W /\ m \in Nat
      BY <1>4, <2>1, <3>2
    <3> HIDE DEF m
    <3> QED BY <1>1, <3>1, <3>3
  <2>2. ASSUME NEW w \in m..(m + W - 1) PROVE w \in Warps /\ w \div W = s
    <3>0. m \in Nat /\ m + W <= NWarps
      BY <1>4
    <3>1. w \in Nat /\ m <= w /\ w < m + W
      <4> HIDE DEF m
      <4> QED BY <1>1, <3>0
    <3>2. w \div W = s
      BY <1>1, <1>3, <3>1, Quotient
    <3>3. w \in 0..(NWarps - 1)
      <4> HIDE DEF m
      <4> QED BY <1>1, <3>0, <3>1
    <3> QED BY <3>2, <3>3 DEF Warps
  <2> HIDE DEF m
  <2> QED BY <2>1, <2>2 DEF WarpsOf, SlotOf, W
<1>7. IsFiniteSet(m..(m + W - 1)) /\ Cardinality(m..(m + W - 1)) = W
  <2>1. m \in Nat
    BY <1>4
  <2> HIDE DEF m
  <2> QED BY <1>1, <2>1, IntervalSize
<1> QED BY <1>5, <1>6, <1>7 DEF W

-----------------------------------------------------------------------------
(* What a step leaves alone.                                                *)

LEMMA SameProgram ==
    ASSUME program' = program
    PROVE  /\ WarpsPerCta' = WarpsPerCta /\ Slots' = Slots /\ Ctas' = Ctas /\ CtaWide' = CtaWide
           /\ Coded' = Coded
           /\ \A w : SlotOf(w)' = SlotOf(w)
           /\ \A s : WarpsOf(s)' = WarpsOf(s)
           /\ \A c, w : CodeOf(c, w)' = CodeOf(c, w)
           /\ \A i : Code(i)' = Code(i) /\ IsLoad(i)' = IsLoad(i)
<1>1. WarpsPerCta' = WarpsPerCta /\ Ctas' = Ctas
  BY DEF WarpsPerCta, Ctas
<1>2. /\ Slots' = Slots /\ CtaWide' = CtaWide
      /\ \A w : SlotOf(w)' = SlotOf(w)
      /\ \A c, w : CodeOf(c, w)' = CodeOf(c, w)
      /\ \A i : Code(i)' = Code(i)
  <2>1. Slots' = Slots /\ \A w : SlotOf(w)' = SlotOf(w)
    BY <1>1 DEF Slots, SlotOf
  <2>2. CtaWide' = CtaWide
    BY <1>1 DEF CtaWide
  <2>3. \A c, w : CodeOf(c, w)' = CodeOf(c, w)
    BY <1>1 DEF CodeOf
  <2>4. \A i : Code(i)' = Code(i)
    BY <1>1 DEF Code
  <2> QED BY <2>1, <2>2, <2>3, <2>4
<1>3. \A s : WarpsOf(s)' = WarpsOf(s)
  BY <1>2, Zenon DEF WarpsOf
<1>4. Coded' = Coded /\ \A i : IsLoad(i)' = IsLoad(i)
  BY <1>1, <1>2, Zenon DEF Coded, Instances, IsLoad
<1> QED BY <1>1, <1>2, <1>3, <1>4

Backend ==
    Writeback \/ LdstIssue \/ MemoryCycle \/ L1LatencyQueueCycle \/ StoreAck \/ WritebackClient \/ LdstWriteback

LEMMA BackendFrame ==
    ASSUME Backend
    PROVE  UNCHANGED <<ctas, warp, frontend, barrier, m_done_exit, m_last_warp_fetched>>
<1> USE DEF ctas, warp, frontend, barrier
<1>1. CASE Writeback
  BY <1>1 DEF Writeback
<1>2. CASE LdstIssue
  BY <1>2 DEF LdstIssue
<1>3. CASE MemoryCycle
  BY <1>3 DEF MemoryCycle
<1>4. CASE L1LatencyQueueCycle
  BY <1>4 DEF L1LatencyQueueCycle
<1>5. CASE StoreAck
  BY <1>5 DEF StoreAck
<1>6. CASE WritebackClient
  BY <1>6 DEF WritebackClient
<1>7. CASE LdstWriteback
  BY <1>7 DEF LdstWriteback
<1> QED BY <1>1, <1>2, <1>3, <1>4, <1>5, <1>6, <1>7 DEF Backend

ContextsSame == UNCHANGED <<ctas, m_done_exit, functional_done>>

LEMMA ContextsKept ==
    ASSUME Contexts, ContextsSame
    PROVE  Contexts'
<1>1. \A s : WarpsOf(s)' = WarpsOf(s)
  BY SameProgram DEF ContextsSame, ctas
<1>2. \A s : Alive(s)' = Alive(s)
  BY <1>1, Zenon DEF Alive, ContextsSame
<1> QED BY <1>2 DEF Contexts, ContextsSame, ctas

-----------------------------------------------------------------------------
(* A context takes a CTA.                                                   *)

\* What issue_block2core does to the warps of context s and to the others.
Starts(s) ==
    /\ s \in SlotIds /\ Alive(s) = {} /\ program' = program
    /\ issued_cta' = issued_cta + 1 /\ cta_of' = [cta_of EXCEPT ![s] = issued_cta + 1]
    /\ m_cta_status' = [m_cta_status EXCEPT ![s] = WarpsPerCta]
    /\ functional_done' = [w \in Warps |-> IF w \in WarpsOf(s) THEN FALSE ELSE functional_done[w]]
    /\ m_done_exit' = [w \in Warps |-> IF w \in WarpsOf(s) THEN FALSE ELSE m_done_exit[w]]
    /\ m_imiss_pending' = [w \in Warps |-> IF w \in WarpsOf(s) THEN FALSE ELSE m_imiss_pending[w]]
    /\ m_next_pc' = [w \in Warps |-> IF w \in WarpsOf(s) THEN 1 ELSE m_next_pc[w]]
    /\ pc' = [w \in Warps |-> IF w \in WarpsOf(s) THEN 1 ELSE pc[w]]
    /\ arrivals' = [w \in Warps |-> IF w \in WarpsOf(s) THEN [b \in Barriers |-> 0] ELSE arrivals[w]]
    /\ m_warp_active' = m_warp_active \cup WarpsOf(s)
    /\ m_warp_at_barrier' = m_warp_at_barrier \ WarpsOf(s)
    /\ m_bar_id_to_warps' = [b \in Barriers |-> m_bar_id_to_warps[b] \ WarpsOf(s)]
    /\ UNCHANGED <<m_ibuffer, m_inst_fetch_buffer, l1i, m_last_warp_fetched, ldst, reg_table, alu>>

LEMMA IssueStarts ==
    ASSUME ShaderCoreAssumption, Contexts, IssueBlock2Core
    PROVE  /\ issued_cta + 1 \in 1..Len(program)
           /\ \E s \in 0..(Slots - 1) : Starts(s)
<1>1. issued_cta + 1 \in 1..Len(program)
  BY DEF Contexts, IssueBlock2Core
<1>2. PICK s \in 0..(Slots - 1) :
        /\ cta_of[s] = 0
        /\ cta_of' = [cta_of EXCEPT ![s] = issued_cta + 1]
        /\ m_cta_status' = [m_cta_status EXCEPT ![s] = WarpsPerCta]
        /\ functional_done' = [w \in Warps |-> IF w \in WarpsOf(s) THEN FALSE ELSE functional_done[w]]
        /\ m_done_exit' = [w \in Warps |-> IF w \in WarpsOf(s) THEN FALSE ELSE m_done_exit[w]]
        /\ m_imiss_pending' = [w \in Warps |-> IF w \in WarpsOf(s) THEN FALSE ELSE m_imiss_pending[w]]
        /\ m_next_pc' = [w \in Warps |-> IF w \in WarpsOf(s) THEN 1 ELSE m_next_pc[w]]
        /\ pc' = [w \in Warps |-> IF w \in WarpsOf(s) THEN 1 ELSE pc[w]]
        /\ arrivals' = [w \in Warps |-> IF w \in WarpsOf(s) THEN [b \in Barriers |-> 0] ELSE arrivals[w]]
        /\ m_warp_active' = m_warp_active \cup WarpsOf(s)
        /\ m_warp_at_barrier' = m_warp_at_barrier \ WarpsOf(s)
        /\ m_bar_id_to_warps' = [b \in Barriers |-> m_bar_id_to_warps[b] \ WarpsOf(s)]
  BY Zenon DEF IssueBlock2Core
<1>3. s \in SlotIds
  BY WarpsOfSlot DEF Contexts
<1>4. Alive(s) = {}
  BY <1>2, <1>3 DEF Contexts
<1>5. Starts(s)
  BY <1>2, <1>3, <1>4, Zenon DEF Starts, IssueBlock2Core
<1> QED BY <1>1, <1>5

LEMMA StartsContexts ==
    ASSUME ShaderCoreAssumption, Contexts, issued_cta + 1 \in 1..Len(program),
           NEW s \in 0..(Slots - 1), Starts(s)
    PROVE  Contexts'
<1>1. program' = program /\ s \in SlotIds
  BY DEF Starts
<1>2. \A x : WarpsOf(x)' = WarpsOf(x)
  BY <1>1, SameProgram
<1>3. program \in Programs
  BY DEF Contexts
<1>4. \A x \in SlotIds : \A w \in WarpsOf(x) : w \in Warps /\ (w \in WarpsOf(s) => x = s)
  BY <1>1, <1>3, Width, Zenon DEF WarpsOf
<1>5. Alive(s)' = WarpsOf(s)
  BY <1>2, <1>4, Zenon DEF Alive, Starts
<1>6. \A x \in SlotIds : x # s => Alive(x)' = Alive(x)
  BY <1>2, <1>4 DEF Alive, Starts
<1>7. m_cta_status'[s] = Cardinality(Alive(s)') /\ WarpsPerCta \in Nat
  <2>1. Cardinality(WarpsOf(s)) = WarpsPerCta
    BY <1>3, WarpsOfSlot
  <2>2. WarpsPerCta \in 1..NWarps /\ NWarps \in Nat
    BY <1>3, Width DEF ShaderCoreAssumption
  <2>3. m_cta_status'[s] = WarpsPerCta
    BY <1>1 DEF Starts, Contexts
  <2> QED BY <1>5, <2>1, <2>2, <2>3
<1>8. /\ m_cta_status' \in [SlotIds -> Nat]
      /\ cta_of' \in [SlotIds -> 0..Len(program')]
      /\ issued_cta' \in 0..Len(program')
      /\ program' \in Programs
  BY <1>1, <1>3, <1>7 DEF Contexts, Starts
<1>9. \A x \in SlotIds : /\ m_cta_status'[x] = Cardinality(Alive(x)')
                         /\ cta_of'[x] = 0 => Alive(x)' = {}
  <2>1. ASSUME NEW x \in SlotIds, x # s
        PROVE  m_cta_status'[x] = Cardinality(Alive(x)') /\ (cta_of'[x] = 0 => Alive(x)' = {})
    BY <1>6, <2>1 DEF Contexts, Starts
  <2>2. cta_of'[s] # 0
    BY <1>1 DEF Starts, Contexts
  <2> QED BY <1>7, <2>1, <2>2
<1>10. /\ m_done_exit' \in [Warps -> BOOLEAN] /\ functional_done' \in [Warps -> BOOLEAN]
       /\ \A w \in Warps : m_done_exit'[w] => functional_done'[w]
  BY DEF Contexts, Starts
<1> QED BY <1>8, <1>9, <1>10 DEF Contexts

-----------------------------------------------------------------------------
(* Warps exit.                                                              *)

\* What the exits of some warps leave: a CTA without warps goes, and with it
\* only warps that have ended.
Leaves(exits, gone) ==
    /\ m_done_exit' = [w \in Warps |-> m_done_exit[w] \/ w \in exits]
    /\ \A w \in gone : functional_done[w]
    /\ \A s \in SlotIds : cta_of'[s] = cta_of[s] \/ (cta_of'[s] = 0 /\ \A w \in WarpsOf(s) : functional_done[w])
    /\ m_warp_active' = m_warp_active \ gone
    /\ m_warp_at_barrier' = m_warp_at_barrier \ gone
    /\ m_bar_id_to_warps' = [b \in Barriers |-> m_bar_id_to_warps[b] \ gone]

LEMMA WarpsFinite ==
    ASSUME ShaderCoreAssumption
    PROVE  IsFiniteSet(Warps) /\ Cardinality(Warps) = NWarps
<1>1. NWarps \in Nat \ {0}
  BY DEF ShaderCoreAssumption
<1>2. Warps = 0..(0 + NWarps - 1)
  BY <1>1 DEF Warps
<1> QED BY <1>1, <1>2, IntervalSize

LEMMA ExitsEffect ==
    ASSUME ShaderCoreAssumption, Contexts, NEW exits \in SUBSET Warps,
           \A w \in exits : functional_done[w] /\ ~m_done_exit[w],
           RegisterExits(exits), UNCHANGED <<program, issued_cta, functional_done>>
    PROVE  Contexts' /\ \E gone \in SUBSET Warps : Leaves(exits, gone)
<1> DEFINE left(s) == m_cta_status[s] - Cardinality(exits \cap WarpsOf(s))
           over    == {s \in SlotIds : m_cta_status[s] > 0 /\ left(s) = 0}
           gone    == UNION {WarpsOf(s) : s \in over}
<1>1. /\ m_cta_status' = [s \in SlotIds |-> left(s)]
      /\ cta_of' = [s \in SlotIds |-> IF s \in over THEN 0 ELSE cta_of[s]]
      /\ m_done_exit' = [w \in Warps |-> m_done_exit[w] \/ w \in exits]
      /\ m_warp_active' = m_warp_active \ gone
      /\ m_warp_at_barrier' = m_warp_at_barrier \ gone
      /\ m_bar_id_to_warps' = [b \in Barriers |-> m_bar_id_to_warps[b] \ gone]
  BY Zenon DEF RegisterExits
<1>2. \A s : WarpsOf(s)' = WarpsOf(s)
  BY SameProgram
<1>3. ASSUME NEW s \in SlotIds
      PROVE  /\ Alive(s)' = Alive(s) \ exits
             /\ left(s) \in Nat /\ left(s) = Cardinality(Alive(s)')
             /\ s \in over => Alive(s)' = {}
  <2>1. WarpsOf(s) \subseteq Warps
    BY DEF WarpsOf
  <2>2. Alive(s)' = {w \in WarpsOf(s) : ~m_done_exit'[w]}
    BY <1>2, Zenon DEF Alive
  <2>3. Alive(s)' = Alive(s) \ exits
    BY <1>1, <2>1, <2>2 DEF Alive
  <2>4. exits \cap WarpsOf(s) = Alive(s) \cap exits
    BY DEF Alive
  <2>5. IsFiniteSet(Alive(s))
    <3>1. Alive(s) \subseteq Warps
      BY <2>1 DEF Alive
    <3> QED BY <3>1, WarpsFinite, FS_Subset
  <2>6. /\ IsFiniteSet(Alive(s) \ exits)
        /\ Cardinality(Alive(s) \ exits) = Cardinality(Alive(s)) - Cardinality(Alive(s) \cap exits)
    BY <2>5, FS_Difference
  <2>7. left(s) = Cardinality(Alive(s)')
    BY <2>3, <2>4, <2>6 DEF Contexts
  <2>8. Cardinality(Alive(s)') \in Nat
    BY <2>3, <2>6, FS_CardinalityType
  <2>9. Cardinality(Alive(s)') = 0 => Alive(s)' = {}
    BY <2>3, <2>6, FS_EmptySet
  <2> QED BY <2>3, <2>7, <2>8, <2>9
<1>4. gone \subseteq Warps /\ \A w \in gone : functional_done[w]
  <2>1. ASSUME NEW s \in over, NEW w \in WarpsOf(s) PROVE w \in Warps /\ functional_done[w]
    <3>1. w \in Warps /\ Alive(s) \ exits = {}
      BY <1>3 DEF WarpsOf
    <3>2. CASE m_done_exit[w]
      BY <3>1, <3>2 DEF Contexts
    <3>3. CASE ~m_done_exit[w]
      BY <3>1, <3>3 DEF Alive
    <3> QED BY <3>1, <3>2, <3>3
  <2> QED BY <2>1
<1>6. \A s \in SlotIds : m_cta_status'[s] = left(s) /\ cta_of'[s] = IF s \in over THEN 0 ELSE cta_of[s]
  BY <1>1, Zenon
<1>5. Leaves(exits, gone)
  <2>1. \A s \in over : \A w \in WarpsOf(s) : functional_done[w]
    BY <1>4
  <2>2. \A s \in SlotIds : cta_of'[s] = cta_of[s] \/ (cta_of'[s] = 0 /\ \A w \in WarpsOf(s) : functional_done[w])
    BY <1>6, <2>1, Zenon
  <2> QED BY <1>1, <1>4, <2>2, Zenon DEF Leaves
<1> HIDE DEF left, over, gone
<1>7. /\ m_cta_status' \in [SlotIds -> Nat]
      /\ \A s \in SlotIds : m_cta_status'[s] = Cardinality(Alive(s)')
  BY <1>1, <1>3, <1>6
<1>8. cta_of' \in [SlotIds -> 0..Len(program)]
  BY <1>1 DEF Contexts
<1>9. ASSUME NEW s \in SlotIds, cta_of'[s] = 0 PROVE Alive(s)' = {}
  <2>1. CASE s \in over
    BY <1>3, <2>1
  <2>2. CASE s \notin over
    BY <1>3, <1>6, <1>9, <2>2 DEF Contexts
  <2> QED BY <2>1, <2>2
<1>10. /\ m_done_exit' \in [Warps -> BOOLEAN]
       /\ \A w \in Warps : m_done_exit'[w] => functional_done[w]
  BY <1>1 DEF Contexts
<1>11. Contexts'
  BY <1>7, <1>8, <1>9, <1>10 DEF Contexts
<1> QED BY <1>4, <1>5, <1>11

-----------------------------------------------------------------------------
(* Fetch.                                                                   *)

LEMMA TurnType ==
    ASSUME ShaderCoreAssumption, m_last_warp_fetched \in Warps, NEW k \in 1..Cardinality(Warps)
    PROVE  Turn(k) \in Warps
<1>1. NWarps \in Nat \ {0} /\ Cardinality(Warps) = NWarps
  BY WarpsFinite DEF ShaderCoreAssumption
<1>2. m_last_warp_fetched + k \in Nat
  BY <1>1 DEF Warps
<1>3. (m_last_warp_fetched + k) % NWarps \in 0..(NWarps - 1)
  BY <1>1, <1>2, Division
<1> QED BY <1>1, <1>3 DEF Turn, Warps

\* The cases of fetch(): what it finds for the warp whose turn it is.
Misses(w) ==
    /\ l1i' = l1i \cup {FetchBuffer(w, m_next_pc[w])}
    /\ m_imiss_pending' = [m_imiss_pending EXCEPT ![w] = TRUE]
    /\ UNCHANGED m_inst_fetch_buffer
Hits(w) ==
    m_inst_fetch_buffer' = FetchBuffer(w, m_next_pc[w]) /\ UNCHANGED <<l1i, m_imiss_pending>>

LEMMA FetchCases ==
    ASSUME ShaderCoreAssumption, Contexts, Fetching, Fetch
    PROVE  /\ Contexts'
           /\ UNCHANGED <<program, issued_cta, warp, m_ibuffer, ldst, reg_table, alu, arrivals>>
           /\ \E exits, gone \in SUBSET Warps : Leaves(exits, gone) /\ \A w \in exits : HardwareDone(w) /\ reg_table[w] = {}
           /\ m_last_warp_fetched' \in Warps
           /\ \/ UNCHANGED <<l1i, m_imiss_pending, m_inst_fetch_buffer>>
              \/ \E w \in Warps : CanFetch(w) /\ (Misses(w) \/ Hits(w))
<1> DEFINE exits == {w \in Scanned : Reclaimable(w)}
<1>1. /\ RegisterExits(exits) /\ m_inst_fetch_buffer = None
      /\ UNCHANGED <<program, issued_cta, warp, m_ibuffer, ldst, reg_table, alu, arrivals>>
  BY Zenon DEF Fetch
<1>2. \/ UNCHANGED <<m_last_warp_fetched, m_imiss_pending, m_inst_fetch_buffer, l1i>>
      \/ \E k \in 1..Cardinality(Warps) :
            /\ Fetches(k) /\ m_last_warp_fetched' = Turn(k)
            /\ Misses(Turn(k)) \/ Hits(Turn(k)) \/ UNCHANGED <<l1i, m_imiss_pending, m_inst_fetch_buffer>>
  BY Zenon DEF Fetch, Misses, Hits
<1>3. \A k \in 1..Cardinality(Warps) : Turn(k) \in Warps /\ (Fetches(k) => CanFetch(Turn(k)))
  BY TurnType DEF Fetches, Fetching
<1>4. exits \subseteq Warps /\ \A w \in exits : functional_done[w] /\ ~m_done_exit[w] /\ HardwareDone(w) /\ reg_table[w] = {}
  BY <1>3 DEF Scanned, Reclaimable, HardwareDone
<1>5. UNCHANGED functional_done
  BY <1>1 DEF warp
<1>6. Contexts' /\ \E gone \in SUBSET Warps : Leaves(exits, gone)
  BY <1>1, <1>4, <1>5, ExitsEffect
<1> HIDE DEF exits
<1>7. /\ m_last_warp_fetched' \in Warps
      /\ \/ UNCHANGED <<l1i, m_imiss_pending, m_inst_fetch_buffer>>
         \/ \E w \in Warps : CanFetch(w) /\ (Misses(w) \/ Hits(w))
  BY <1>2, <1>3 DEF Fetching
<1> QED BY <1>1, <1>4, <1>6, <1>7

-----------------------------------------------------------------------------
(* Code.                                                                    *)

LEMMA CodeTyped ==
    ASSUME ShaderCoreAssumption, program \in Programs, NEW c \in Ctas, NEW w \in Warps
    PROVE  /\ CodeOf(c, w) \in Seq(Instructions)
           /\ \A j \in 1..Len(CodeOf(c, w)) :
                 LET inst == CodeOf(c, w)[j]
                 IN  /\ inst \in Instructions /\ inst.out \subseteq Regs /\ inst.n \in Nat
                     /\ inst.op = "bra" => inst.n > 0
                     /\ inst.op \in {"store", "membar"} => inst.out = {}
                     /\ inst.op = "load" => inst.out # {}
                     /\ inst.op = "atom" => inst.route = "bypass"
<1> DEFINE k == (w % WarpsPerCta) + 1
<1>1. k \in 1..WarpsPerCta /\ WarpsPerCta = Len(program[1])
  BY Width DEF WarpsPerCta
<1>2. c \in 1..Len(program) /\ program \in Seq(Seq(Seq(Instructions)))
  BY DEF Ctas, ShaderCoreAssumption
<1>3. program[c] \in Seq(Seq(Instructions)) /\ Len(program[c]) = Len(program[1])
  BY <1>2 DEF ShaderCoreAssumption
<1>4. CodeOf(c, w) = program[c][k]
  BY DEF CodeOf
<1> HIDE DEF k
<1>5. program[c][k] \in Seq(Instructions)
  BY <1>1, <1>3
<1>6. ASSUME NEW j \in 1..Len(program[c][k])
      PROVE  LET inst == program[c][k][j]
             IN  /\ inst \in Instructions /\ inst.out \subseteq Regs /\ inst.n \in Nat
                 /\ inst.op = "bra" => inst.n > 0
                 /\ inst.op \in {"store", "membar"} => inst.out = {}
                 /\ inst.op = "load" => inst.out # {}
                 /\ inst.op = "atom" => inst.route = "bypass"
  <2>1. program[c][k][j] \in Instructions
    BY <1>5
  <2>2. program[c][k][j].out \subseteq Regs /\ program[c][k][j].n \in Nat
    BY <2>1 DEF Instructions
  <2>3. LET inst == program[c][k][j]
        IN  /\ inst.op = "bra" => inst.n > 0
            /\ inst.op \in {"store", "membar"} => inst.out = {}
            /\ inst.op = "load" => inst.out # {}
            /\ inst.op = "atom" => inst.route = "bypass"
    <3>1. \A d \in 1..Len(program), k0 \in 1..Len(program[1]) : \A h \in 1..Len(program[d][k0]) :
            LET inst == program[d][k0][h]
            IN  /\ inst.op = "bra" => inst.n > 0
                /\ inst.op \in {"store", "membar"} => inst.out = {}
                /\ inst.op = "load" => inst.out # {}
                /\ inst.op = "atom" => inst.route = "bypass"
      BY Zenon DEF ShaderCoreAssumption
    <3>2. k \in 1..Len(program[1]) /\ c \in 1..Len(program)
      BY <1>1, <1>2
    <3> QED BY <3>1, <3>2, Zenon
  <2> QED BY <2>1, <2>2, <2>3
<1> QED BY <1>4, <1>5, <1>6

\* A warp that has not exited has the code of its CTA.
LEMMA HasText ==
    ASSUME ShaderCoreAssumption, Contexts, NEW w \in Warps, ~m_done_exit[w]
    PROVE  cta_of[SlotOf(w)] \in Ctas /\ Text(w) = CodeOf(cta_of[SlotOf(w)], w)
<1>1. SlotOf(w) \in SlotIds /\ w \in WarpsOf(SlotOf(w))
  BY Width DEF Contexts
<1>2. cta_of[SlotOf(w)] # 0 /\ cta_of[SlotOf(w)] \in 0..Len(program)
  BY <1>1 DEF Contexts, Alive
<1> QED BY <1>2 DEF Ctas, Text, CodeOf

-----------------------------------------------------------------------------
(* Fetches.                                                                 *)

LEMMA FetchInit ==
    ASSUME ShaderCoreAssumption, Init PROVE CoreInv
<1>1. NWarps \in Nat \ {0} /\ 0 \in Warps
  BY DEF ShaderCoreAssumption, Warps
<1>2. \A s \in SlotIds : Alive(s) = {}
  BY DEF Alive, Init, WarpsOf
<1>3. Contexts
  <2>1. Len(program) \in Nat /\ program \in Programs
    BY DEF Init, ShaderCoreAssumption
  <2>2. \A s \in SlotIds : m_cta_status[s] = Cardinality(Alive(s))
    BY <1>2, FS_EmptySet DEF Init
  <2> QED BY <1>2, <2>1, <2>2 DEF Contexts, Init
<1>4. Fetching /\ FetchMatchesPc
  BY <1>1 DEF Fetching, FetchMatchesPc, Init
<1>5. Fetched
  BY DEF Fetched, Init
<1> QED BY <1>3, <1>4, <1>5 DEF CoreInv

FetchVars == <<m_next_pc, m_ibuffer, m_imiss_pending, m_inst_fetch_buffer, l1i>>

LEMMA FetchKept ==
    ASSUME Fetching, FetchMatchesPc, UNCHANGED <<functional_done, FetchVars>>, m_last_warp_fetched' \in Warps
    PROVE  Fetching' /\ FetchMatchesPc'
BY DEF Fetching, FetchMatchesPc, FetchVars

LEMMA FetchStarts ==
    ASSUME Contexts, Fetching, FetchMatchesPc, NEW s, Starts(s)
    PROVE  Fetching' /\ FetchMatchesPc'
<1>1. \A w \in Warps : w \in WarpsOf(s) => m_done_exit[w] /\ functional_done[w]
  BY DEF Contexts, Starts, Alive
<1>2. \A w \in Warps :
         /\ functional_done'[w] = (w \notin WarpsOf(s) /\ functional_done[w])
         /\ m_imiss_pending'[w] = (w \notin WarpsOf(s) /\ m_imiss_pending[w])
         /\ m_next_pc'[w] = IF w \in WarpsOf(s) THEN 1 ELSE m_next_pc[w]
  BY DEF Starts, Contexts, Fetching
<1>3. /\ m_next_pc' \in [Warps -> Nat] /\ m_imiss_pending' \in [Warps -> BOOLEAN]
      /\ UNCHANGED <<m_ibuffer, m_inst_fetch_buffer, l1i, m_last_warp_fetched>>
  BY DEF Starts, Fetching
<1>4. Fetching'
  BY <1>1, <1>2, <1>3 DEF Fetching
<1>5. FetchMatchesPc'
  BY <1>1, <1>2, <1>3 DEF Fetching, FetchMatchesPc
<1> QED BY <1>4, <1>5

LEMMA FetchStep ==
    ASSUME ShaderCoreAssumption, Contexts, Fetching, FetchMatchesPc, Fetch
    PROVE  Contexts' /\ Fetching' /\ FetchMatchesPc'
<1>1. /\ Contexts' /\ m_last_warp_fetched' \in Warps
      /\ UNCHANGED <<functional_done, m_next_pc, m_ibuffer>>
      /\ \/ UNCHANGED <<l1i, m_imiss_pending, m_inst_fetch_buffer>>
         \/ \E w \in Warps : CanFetch(w) /\ (Misses(w) \/ Hits(w))
  BY FetchCases DEF warp
<1>2. m_inst_fetch_buffer = None
  BY DEF Fetch
<1>3. CASE UNCHANGED <<l1i, m_imiss_pending, m_inst_fetch_buffer>>
  BY <1>1, <1>3, FetchKept DEF FetchVars
<1>4. ASSUME NEW w \in Warps, CanFetch(w), Misses(w) \/ Hits(w) PROVE Fetching' /\ FetchMatchesPc'
  <2>1. ~functional_done[w] /\ ~m_imiss_pending[w] /\ m_ibuffer[w] = <<>>
    BY <1>4 DEF CanFetch
  <2>2. FetchBuffer(w, m_next_pc[w]) = [warp |-> w, pc |-> m_next_pc[w]] /\ m_next_pc[w] \in Nat
    BY DEF FetchBuffer, Fetching
  <2>3. CASE Misses(w)
    <3>1. Fetching'
      BY <1>1, <1>2, <2>1, <2>2, <2>3 DEF Misses, Fetching
    <3>2. FetchMatchesPc'
      BY <1>1, <2>1, <2>2, <2>3 DEF Misses, Fetching, FetchMatchesPc
    <3> QED BY <3>1, <3>2
  <2>4. CASE Hits(w)
    <3>1. Fetching'
      BY <1>1, <1>2, <2>1, <2>2, <2>4 DEF Hits, Fetching
    <3>2. FetchMatchesPc'
      BY <1>1, <2>4 DEF Hits, FetchMatchesPc
    <3> QED BY <3>1, <3>2
  <2> QED BY <1>4, <2>3, <2>4
<1> QED BY <1>1, <1>3, <1>4

LEMMA FetchReplyStep ==
    ASSUME ShaderCoreAssumption, Fetching, FetchMatchesPc, FetchReply
    PROVE  Fetching' /\ FetchMatchesPc'
<1>1. PICK r \in l1i :
        /\ l1i' = l1i \ {r}
        /\ m_imiss_pending' = [m_imiss_pending EXCEPT ![r.warp] = FALSE]
        /\ m_inst_fetch_buffer' = [warp |-> r.warp, pc |-> m_next_pc[r.warp]]
  BY DEF FetchReply, FetchBuffer
<1>2. UNCHANGED <<functional_done, m_next_pc, m_ibuffer, m_last_warp_fetched>>
  BY DEF FetchReply, warp
<1>3. r.warp \in Warps /\ m_imiss_pending[r.warp] /\ ~functional_done[r.warp] /\ m_next_pc[r.warp] \in Nat
  BY <1>1 DEF Fetching, FetchMatchesPc
<1>4. m_ibuffer[r.warp] = <<>>
  BY <1>3 DEF Fetching
<1>5. Fetching'
  BY <1>1, <1>2, <1>3, <1>4 DEF Fetching
<1>6. FetchMatchesPc'
  BY <1>1, <1>2, <1>3 DEF Fetching, FetchMatchesPc
<1> QED BY <1>5, <1>6

\* decode() fills the buffer of the warp whose fetch came back.
Fill(w, at) == IF at > Len(Text(w)) THEN <<0>> ELSE IF at = Len(Text(w)) THEN <<at>> ELSE <<at, at + 1>>

LEMMA DecodeEffect ==
    ASSUME Fetching, Decode
    PROVE  \E w \in Warps, at \in Nat :
             /\ ~functional_done[w] /\ ~m_imiss_pending[w]
             /\ m_ibuffer' = [m_ibuffer EXCEPT ![w] = Fill(w, at)] /\ Fill(w, at) \in Seq(Nat)
             /\ m_inst_fetch_buffer' = None
             /\ UNCHANGED <<ctas, warp, barrier, ldst, m_imiss_pending, l1i, m_done_exit, m_last_warp_fetched,
                            reg_table, alu>>
<1> DEFINE w == m_inst_fetch_buffer.warp
           at == m_inst_fetch_buffer.pc
<1>1. /\ w \in Warps /\ at \in Nat /\ ~functional_done[w] /\ ~m_imiss_pending[w]
  BY DEF Decode, Fetching
<1>2. /\ m_ibuffer' = [m_ibuffer EXCEPT ![w] = Fill(w, at)] /\ m_inst_fetch_buffer' = None
      /\ UNCHANGED <<ctas, warp, barrier, ldst, m_imiss_pending, l1i, m_done_exit, m_last_warp_fetched, reg_table, alu>>
  BY Zenon DEF Decode, Fill
<1> HIDE DEF w, at
<1>3. Fill(w, at) \in Seq(Nat)
  BY <1>1 DEF Fill
<1> QED BY <1>1, <1>2, <1>3

LEMMA DecodeStep ==
    ASSUME Fetching, FetchMatchesPc, Decode
    PROVE  Fetching' /\ FetchMatchesPc'
<1>1. PICK w \in Warps, at \in Nat :
        /\ ~functional_done[w] /\ ~m_imiss_pending[w]
        /\ m_ibuffer' = [m_ibuffer EXCEPT ![w] = Fill(w, at)] /\ Fill(w, at) \in Seq(Nat)
        /\ m_inst_fetch_buffer' = None
        /\ UNCHANGED <<ctas, warp, barrier, ldst, m_imiss_pending, l1i, m_done_exit, m_last_warp_fetched, reg_table, alu>>
  BY DecodeEffect
<1>2. UNCHANGED <<functional_done, m_next_pc, m_imiss_pending, l1i, m_last_warp_fetched>>
  BY <1>1 DEF warp
<1>3. Fetching'
  BY <1>1, <1>2 DEF Fetching
<1>4. FetchMatchesPc'
  BY <1>2 DEF FetchMatchesPc
<1> QED BY <1>3, <1>4

\* A warp that has something to issue waits for no fetch.
LEMMA NotFetching ==
    ASSUME Contexts, Fetching, FetchMatchesPc, NEW w \in Warps, CanTest(w)
    PROVE  /\ ~m_imiss_pending[w] /\ ~functional_done[w] /\ ~m_done_exit[w]
           /\ m_ibuffer[w] # <<>> /\ m_ibuffer[w] \in Seq(Nat)
           /\ \A r \in l1i : r.warp # w
           /\ m_inst_fetch_buffer # None => m_inst_fetch_buffer.warp # w
BY DEF CanTest, Waiting, Fetching, FetchMatchesPc

LEMMA HazardStep ==
    ASSUME Contexts, Fetching, FetchMatchesPc, NEW w \in Warps, ControlHazard(w),
           pc[w] \in Nat
    PROVE  Fetching' /\ FetchMatchesPc'
<1>1. /\ m_next_pc' = [m_next_pc EXCEPT ![w] = pc[w]] /\ m_ibuffer' = [m_ibuffer EXCEPT ![w] = <<>>]
      /\ UNCHANGED <<functional_done, m_imiss_pending, m_inst_fetch_buffer, l1i, m_last_warp_fetched>>
  BY DEF ControlHazard
<1>2. /\ ~m_imiss_pending[w] /\ \A r \in l1i : r.warp # w
      /\ m_inst_fetch_buffer # None => m_inst_fetch_buffer.warp # w
  BY NotFetching DEF ControlHazard
<1>3. Fetching'
  BY <1>1, <1>2 DEF Fetching
<1>4. FetchMatchesPc'
  BY <1>1, <1>2 DEF Fetching, FetchMatchesPc
<1> QED BY <1>3, <1>4

LEMMA IssueWarpStep ==
    ASSUME Contexts, Fetching, FetchMatchesPc, NEW w \in Warps, IssueWarp(w),
           pc[w] \in Nat
    PROVE  Contexts' /\ Fetching' /\ FetchMatchesPc'
<1> DEFINE exit == Text(w)[pc[w]].op = "exit"
<1>1. /\ m_next_pc' = [m_next_pc EXCEPT ![w] = pc[w] + 1]
      /\ m_ibuffer' = [m_ibuffer EXCEPT ![w] = IF exit THEN <<>> ELSE Tail(m_ibuffer[w])]
      /\ functional_done' = [functional_done EXCEPT ![w] = exit]
      /\ UNCHANGED <<ctas, m_done_exit, m_imiss_pending, m_inst_fetch_buffer, l1i, m_last_warp_fetched>>
  BY Zenon DEF IssueWarp
<1>2. /\ ~m_imiss_pending[w] /\ ~functional_done[w] /\ ~m_done_exit[w] /\ \A r \in l1i : r.warp # w
      /\ m_inst_fetch_buffer # None => m_inst_fetch_buffer.warp # w
      /\ m_ibuffer[w] # <<>> /\ m_ibuffer[w] \in Seq(Nat)
  BY NotFetching DEF IssueWarp
<1>3. exit \in BOOLEAN /\ Tail(m_ibuffer[w]) \in Seq(Nat)
  BY <1>2
<1> HIDE DEF exit
<1>4. Contexts'
  <2>1. \A s : WarpsOf(s)' = WarpsOf(s)
    BY <1>1, SameProgram DEF ctas
  <2>2. \A s : Alive(s)' = Alive(s)
    BY <1>1, <2>1, Zenon DEF Alive
  <2> QED BY <1>1, <1>2, <1>3, <2>2 DEF Contexts, ctas
<1>5. /\ m_next_pc' \in [Warps -> Nat] /\ m_ibuffer' \in [Warps -> Seq(Nat)]
      /\ functional_done' \in [Warps -> BOOLEAN]
  BY <1>1, <1>3 DEF Fetching, Contexts
<1>6. \A v \in Warps : v # w => /\ m_next_pc'[v] = m_next_pc[v] /\ m_ibuffer'[v] = m_ibuffer[v]
                                /\ functional_done'[v] = functional_done[v]
  BY <1>1 DEF Fetching, Contexts
<1>7. functional_done'[w] => m_ibuffer'[w] = <<>>
  BY <1>1 DEF Fetching, Contexts
<1>8. Fetching'
  BY <1>1, <1>2, <1>5, <1>6, <1>7 DEF Fetching
<1>9. FetchMatchesPc'
  BY <1>1, <1>2, <1>6 DEF Fetching, FetchMatchesPc
<1> QED BY <1>4, <1>8, <1>9

-----------------------------------------------------------------------------
(* Code that is fetched.                                                    *)

\* The warps whose code may change have nothing fetched.
LEMMA FetchedKept ==
    ASSUME Fetched, UNCHANGED <<program, m_ibuffer, pc, functional_done>>, Fetching,
           \A w \in Warps : cta_of'[SlotOf(w)] = cta_of[SlotOf(w)] \/ functional_done[w]
    PROVE  Fetched'
<1>1. ASSUME NEW w \in Warps, NEW j \in 1..Len(m_ibuffer[w]) PROVE Text(w)' = Text(w)
  <2>1. m_ibuffer[w] # <<>>
    BY <1>1
  <2>2. cta_of'[SlotOf(w)] = cta_of[SlotOf(w)]
    BY <2>1 DEF Fetching
  <2>3. WarpsPerCta' = WarpsPerCta /\ SlotOf(w)' = SlotOf(w)
    BY SameProgram
  <2> QED BY <2>2, <2>3, Zenon DEF Text
<1>2. ASSUME NEW w \in Warps, NEW j \in 1..Len(m_ibuffer'[w])
      PROVE  m_ibuffer'[w][j] \in 0..Len(Text(w)')
  <2>1. m_ibuffer' = m_ibuffer
    OBVIOUS
  <2>2. Text(w)' = Text(w)
    BY <1>1, <2>1
  <2>3. m_ibuffer[w][j] \in 0..Len(Text(w))
    BY <2>1 DEF Fetched
  <2> QED BY <2>1, <2>2, <2>3
<1>3. pc' \in [Warps -> Nat] /\ \A w \in Warps : ~functional_done'[w] => pc'[w] > 0
  BY DEF Fetched
<1> QED BY <1>2, <1>3 DEF Fetched

LEMMA FetchedStarts ==
    ASSUME ShaderCoreAssumption, Contexts, Fetching, Fetched, NEW s, Starts(s)
    PROVE  Fetched'
<1>1. /\ program' = program /\ program \in Programs /\ s \in SlotIds
      /\ m_ibuffer' = m_ibuffer
      /\ pc' = [w \in Warps |-> IF w \in WarpsOf(s) THEN 1 ELSE pc[w]]
      /\ functional_done' = [w \in Warps |-> IF w \in WarpsOf(s) THEN FALSE ELSE functional_done[w]]
      /\ cta_of' = [cta_of EXCEPT ![s] = issued_cta + 1]
  BY DEF Starts, Contexts
<1>2. pc' \in [Warps -> Nat] /\ \A w \in Warps : ~functional_done'[w] => pc'[w] > 0
  BY <1>1 DEF Fetched
<1>3. ASSUME NEW w \in Warps, NEW j \in 1..Len(m_ibuffer[w]) PROVE Text(w)' = Text(w)
  <2>1. w \notin WarpsOf(s)
    <3>1. ~functional_done[w]
      BY <1>3 DEF Fetching
    <3>2. ~m_done_exit[w]
      BY <3>1 DEF Contexts
    <3> QED BY <3>2 DEF Starts, Alive
  <2>2. SlotOf(w) \in SlotIds /\ SlotOf(w) # s /\ w \in WarpsOf(SlotOf(w))
    BY <1>1, <2>1, Width
  <2>3. cta_of'[SlotOf(w)] = cta_of[SlotOf(w)]
    BY <1>1, <2>2 DEF Contexts
  <2>4. WarpsPerCta' = WarpsPerCta /\ SlotOf(w)' = SlotOf(w)
    BY <1>1, SameProgram
  <2> QED BY <1>1, <2>3, <2>4, Zenon DEF Text
<1>4. ASSUME NEW w \in Warps, NEW j \in 1..Len(m_ibuffer'[w])
      PROVE  m_ibuffer'[w][j] \in 0..Len(Text(w)')
  <2>1. Text(w)' = Text(w) /\ m_ibuffer'[w][j] = m_ibuffer[w][j] /\ j \in 1..Len(m_ibuffer[w])
    BY <1>1, <1>3, <1>4
  <2> QED BY <2>1 DEF Fetched
<1> QED BY <1>2, <1>4 DEF Fetched

\* Steps that change the buffer of one warp and no CTA.
LEMMA FetchedOther ==
    ASSUME Fetched, UNCHANGED ctas, NEW w \in Warps, m_ibuffer \in [Warps -> Seq(Nat)],
           pc' \in [Warps -> Nat], \A v \in Warps : ~functional_done'[v] => pc'[v] > 0,
           NEW q \in Seq(Nat), m_ibuffer' = [m_ibuffer EXCEPT ![w] = q],
           \A j \in 1..Len(q) : q[j] \in 0..Len(Text(w))
    PROVE  Fetched'
<1>1. \A v \in Warps : Text(v)' = Text(v)
  <2>1. program' = program /\ cta_of' = cta_of
    BY DEF ctas
  <2>2. \A v \in Warps : SlotOf(v)' = SlotOf(v) /\ WarpsPerCta' = WarpsPerCta
    BY <2>1, SameProgram
  <2> QED BY <2>1, <2>2, Zenon DEF Text
<1>2. ASSUME NEW v \in Warps, NEW j \in 1..Len(m_ibuffer'[v])
      PROVE  m_ibuffer'[v][j] \in 0..Len(Text(v))
  <2>1. CASE v = w
    BY <1>2, <2>1
  <2>2. CASE v # w
    BY <1>2, <2>2 DEF Fetched
  <2> QED BY <2>1, <2>2
<1>3. ASSUME NEW v \in Warps, NEW j \in 1..Len(m_ibuffer'[v])
      PROVE  m_ibuffer'[v][j] \in 0..Len(Text(v)')
  BY <1>1, <1>2, <1>3
<1> QED BY <1>3 DEF Fetched

LEMMA FetchedDecode ==
    ASSUME ShaderCoreAssumption, Contexts, Fetching, Fetched, Decode
    PROVE  Fetched'
<1>1. PICK w \in Warps, at \in Nat :
        /\ ~functional_done[w] /\ ~m_imiss_pending[w]
        /\ m_ibuffer' = [m_ibuffer EXCEPT ![w] = Fill(w, at)] /\ Fill(w, at) \in Seq(Nat)
        /\ m_inst_fetch_buffer' = None
        /\ UNCHANGED <<ctas, warp, barrier, ldst, m_imiss_pending, l1i, m_done_exit, m_last_warp_fetched, reg_table, alu>>
  BY DecodeEffect
<1>2. Text(w) \in Seq(Instructions) /\ program \in Programs
  <2>1. ~m_done_exit[w] /\ program \in Programs
    BY <1>1 DEF Contexts
  <2>2. cta_of[SlotOf(w)] \in Ctas /\ Text(w) = CodeOf(cta_of[SlotOf(w)], w)
    BY <2>1, HasText
  <2>3. CodeOf(cta_of[SlotOf(w)], w) \in Seq(Instructions)
    BY <2>1, <2>2, CodeTyped
  <2> QED BY <2>1, <2>2, <2>3
<1>3. \A j \in 1..Len(Fill(w, at)) : Fill(w, at)[j] \in 0..Len(Text(w))
  <2> DEFINE len == Len(Text(w))
  <2>1. len \in Nat
    BY <1>2
  <2>2. Fill(w, at) = IF at > len THEN <<0>> ELSE IF at = len THEN <<at>> ELSE <<at, at + 1>>
    BY DEF Fill
  <2> HIDE DEF len
  <2>3. \A j \in 1..Len(Fill(w, at)) : Fill(w, at)[j] \in 0..len
    BY <2>1, <2>2
  <2> QED BY <2>3 DEF len
<1>4. UNCHANGED <<ctas, pc, functional_done>>
  BY <1>1 DEF warp
<1> QED BY <1>1, <1>3, <1>4, FetchedOther DEF Fetching, Fetched

\* What a warp issues is an instruction of its code.
\* The instances warp w may issue.
Numbered(w, u) == [cta |-> cta_of[SlotOf(w)], warp |-> w, pc |-> pc[w], uid |-> u]

LEMMA Issued ==
    ASSUME ShaderCoreAssumption, Contexts, Fetching, FetchMatchesPc, Fetched, NEW w \in Warps, IssueWarp(w)
    PROVE  LET inst == Text(w)[pc[w]]
               c    == cta_of[SlotOf(w)]
           IN  /\ \A u \in Nat : /\ Numbered(w, u) \in Coded /\ Numbered(w, u).warp = w /\ Numbered(w, u).cta = c
                                 /\ Code(Numbered(w, u)) = inst
               /\ inst = program[c][(w % WarpsPerCta) + 1][pc[w]]
               /\ pc[w] \in Nat \ {0} /\ c \in Ctas /\ pc[w] \in 1..Len(CodeOf(c, w))
               /\ inst \in Instructions /\ inst.out \subseteq Regs /\ inst.n \in Nat
               /\ inst.op = "bra" => inst.n > 0
               /\ inst.op \in {"store", "membar"} => inst.out = {}
<1> DEFINE c == cta_of[SlotOf(w)]
<1>1. /\ ~functional_done[w] /\ ~m_done_exit[w] /\ m_ibuffer[w] # <<>> /\ m_ibuffer[w] \in Seq(Nat)
      /\ Head(m_ibuffer[w]) = pc[w]
  BY NotFetching DEF IssueWarp
<1>2. c \in Ctas /\ Text(w) = CodeOf(c, w) /\ program \in Programs
  BY <1>1, HasText DEF Contexts
<1>3. pc[w] \in 1..Len(Text(w)) /\ pc[w] \in Nat \ {0}
  <2>1. 1 \in 1..Len(m_ibuffer[w]) /\ Head(m_ibuffer[w]) = m_ibuffer[w][1]
    BY <1>1
  <2>2. pc[w] \in 0..Len(Text(w)) /\ pc[w] > 0 /\ pc[w] \in Nat
    BY <1>1, <2>1 DEF Fetched
  <2>3. Len(Text(w)) \in Nat
    BY <1>2, CodeTyped
  <2> QED BY <2>2, <2>3
<1>4. Text(w)[pc[w]] = program[c][(w % WarpsPerCta) + 1][pc[w]]
  BY DEF Text
<1>5. ASSUME NEW u \in Nat
      PROVE  Numbered(w, u) \in Coded /\ Numbered(w, u).warp = w /\ Numbered(w, u).cta = c /\ Code(Numbered(w, u)) = Text(w)[pc[w]]
  <2>1. Numbered(w, u).warp = w /\ Numbered(w, u).cta = c /\ Numbered(w, u).pc = pc[w]
    BY DEF Numbered
  <2>2. Numbered(w, u) \in Instances
    BY <1>2, <1>3 DEF Numbered, Instances
  <2> HIDE DEF c
  <2>3. Numbered(w, u) \in Coded
    BY <1>2, <1>3, <2>1, <2>2 DEF Coded
  <2> QED BY <1>4, <2>1, <2>3 DEF Code
<1> HIDE DEF c
<1>6. LET inst == Text(w)[pc[w]]
      IN  /\ inst \in Instructions /\ inst.out \subseteq Regs /\ inst.n \in Nat
          /\ inst.op = "bra" => inst.n > 0
          /\ inst.op \in {"store", "membar"} => inst.out = {}
  <2>1. \A j \in 1..Len(CodeOf(c, w)) :
           LET inst == CodeOf(c, w)[j]
           IN  /\ inst \in Instructions /\ inst.out \subseteq Regs /\ inst.n \in Nat
               /\ inst.op = "bra" => inst.n > 0
               /\ inst.op \in {"store", "membar"} => inst.out = {}
    BY <1>2, CodeTyped
  <2> QED BY <1>2, <1>3, <2>1, Zenon
<1> QED BY <1>2, <1>3, <1>4, <1>5, <1>6, Zenon DEF c

\* There is always a number for what a warp issues that none in flight has.
LEMMA Fresh ==
    ASSUME IsFiniteSet(InFlight), NEW w
    PROVE  \E u \in Nat : Instance(w) = Numbered(w, u) /\ Numbered(w, u) \notin InFlight
<1>1. PICK N \in Nat : N = Cardinality(InFlight)
  BY FS_CardinalityType
<1> DEFINE free == CHOOSE u \in 0..N : Numbered(w, u) \notin InFlight
<1>2. \A u, v : Numbered(w, u) = Numbered(w, v) => u = v
  BY DEF Numbered
<1>3. \E u \in 0..N : Numbered(w, u) \notin InFlight
  <2>1. SUFFICES ASSUME \A u \in 0..N : Numbered(w, u) \in InFlight PROVE FALSE
    OBVIOUS
  <2> DEFINE f == [u \in 0..N |-> Numbered(w, u)]
  <2>2. f \in [0..N -> InFlight]
    BY <2>1
  <2>3. IsFiniteSet(0..N) /\ Cardinality(InFlight) < Cardinality(0..N)
    BY <1>1, FS_Interval
  <2> HIDE DEF f
  <2>4. \E u, v \in 0..N : u # v /\ f[u] = f[v]
    BY <2>2, <2>3, FS_PigeonHole, Zenon
  <2> QED BY <1>2, <2>4 DEF f
<1>4. free \in 0..N /\ Numbered(w, free) \notin InFlight
  BY <1>3
<1>5. Instance(w) = Numbered(w, free)
  BY <1>1, Zenon DEF Instance, Numbered
<1> HIDE DEF free
<1> QED BY <1>1, <1>4, <1>5

LEMMA FetchedIssue ==
    ASSUME ShaderCoreAssumption, Contexts, Fetching, FetchMatchesPc, Fetched, NEW w \in Warps, IssueWarp(w)
    PROVE  Fetched'
<1> DEFINE inst == Text(w)[pc[w]]
           exit == inst.op = "exit"
           q    == IF exit THEN <<>> ELSE Tail(m_ibuffer[w])
           next == IF inst.op = "bra" THEN inst.n ELSE pc[w] + 1
<1>1. /\ m_ibuffer' = [m_ibuffer EXCEPT ![w] = q] /\ pc' = [pc EXCEPT ![w] = next]
      /\ functional_done' = [functional_done EXCEPT ![w] = exit] /\ UNCHANGED ctas
  BY Zenon DEF IssueWarp, ctas
<1>2. next \in Nat \ {0}
  <2>1. inst.n \in Nat /\ (inst.op = "bra" => inst.n > 0) /\ pc[w] \in Nat \ {0}
    BY Issued, Zenon
  <2> HIDE DEF inst
  <2> QED BY <2>1
<1>3. m_ibuffer[w] # <<>> /\ m_ibuffer[w] \in Seq(Nat)
  BY NotFetching DEF IssueWarp
<1>4. q \in Seq(Nat) /\ \A j \in 1..Len(q) : q[j] \in 0..Len(Text(w))
  <2>1. Tail(m_ibuffer[w]) \in Seq(Nat)
        /\ \A j \in 1..Len(Tail(m_ibuffer[w])) :
              j + 1 \in 1..Len(m_ibuffer[w]) /\ Tail(m_ibuffer[w])[j] = m_ibuffer[w][j + 1]
    BY <1>3
  <2>2. \A j \in 1..Len(m_ibuffer[w]) : m_ibuffer[w][j] \in 0..Len(Text(w))
    BY DEF Fetched
  <2>3. CASE exit
    BY <2>3
  <2>4. CASE ~exit
    BY <2>1, <2>2, <2>4
  <2> QED BY <2>3, <2>4
<1> HIDE DEF q, next, exit
<1>5. pc' \in [Warps -> Nat] /\ \A v \in Warps : ~functional_done'[v] => pc'[v] > 0
  BY <1>1, <1>2 DEF Fetched, Contexts
<1> QED BY <1>1, <1>4, <1>5, FetchedOther DEF Fetching

-----------------------------------------------------------------------------
(* The core's invariant.                                                    *)

LEMMA CoreStep ==
    ASSUME ShaderCoreAssumption, CoreInv, [Next]_vars
    PROVE  CoreInv'
<1>1. Contexts /\ Fetching /\ FetchMatchesPc /\ Fetched
  BY DEF CoreInv
<1>2. CASE IssueBlock2Core
  <2>1. PICK s \in 0..(Slots - 1) : Starts(s)
    BY <1>1, <1>2, IssueStarts
  <2>2. issued_cta + 1 \in 1..Len(program)
    BY <1>1, <1>2, IssueStarts
  <2>3. Contexts'
    BY <1>1, <2>1, <2>2, StartsContexts
  <2>4. Fetching' /\ FetchMatchesPc'
    BY <1>1, <2>1, FetchStarts
  <2>5. Fetched'
    BY <1>1, <2>1, FetchedStarts
  <2> QED BY <2>3, <2>4, <2>5 DEF CoreInv
<1>3. CASE FetchReply
  <2>1. UNCHANGED <<ctas, warp, m_ibuffer, m_done_exit>>
    BY <1>3 DEF FetchReply
  <2>2. UNCHANGED <<program, cta_of, pc, functional_done, m_ibuffer>> /\ ContextsSame
    BY <2>1 DEF ctas, warp, ContextsSame
  <2>3. Contexts'
    BY <1>1, <2>2, ContextsKept
  <2>4. Fetching' /\ FetchMatchesPc'
    BY <1>1, <1>3, FetchReplyStep
  <2>5. Fetched'
    BY <1>1, <2>2, FetchedKept
  <2> QED BY <2>3, <2>4, <2>5 DEF CoreInv
<1>4. CASE Fetch
  <2>1. Contexts' /\ Fetching' /\ FetchMatchesPc'
    BY <1>1, <1>4, FetchStep
  <2>2. UNCHANGED <<program, issued_cta, warp, m_ibuffer, ldst, reg_table, alu, arrivals>>
    BY <1>1, <1>4, FetchCases
  <2>3. PICK exits, gone \in SUBSET Warps : Leaves(exits, gone)
    BY <1>1, <1>4, FetchCases
  <2>4. \A w \in Warps : cta_of'[SlotOf(w)] = cta_of[SlotOf(w)] \/ functional_done[w]
    <3>1. \A w \in Warps : SlotOf(w) \in SlotIds /\ w \in WarpsOf(SlotOf(w))
      BY <1>1, Width DEF Contexts
    <3> QED BY <2>3, <3>1, Zenon DEF Leaves
  <2>5. Fetched'
    BY <1>1, <2>2, <2>4, FetchedKept DEF warp
  <2> QED BY <2>1, <2>5 DEF CoreInv
<1>5. CASE Decode
  <2>1. ContextsSame
    BY <1>5 DEF Decode, ContextsSame, warp
  <2>2. Contexts'
    BY <1>1, <2>1, ContextsKept
  <2>3. Fetching' /\ FetchMatchesPc'
    BY <1>1, <1>5, DecodeStep
  <2>4. Fetched'
    BY <1>1, <1>5, FetchedDecode
  <2> QED BY <2>2, <2>3, <2>4 DEF CoreInv
<1>6. ASSUME NEW w \in Warps, MembarDone(w) PROVE CoreInv'
  <2>1. UNCHANGED <<ctas, pc, functional_done, m_next_pc, frontend, m_done_exit, m_last_warp_fetched>>
    BY <1>6 DEF MembarDone
  <2>2. ContextsSame /\ UNCHANGED <<program, cta_of, m_ibuffer, pc, functional_done, FetchVars>>
        /\ m_last_warp_fetched' \in Warps
    BY <1>1, <2>1 DEF ContextsSame, ctas, frontend, FetchVars, Fetching
  <2>3. Contexts' /\ Fetching' /\ FetchMatchesPc'
    BY <1>1, <2>2, ContextsKept, FetchKept
  <2>4. Fetched'
    BY <1>1, <2>2, FetchedKept
  <2> QED BY <2>3, <2>4 DEF CoreInv
<1>7. ASSUME NEW w \in Warps, ControlHazard(w) PROVE CoreInv'
  <2>1. /\ UNCHANGED <<ctas, pc, functional_done, m_done_exit>>
        /\ m_ibuffer' = [m_ibuffer EXCEPT ![w] = <<>>]
    BY <1>7 DEF ControlHazard
  <2>2. Contexts'
    BY <1>1, <2>1, ContextsKept DEF ContextsSame
  <2>3. pc[w] \in Nat /\ pc' \in [Warps -> Nat] /\ \A v \in Warps : ~functional_done'[v] => pc'[v] > 0
    BY <1>1, <2>1 DEF Fetched
  <2>4. Fetching' /\ FetchMatchesPc'
    BY <1>1, <1>7, <2>3, HazardStep
  <2>5. <<>> \in Seq(Nat) /\ \A j \in 1..Len(<<>>) : <<>>[j] \in 0..Len(Text(w))
    OBVIOUS
  <2>6. Fetched'
    BY <1>1, <2>1, <2>3, <2>5, FetchedOther DEF Fetching
  <2> QED BY <2>2, <2>4, <2>6 DEF CoreInv
<1>8. ASSUME NEW w \in Warps, IssueWarp(w) PROVE CoreInv'
  <2>1. Contexts' /\ Fetching' /\ FetchMatchesPc'
    BY <1>1, <1>8, IssueWarpStep DEF Fetched
  <2>2. Fetched'
    BY <1>1, <1>8, FetchedIssue
  <2> QED BY <2>1, <2>2 DEF CoreInv
<1>9. ASSUME UNCHANGED <<ctas, warp, frontend, m_done_exit, m_last_warp_fetched>> PROVE CoreInv'
  <2>1. ContextsSame /\ UNCHANGED <<program, cta_of, m_ibuffer, pc, functional_done, FetchVars>>
        /\ m_last_warp_fetched' \in Warps
    BY <1>1, <1>9 DEF ContextsSame, ctas, warp, frontend, FetchVars, Fetching
  <2>2. Contexts' /\ Fetching' /\ FetchMatchesPc'
    BY <1>1, <2>1, ContextsKept, FetchKept
  <2>3. Fetched'
    BY <1>1, <2>1, FetchedKept
  <2> QED BY <2>2, <2>3 DEF CoreInv
<1>10. CASE Backend
  <2>1. UNCHANGED <<ctas, warp, frontend, m_done_exit, m_last_warp_fetched>>
    BY <1>10, BackendFrame
  <2> QED BY <1>9, <2>1
<1>11. CASE UNCHANGED vars
  <2>1. UNCHANGED <<ctas, warp, frontend, m_done_exit, m_last_warp_fetched>>
    BY <1>11 DEF vars
  <2> QED BY <1>9, <2>1
<1> QED
  BY <1>2, <1>3, <1>4, <1>5, <1>6, <1>7, <1>8, <1>10, <1>11, Zenon DEF Next, Backend

LEMMA CoreInductive == Spec => []CoreInv
<1>1. Init => CoreInv
  BY ShaderCoreAssumption, FetchInit
<1>2. CoreInv /\ [Next]_vars => CoreInv'
  BY ShaderCoreAssumption, CoreStep
<1> QED BY <1>1, <1>2, PTL DEF Spec

\* The reply to an instruction miss finds the warp waiting for it, at the pc it
\* asked for, whatever the other warps do meanwhile: the assert in fetch()
\* (shader.cc:894-897).
THEOREM FetchesMatch == Spec => []FetchMatchesPc
<1>1. CoreInv => FetchMatchesPc
  BY DEF CoreInv
<1> QED BY <1>1, CoreInductive, PTL

-----------------------------------------------------------------------------
(* Barriers.                                                                *)

BarrierSame == UNCHANGED <<program, functional_done, barrier>>

LEMMA BarrierKept ==
    ASSUME AtBarriers, Together, BarrierSame
    PROVE  AtBarriers' /\ Together'
<1>1. /\ UNCHANGED <<functional_done, m_warp_active, m_warp_at_barrier, m_bar_id_to_warps, arrivals>>
      /\ CtaWide' = CtaWide /\ \A w : SlotOf(w)' = SlotOf(w)
  BY SameProgram DEF BarrierSame, barrier
<1>2. AtBarriers'
  BY <1>1, Zenon DEF AtBarriers
<1>3. \A w, b : Rounds(w, b)' = Rounds(w, b)
  BY <1>1, Zenon DEF Rounds
<1> QED BY <1>1, <1>2, <1>3, ZenonT(60) DEF Together

LEMMA BarrierStarts ==
    ASSUME ShaderCoreAssumption, CoreInv, AtBarriers, Together, NEW s, Starts(s)
    PROVE  AtBarriers' /\ Together'
<1>1. /\ program' = program /\ program \in Programs /\ s \in SlotIds
      /\ functional_done' = [w \in Warps |-> IF w \in WarpsOf(s) THEN FALSE ELSE functional_done[w]]
      /\ arrivals' = [w \in Warps |-> IF w \in WarpsOf(s) THEN [b \in Barriers |-> 0] ELSE arrivals[w]]
      /\ m_warp_active' = m_warp_active \cup WarpsOf(s)
      /\ m_warp_at_barrier' = m_warp_at_barrier \ WarpsOf(s)
      /\ m_bar_id_to_warps' = [b \in Barriers |-> m_bar_id_to_warps[b] \ WarpsOf(s)]
  BY DEF Starts, CoreInv, Contexts
<1>2. WarpsOf(s) \subseteq Warps /\ \A w \in Warps : (w \in WarpsOf(s)) = (SlotOf(w) = s)
  BY DEF WarpsOf
<1>3. AtBarriers'
  <2>1. m_warp_active' = {w \in Warps : ~functional_done'[w]}
    BY <1>1, <1>2 DEF AtBarriers
  <2>2. /\ m_warp_at_barrier' \subseteq m_warp_active'
        /\ m_bar_id_to_warps' \in [Barriers -> SUBSET m_warp_at_barrier']
        /\ \A a, b \in Barriers : a # b => m_bar_id_to_warps'[a] \cap m_bar_id_to_warps'[b] = {}
    BY <1>1 DEF AtBarriers
  <2> QED BY <2>1, <2>2 DEF AtBarriers
<1>4. CtaWide' = CtaWide /\ (\A w : SlotOf(w)' = SlotOf(w)) /\ CtaWide \subseteq Barriers
  BY <1>1, SameProgram DEF CtaWide
<1>5. arrivals' \in [Warps -> [Barriers -> Nat]]
  BY <1>1 DEF Together
<1>6. ASSUME NEW w \in Warps, NEW b \in Barriers
      PROVE  /\ w \in WarpsOf(s) => Rounds(w, b)' = 0
             /\ w \notin WarpsOf(s) => Rounds(w, b)' = Rounds(w, b) /\ functional_done'[w] = functional_done[w]
  BY <1>1 DEF Rounds
<1>7. ASSUME NEW w \in Warps, NEW v \in Warps, NEW b \in CtaWide,
             SlotOf(w) = SlotOf(v), ~functional_done'[w], ~functional_done'[v]
      PROVE  Rounds(w, b)' = Rounds(v, b)'
  <2>1. CASE w \in WarpsOf(s)
    BY <1>2, <1>4, <1>6, <1>7, <2>1
  <2>2. CASE w \notin WarpsOf(s)
    <3>1. v \notin WarpsOf(s) /\ b \in Barriers
      BY <1>2, <1>4, <1>7, <2>2
    <3>2. ~functional_done[w] /\ ~functional_done[v]
          /\ Rounds(w, b)' = Rounds(w, b) /\ Rounds(v, b)' = Rounds(v, b)
      BY <1>6, <1>7, <2>2, <3>1
    <3> QED BY <1>7, <3>2 DEF Together
  <2> QED BY <2>1, <2>2
<1> QED BY <1>3, <1>4, <1>5, <1>7, ZenonT(60) DEF Together

\* The barriers the code of a warp names.
LEMMA IssuedBarrier ==
    ASSUME ShaderCoreAssumption, OnlySync, CoreInv, NEW w \in Warps, IssueWarp(w)
    PROVE  LET inst == Text(w)[pc[w]]
           IN  /\ inst.op # "arrive" /\ inst.id \in Barriers
               /\ inst.op = "bar" /\ inst.id \in CtaWide => inst.n = 0
<1> DEFINE inst == Text(w)[pc[w]]
           c == cta_of[SlotOf(w)]
           k == (w % WarpsPerCta) + 1
<1>1. /\ inst = program[c][k][pc[w]] /\ c \in Ctas /\ pc[w] \in 1..Len(program[c][k])
      /\ inst \in Instructions
  BY Issued, Zenon DEF CoreInv, CodeOf
<1>2. k \in 1..WarpsPerCta /\ program \in Programs
  BY Width DEF CoreInv, Contexts
<1>3. inst.id \in Barriers
  <2> HIDE DEF inst
  <2> QED BY <1>1 DEF Instructions
<1> HIDE DEF k, c
<1>4. inst.op # "arrive"
  <2>1. \A d \in Ctas, h \in 1..WarpsPerCta : \A j \in 1..Len(program[d][h]) : program[d][h][j].op # "arrive"
    BY <1>2, Zenon DEF OnlySync, Ctas, WarpsPerCta
  <2>2. program[c][k][pc[w]].op # "arrive"
    BY <1>1, <1>2, <2>1
  <2> QED BY <1>1, <2>2, Zenon
<1>5. inst.op = "bar" /\ inst.id \in CtaWide => inst.n = 0
  <2>1. ASSUME NEW b \in CtaWide
        PROVE  \A d \in Ctas, h \in 1..WarpsPerCta : \A j \in 1..Len(program[d][h]) :
                  program[d][h][j].op = "bar" /\ program[d][h][j].id = b => program[d][h][j].n = 0
    BY Zenon DEF CtaWide
  <2>2. \A b \in CtaWide : program[c][k][pc[w]].op = "bar" /\ program[c][k][pc[w]].id = b
                           => program[c][k][pc[w]].n = 0
    <3>1. c \in Ctas /\ k \in 1..WarpsPerCta /\ pc[w] \in 1..Len(program[c][k])
      BY <1>1, <1>2
    <3> QED BY <2>1, <3>1, SMTT(30)
  <2> QED BY <1>1, <2>2, Zenon
<1> QED BY <1>3, <1>4, <1>5

\* A warp comes to a barrier, and the last one lets all of them through.
LEMMA BarrierReached ==
    ASSUME ShaderCoreAssumption, CoreInv, AtBarriers, Together, NEW w \in Warps, NEW inst,
           ~functional_done[w], w \notin m_warp_at_barrier,
           inst.op = "bar", inst.id \in Barriers, inst.id \in CtaWide => inst.n = 0,
           WarpReachesBarrier(w, inst), UNCHANGED <<program, functional_done>>
    PROVE  AtBarriers' /\ Together'
<1> DEFINE mates == WarpsOf(SlotOf(w))
           B == inst.id
           S == m_bar_id_to_warps[B]
           at == (S \cup {w}) \cap mates
           release == IF inst.n = 0 THEN at = mates \cap m_warp_active ELSE Cardinality(at) = inst.n
<1>1. /\ m_bar_id_to_warps' = [m_bar_id_to_warps EXCEPT ![B] = IF release THEN S \ at ELSE S \cup {w}]
      /\ m_warp_at_barrier' = IF release THEN (m_warp_at_barrier \cup {w}) \ at ELSE m_warp_at_barrier \cup {w}
      /\ arrivals' = [arrivals EXCEPT ![w][B] = arrivals[w][B] + 1]
      /\ UNCHANGED m_warp_active
  BY Zenon DEF WarpReachesBarrier
<1>2. /\ w \in mates /\ B \in Barriers
      /\ \A v \in Warps : (v \in mates) = (SlotOf(v) = SlotOf(w))
  <2>1. program \in Programs
    BY DEF CoreInv, Contexts
  <2>2. w \in mates
    BY <2>1, Width
  <2> QED BY <2>2 DEF WarpsOf
<1>3. B \in CtaWide /\ release => at = mates \cap m_warp_active
  OBVIOUS
<1>4. release \in BOOLEAN
  OBVIOUS
<1>5. \A b \in Barriers : w \notin m_bar_id_to_warps[b]
  BY DEF AtBarriers
<1>6. CtaWide' = CtaWide /\ (\A v : SlotOf(v)' = SlotOf(v)) /\ CtaWide \subseteq Barriers
  BY SameProgram DEF CtaWide
<1> HIDE DEF B, mates, release
<1>7. AtBarriers'
  <2>1. m_warp_active' = {v \in Warps : ~functional_done'[v]} /\ m_warp_at_barrier' \subseteq m_warp_active'
    BY <1>1 DEF AtBarriers
  <2>2. CASE release
    BY <1>1, <1>2, <1>5, <2>1, <2>2 DEF AtBarriers
  <2>3. CASE ~release
    BY <1>1, <1>2, <1>5, <2>1, <2>3 DEF AtBarriers
  <2> QED BY <1>4, <2>2, <2>3
<1>8. arrivals' \in [Warps -> [Barriers -> Nat]]
  BY <1>1, <1>2 DEF Together
<1>9. ASSUME NEW v \in Warps, NEW b \in Barriers, b # B \/ v \notin mates
      PROVE  Rounds(v, b)' = Rounds(v, b)
  <2>1. arrivals'[v][b] = arrivals[v][b]
    BY <1>1, <1>2, <1>9 DEF Together
  <2>2. (v \in m_bar_id_to_warps'[b]) = (v \in m_bar_id_to_warps[b])
    <3>1. CASE b # B
      BY <1>1, <3>1 DEF AtBarriers
    <3>2. CASE b = B
      BY <1>1, <1>2, <1>9, <3>2 DEF AtBarriers
    <3> QED BY <3>1, <3>2
  <2> QED BY <2>1, <2>2 DEF Rounds
<1>10. ASSUME NEW v \in Warps, v \in mates, B \in CtaWide, ~functional_done[v]
       PROVE  Rounds(v, B)' = IF release THEN Rounds(v, B) + 1 ELSE Rounds(v, B)
  <2>1. arrivals'[v][B] = (IF v = w THEN arrivals[v][B] + 1 ELSE arrivals[v][B]) /\ arrivals[v][B] \in Nat
    BY <1>1, <1>2 DEF Together
  <2>2. m_bar_id_to_warps'[B] = IF release THEN S \ at ELSE S \cup {w}
    BY <1>1, <1>2 DEF AtBarriers
  <2>3. CASE release
    <3>1. v \in at
      BY <1>3, <1>10, <2>3 DEF AtBarriers
    <3>2. v \notin m_bar_id_to_warps'[B] /\ (v = w \/ v \in S) /\ w \notin S
      BY <1>2, <1>5, <2>2, <2>3, <3>1
    <3> QED BY <2>1, <2>3, <3>2 DEF Rounds
  <2>4. CASE ~release
    BY <1>2, <1>5, <2>1, <2>2, <2>4 DEF Rounds
  <2> QED BY <1>4, <2>3, <2>4
<1>11. ASSUME NEW x \in Warps, NEW v \in Warps, NEW b \in CtaWide,
             SlotOf(x) = SlotOf(v), ~functional_done[x], ~functional_done[v]
       PROVE  Rounds(x, b)' = Rounds(v, b)'
  <2>1. Rounds(x, b) = Rounds(v, b) /\ b \in Barriers
    BY <1>6, <1>11 DEF Together
  <2>2. CASE b = B /\ x \in mates
    <3>1. v \in mates
      BY <1>2, <1>11, <2>2
    <3> QED BY <1>10, <1>11, <2>1, <2>2, <3>1
  <2>3. CASE ~(b = B /\ x \in mates)
    <3>1. b # B \/ v \notin mates
      BY <1>2, <1>11, <2>3
    <3> QED BY <1>9, <2>1, <2>3, <3>1
  <2> QED BY <2>2, <2>3
<1> QED BY <1>6, <1>7, <1>8, <1>11, ZenonT(60) DEF Together

\* A warp exits, and the barriers only it was missing from open.
LEMMA BarrierExit ==
    ASSUME ShaderCoreAssumption, CoreInv, AtBarriers, Together, NEW w \in Warps,
           ~functional_done[w], w \notin m_warp_at_barrier, WarpExit(w),
           functional_done' = [functional_done EXCEPT ![w] = TRUE], UNCHANGED program
    PROVE  AtBarriers' /\ Together'
<1> DEFINE mates == WarpsOf(SlotOf(w))
           active == mates \cap (m_warp_active \ {w})
           At(b) == mates \cap m_bar_id_to_warps[b]
           released == {b \in Barriers : At(b) = active}
<1>1. /\ m_warp_active' = m_warp_active \ {w}
      /\ m_bar_id_to_warps' = [b \in Barriers |-> IF b \in released THEN m_bar_id_to_warps[b] \ mates
                                                  ELSE m_bar_id_to_warps[b]]
      /\ m_warp_at_barrier' = m_warp_at_barrier \ UNION {At(b) : b \in released}
      /\ UNCHANGED arrivals
  BY Zenon DEF WarpExit
<1>2. /\ \A v \in Warps : v \in mates <=> SlotOf(v) = SlotOf(w)
      /\ \A v \in Warps : functional_done'[v] <=> v = w \/ functional_done[v]
  <2>1. \A v \in Warps : v \in mates <=> SlotOf(v) = SlotOf(w)
    BY DEF WarpsOf
  <2>2. functional_done \in [Warps -> BOOLEAN]
    BY DEF CoreInv, Contexts
  <2> HIDE DEF mates
  <2>3. \A v \in Warps : functional_done'[v] <=> v = w \/ functional_done[v]
    BY <2>2
  <2> QED BY <2>1, <2>3
<1>3. CtaWide' = CtaWide /\ (\A v : SlotOf(v)' = SlotOf(v)) /\ CtaWide \subseteq Barriers
  BY SameProgram DEF CtaWide
<1> HIDE DEF mates
<1>4. AtBarriers'
  <2>1. m_warp_active' = {v \in Warps : ~functional_done'[v]} /\ m_warp_at_barrier' \subseteq m_warp_active'
    <3>1. m_warp_active' = m_warp_active \ {w} /\ m_warp_at_barrier' \subseteq m_warp_at_barrier
      BY <1>1
    <3>2. m_warp_active = {v \in Warps : ~functional_done[v]} /\ m_warp_at_barrier \subseteq m_warp_active
      BY DEF AtBarriers
    <3>3. {v \in Warps : ~functional_done'[v]} = {v \in Warps : ~functional_done[v]} \ {w}
      BY <1>2
    <3> QED BY <3>1, <3>2, <3>3
  <2>2. ASSUME NEW b \in Barriers, NEW v \in m_bar_id_to_warps'[b]
        PROVE  v \in m_warp_at_barrier' /\ v \in m_bar_id_to_warps[b]
    <3>1. v \in m_bar_id_to_warps[b] /\ (b \in released => v \notin mates) /\ v \in m_warp_at_barrier
      BY <1>1, <2>2 DEF AtBarriers
    <3>2. ASSUME NEW a \in released PROVE v \notin At(a)
      <4>1. CASE a = b
        BY <3>1, <4>1
      <4>2. CASE a # b
        BY <3>1, <4>2 DEF AtBarriers
      <4> QED BY <4>1, <4>2
    <3> QED BY <1>1, <3>1, <3>2
  <2>3. m_bar_id_to_warps' \in [Barriers -> SUBSET m_warp_at_barrier']
    <3>1. m_bar_id_to_warps' = [b \in Barriers |-> m_bar_id_to_warps'[b]]
      BY <1>1
    <3> QED BY <2>2, <3>1
  <2>4. \A a, b \in Barriers : a # b => m_bar_id_to_warps'[a] \cap m_bar_id_to_warps'[b] = {}
    BY <2>2 DEF AtBarriers
  <2> QED BY <2>1, <2>3, <2>4 DEF AtBarriers
<1>5. ASSUME NEW v \in Warps, NEW b \in Barriers, v \notin mates \/ b \notin released
      PROVE  Rounds(v, b)' = Rounds(v, b)
  BY <1>1, <1>5 DEF Rounds
<1>6. ASSUME NEW v \in Warps, v \in mates, NEW b \in released, ~functional_done'[v]
      PROVE  Rounds(v, b)' = Rounds(v, b) + 1
  <2>1. v \in At(b)
    BY <1>2, <1>6 DEF AtBarriers
  <2>2. v \notin m_bar_id_to_warps'[b] /\ arrivals[v][b] \in Nat
    BY <1>1, <1>6 DEF Together
  <2> QED BY <1>1, <2>1, <2>2 DEF Rounds
<1> HIDE DEF released
<1>7. ASSUME NEW x \in Warps, NEW v \in Warps, NEW b \in CtaWide,
             SlotOf(x) = SlotOf(v), ~functional_done'[x], ~functional_done'[v]
      PROVE  Rounds(x, b)' = Rounds(v, b)'
  <2>1. Rounds(x, b) = Rounds(v, b) /\ b \in Barriers
    BY <1>2, <1>3, <1>7 DEF Together
  <2>2. x \in mates <=> v \in mates
    BY <1>2, <1>7
  <2>3. CASE x \in mates /\ b \in released
    BY <1>6, <1>7, <2>1, <2>2, <2>3
  <2>4. CASE ~(x \in mates /\ b \in released)
    BY <1>5, <2>1, <2>2, <2>4
  <2> QED BY <2>3, <2>4
<1>8. arrivals' \in [Warps -> [Barriers -> Nat]]
  BY <1>1 DEF Together
<1> QED BY <1>3, <1>4, <1>7, <1>8, ZenonT(60) DEF Together

LEMMA BarrierStep ==
    ASSUME ShaderCoreAssumption, OnlySync, CoreInv, AtBarriers, Together, [Next]_vars
    PROVE  AtBarriers' /\ Together'
<1>0. Contexts /\ Fetching /\ FetchMatchesPc /\ Fetched
  BY DEF CoreInv
<1>1. CASE IssueBlock2Core
  <2>1. PICK s \in 0..(Slots - 1) : Starts(s)
    BY <1>0, <1>1, IssueStarts
  <2> QED BY <2>1, BarrierStarts
<1>2. CASE FetchReply \/ Decode \/ \E w \in Warps : MembarDone(w) \/ ControlHazard(w)
  <2>1. UNCHANGED <<ctas, functional_done, barrier>>
    BY <1>2, Zenon DEF FetchReply, Decode, MembarDone, ControlHazard, warp
  <2> QED BY <2>1, BarrierKept DEF BarrierSame, ctas
<1>3. CASE Fetch
  <2>1. UNCHANGED <<program, functional_done, arrivals>>
    BY <1>0, <1>3, FetchCases DEF warp
  <2>2. PICK exits, gone \in SUBSET Warps : Leaves(exits, gone)
    BY <1>0, <1>3, FetchCases
  <2>3. /\ \A w \in gone : w \notin m_warp_active
        /\ m_warp_active' = m_warp_active \ gone /\ m_warp_at_barrier' = m_warp_at_barrier \ gone
        /\ m_bar_id_to_warps' = [b \in Barriers |-> m_bar_id_to_warps[b] \ gone]
    BY <2>2 DEF Leaves, AtBarriers
  <2>4. m_warp_active' = m_warp_active /\ m_warp_at_barrier' = m_warp_at_barrier
    BY <2>3 DEF AtBarriers
  <2>5. m_bar_id_to_warps' = m_bar_id_to_warps
    BY <2>3 DEF AtBarriers
  <2> QED BY <2>1, <2>4, <2>5, BarrierKept DEF BarrierSame, barrier
<1>4. ASSUME NEW w \in Warps, IssueWarp(w) PROVE AtBarriers' /\ Together'
  <2> DEFINE inst == Text(w)[pc[w]]
  <2>1. /\ ~functional_done[w] /\ w \notin m_warp_at_barrier
        /\ functional_done \in [Warps -> BOOLEAN]
    BY <1>0, <1>4 DEF IssueWarp, CanTest, Waiting, Contexts
  <2>2. inst.op # "arrive" /\ inst.id \in Barriers /\ (inst.op = "bar" /\ inst.id \in CtaWide => inst.n = 0)
    BY <1>4, IssuedBarrier, Zenon
  <2>3. /\ functional_done' = [functional_done EXCEPT ![w] = inst.op = "exit"] /\ UNCHANGED program
        /\ CASE inst.op \in {"bar", "arrive"} -> WarpReachesBarrier(w, inst)
             [] inst.op = "exit"              -> WarpExit(w)
             [] OTHER                         -> UNCHANGED barrier
    BY <1>4, Zenon DEF IssueWarp, ctas
  <2> HIDE DEF inst
  <2>4. inst.op # "exit" => UNCHANGED functional_done
    BY <2>1, <2>3
  <2>5. CASE inst.op = "bar"
    <3>1. WarpReachesBarrier(w, inst) /\ UNCHANGED <<program, functional_done>>
      BY <2>3, <2>4, <2>5
    <3> QED BY <2>1, <2>2, <2>5, <3>1, BarrierReached
  <2>6. CASE inst.op = "exit"
    <3>1. WarpExit(w) /\ functional_done' = [functional_done EXCEPT ![w] = TRUE] /\ UNCHANGED program
      BY <2>3, <2>6
    <3> QED BY <2>1, <3>1, BarrierExit
  <2>7. CASE inst.op \notin {"bar", "exit"}
    <3>1. UNCHANGED barrier
      BY <2>2, <2>3, <2>7
    <3> QED BY <2>3, <2>4, <2>7, <3>1, BarrierKept DEF BarrierSame
  <2> QED BY <2>5, <2>6, <2>7
<1>5. CASE Backend
  BY <1>5, BackendFrame, BarrierKept DEF BarrierSame, ctas, warp
<1>6. CASE UNCHANGED vars
  BY <1>6, BarrierKept DEF BarrierSame, ctas, warp, vars
<1> QED BY <1>1, <1>2, <1>3, <1>4, <1>5, <1>6, Zenon DEF Next, Backend

LEMMA BarrierInductive == OnlySync => (Spec => []BarrierInv)
<1>1. Init => AtBarriers /\ Together
  BY DEF Init, AtBarriers, Together, Rounds, CtaWide
<1>2. Init => BarrierInv
  BY <1>1, ShaderCoreAssumption, FetchInit DEF BarrierInv
<1>3. OnlySync /\ BarrierInv /\ [Next]_vars => BarrierInv'
  BY ShaderCoreAssumption, CoreStep, BarrierStep DEF BarrierInv
<1>4. OnlySync => OnlySync'
  BY DEF OnlySync
<1> QED BY <1>2, <1>3, <1>4, PTL DEF Spec

\* In a program without bar.arrive no warp passes a barrier of the whole CTA
\* before every warp of the CTA that has not exited has come to it, as often as
\* the barrier is used and whoever exits meanwhile: warp_reaches_barrier() and
\* warp_exit() (shader.cc:3608-3680).
THEOREM BarriersHold == OnlySync => (Spec => []BarrierHolds)
<1>1. BarrierInv => BarrierHolds
  <2> SUFFICES ASSUME BarrierInv, NEW w \in Warps, NEW v \in Warps, NEW b \in CtaWide,
                      SlotOf(w) = SlotOf(v), ~functional_done[w], ~functional_done[v]
               PROVE  Passed(w, b) <= arrivals[v][b]
    BY DEF BarrierHolds
  <2>1. b \in Barriers
    BY DEF CtaWide
  <2>2. Rounds(w, b) = Rounds(v, b)
    BY DEF BarrierInv, Together
  <2>3. Passed(w, b) = Rounds(w, b)
    BY <2>1 DEF BarrierInv, AtBarriers, Passed, Rounds
  <2>4. Rounds(v, b) <= arrivals[v][b]
    BY <2>1 DEF BarrierInv, Together, Rounds
  <2> QED BY <2>2, <2>3, <2>4
<1> QED BY <1>1, BarrierInductive, PTL

-----------------------------------------------------------------------------
(* Replies to come.                                                         *)

LEMMA CountIn ==
    ASSUME NEW B, IsABag(B), NEW j
    PROVE  In(B, j) \in Nat /\ (j \in BagToSet(B) <=> In(B, j) > 0)
BY DEF IsABag, In, BagToSet

LEMMA BagPut ==
    ASSUME NEW B, IsABag(B), NEW i
    PROVE  /\ IsABag(B (+) One(i)) /\ BagToSet(B (+) One(i)) = BagToSet(B) \cup {i}
           /\ \A j : In(B (+) One(i), j) = In(B, j) + (IF j = i THEN 1 ELSE 0)
<1>1. One(i) = [j \in {i} |-> 1]
  BY DEF One, SetToBag
<1>2. B (+) One(i) = [j \in DOMAIN B \cup {i} |->
                        (IF j \in DOMAIN B THEN B[j] ELSE 0) + (IF j = i THEN 1 ELSE 0)]
  BY <1>1 DEF (+)
<1>3. \A j \in DOMAIN B : B[j] \in Nat \ {0}
  BY DEF IsABag
<1> DEFINE C == B (+) One(i)
<1>4. DOMAIN C = DOMAIN B \cup {i}
      /\ \A j \in DOMAIN C : C[j] = (IF j \in DOMAIN B THEN B[j] ELSE 0) + (IF j = i THEN 1 ELSE 0)
  BY <1>2
<1> HIDE DEF C
<1>5. C = [j \in DOMAIN C |-> C[j]]
  BY <1>2 DEF C
<1>6. C \in [DOMAIN C -> {n \in Nat : n > 0}]
  BY <1>3, <1>4, <1>5
<1>7. IsABag(C) /\ BagToSet(C) = DOMAIN B \cup {i}
  BY <1>4, <1>6 DEF IsABag, BagToSet
<1>8. \A j : In(C, j) = In(B, j) + (IF j = i THEN 1 ELSE 0)
  BY <1>3, <1>4 DEF In, BagToSet
<1> QED BY <1>7, <1>8 DEF C, BagToSet

LEMMA BagTake ==
    ASSUME NEW B, IsABag(B), NEW i \in BagToSet(B)
    PROVE  /\ IsABag(B (-) One(i)) /\ BagToSet(B (-) One(i)) \subseteq BagToSet(B)
           /\ \A j : In(B (-) One(i), j) = In(B, j) - (IF j = i THEN 1 ELSE 0)
<1>1. One(i) = [j \in {i} |-> 1]
  BY DEF One, SetToBag
<1>3. i \in DOMAIN B /\ \A j \in DOMAIN B : B[j] \in Nat \ {0}
  BY DEF IsABag, BagToSet
<1> DEFINE left(j) == B[j] - (IF j = i THEN 1 ELSE 0)
           dom == {j \in DOMAIN B : left(j) > 0}
           C == B (-) One(i)
<1>2. C = [j \in dom |-> left(j)]
  <2> DEFINE D == [j \in DOMAIN B |-> IF j \in DOMAIN One(i) THEN B[j] - One(i)[j] ELSE B[j]]
  <2>1. C = [j \in {d \in DOMAIN D : D[d] > 0} |-> D[j]]
    BY Zenon DEF (-)
  <2>2. DOMAIN D = DOMAIN B /\ \A j \in DOMAIN B : D[j] = left(j)
    BY <1>1, <1>3
  <2>3. C = [j \in {d \in DOMAIN B : D[d] > 0} |-> D[j]]
    BY <2>1, <2>2, Zenon
  <2> HIDE DEF D, left, C
  <2> QED BY <2>2, <2>3
<1>4. DOMAIN C = dom /\ C = [j \in DOMAIN C |-> C[j]] /\ \A j \in dom : C[j] = left(j)
  BY <1>2
<1> HIDE DEF C
<1>5. C \in [DOMAIN C -> {n \in Nat : n > 0}]
  BY <1>3, <1>4
<1>6. IsABag(C) /\ BagToSet(C) \subseteq BagToSet(B)
  BY <1>4, <1>5 DEF IsABag, BagToSet
<1>7. \A j : In(C, j) = In(B, j) - (IF j = i THEN 1 ELSE 0)
  BY <1>3, <1>4 DEF In, BagToSet
<1> QED BY <1>6, <1>7 DEF C

\* An instruction in flight is one of the program.
LEMMA CodedTyped ==
    ASSUME ShaderCoreAssumption, program \in Programs, NEW i \in Coded
    PROVE  /\ i \in Instances /\ i.warp \in Warps /\ i # None
           /\ Code(i).out \subseteq Regs /\ Code(i).n \in Nat
           /\ Code(i).op \in {"store", "membar"} => Code(i).out = {}
           /\ Code(i).op = "load" => Code(i).out # {}
           /\ Code(i).op = "atom" => Code(i).route = "bypass"
<1>1. i \in Instances /\ i.warp \in Warps /\ i.cta \in Ctas /\ i.pc \in 1..Len(CodeOf(i.cta, i.warp))
  BY DEF Coded, Instances
<1>2. Code(i) = CodeOf(i.cta, i.warp)[i.pc]
  BY DEF Code, CodeOf
<1>3. Code(i).out \subseteq Regs /\ Code(i).n \in Nat
      /\ (Code(i).op \in {"store", "membar"} => Code(i).out = {})
      /\ (Code(i).op = "load" => Code(i).out # {})
      /\ (Code(i).op = "atom" => Code(i).route = "bypass")
  <2>1. \A j \in 1..Len(CodeOf(i.cta, i.warp)) :
           LET inst == CodeOf(i.cta, i.warp)[j]
           IN  /\ inst \in Instructions /\ inst.out \subseteq Regs /\ inst.n \in Nat
               /\ inst.op = "bra" => inst.n > 0
               /\ inst.op \in {"store", "membar"} => inst.out = {}
               /\ inst.op = "load" => inst.out # {}
               /\ inst.op = "atom" => inst.route = "bypass"
    BY <1>1, CodeTyped
  <2> QED BY <1>1, <1>2, <2>1, Zenon
<1>4. i # None
  <2>1. i \in [cta : Nat, warp : Nat, pc : Nat, uid : Nat]
    <3>1. Ctas \subseteq Nat /\ Warps \subseteq Nat
      BY DEF Ctas, Warps
    <3> QED BY <1>1, <3>1 DEF Instances
  <2> QED BY <2>1 DEF ShaderCoreAssumption
<1> QED BY <1>1, <1>3, <1>4

\* Where an instruction in flight is.
Held(i) == i \in alu \/ i \in oc \/ i = m_dispatch_reg \/ i = smem \/ Answers(i) > 0

StagesOf ==
    /\ InFlight \subseteq Coded
    /\ \A i \in Coded : /\ i # None /\ Answers(i) \in Nat /\ Awaited(i) \in Nat
                        /\ i \in InFlight <=> Held(i)
                        /\ i \in alu => Code(i).op \notin MemOps
                        /\ i \in oc \/ i = m_dispatch_reg => Code(i).op \in MemOps
                        /\ i = smem => Code(i).op = "shared"
                        /\ In(l1_latency_queue, i) > 0 \/ In(mem, i) > 0 => Accessing(i)
                        /\ Answers(i) > 0 => Accessing(i) \/ m_next_wb = i

\* None stands for no instruction.
NoneApart == None \notin Coded

LEMMA StagesNone == ShaderCoreAssumption /\ program \in Programs => NoneApart
BY CodedTyped DEF NoneApart

LEMMA Stages ==
    ASSUME NoneApart, Staged
    PROVE  StagesOf
<1>1. ASSUME NEW i \in Coded
      PROVE  /\ In(l1_latency_queue, i) \in Nat /\ (i \in BagToSet(l1_latency_queue) <=> In(l1_latency_queue, i) > 0)
             /\ In(mem, i) \in Nat /\ (i \in BagToSet(mem) <=> In(mem, i) > 0)
             /\ One01(m_next_wb = i) \in Nat /\ (m_next_wb = i <=> One01(m_next_wb = i) > 0)
  <2>1. IsABag(l1_latency_queue) /\ IsABag(mem)
    BY DEF Staged
  <2>2. One01(m_next_wb = i) \in Nat /\ (m_next_wb = i <=> One01(m_next_wb = i) > 0)
    BY DEF One01
  <2> QED BY <2>1, <2>2, CountIn
<1>2. ASSUME NEW i \in Coded
      PROVE  /\ Answers(i) \in Nat /\ Awaited(i) \in Nat
             /\ Answers(i) > 0 <=> i \in BagToSet(l1_latency_queue) \/ i \in BagToSet(mem) \/ m_next_wb = i
  BY <1>1 DEF Answers, Awaited, Staged
<1>3. InFlight \subseteq Coded
  BY DEF InFlight, InPipeline, Answering, Staged
<1>4. ASSUME NEW i \in Coded
      PROVE  i \in InFlight <=> Held(i)
  <2>1. i # None
    BY DEF NoneApart
  <2>2. i \in Answering <=> Answers(i) > 0
    BY <1>2, <2>1 DEF Answering
  <2> QED BY <2>1, <2>2 DEF InFlight, InPipeline, Held
<1>5. ASSUME NEW i \in Coded
      PROVE  /\ i \in alu => Code(i).op \notin MemOps
             /\ i \in oc \/ i = m_dispatch_reg => Code(i).op \in MemOps
             /\ i = smem => Code(i).op = "shared"
             /\ i \in BagToSet(l1_latency_queue) \/ i \in BagToSet(mem) => Accessing(i)
  BY DEF Staged, NoneApart
<1> QED BY <1>1, <1>2, <1>3, <1>4, <1>5 DEF StagesOf, NoneApart

LEMMA StagesAfter == NoneApart' /\ Staged' => StagesOf'
<1>1. NoneApart /\ Staged => StagesOf
  BY Stages
<1> QED BY <1>1, PTL

-----------------------------------------------------------------------------
(* An instruction moves on.                                                 *)

\* Only i changes its place.
OnlyMoves(i) ==
    /\ program' = program /\ i \in Coded /\ i \in InFlight
    /\ \A j \in Coded : j # i => (j \in InFlight' <=> j \in InFlight) /\ Awaited(j)' = Awaited(j)

\* The replies i waits for change by n, and so does what its registers wait for.
LEMMA WaitsMove ==
    ASSUME StagesOf, StagesOf', NoSharing, Waits, NEW i, OnlyMoves(i), NEW n \in Int,
           IsLoad(i) => Awaited(i)' = Awaited(i) + n,
           m_pending_writes' = IF IsLoad(i) THEN Pending(i, n) ELSE m_pending_writes,
           i.warp \in Warps
    PROVE  Waits'
<1>1. /\ i \in Coded /\ i \in InFlight /\ program' = program
      /\ \A j \in Coded : j # i => (j \in InFlight' <=> j \in InFlight) /\ Awaited(j)' = Awaited(j)
  BY DEF OnlyMoves
<1>2. /\ InFlight \subseteq Coded /\ InFlight' \subseteq Coded
      /\ Awaited(i) \in Nat /\ Awaited(i)' \in Nat
      /\ i \notin InFlight' => Awaited(i)' = 0
  <2>1. Coded' = Coded
    BY <1>1, SameProgram
  <2>2. InFlight \subseteq Coded /\ InFlight' \subseteq Coded /\ Awaited(i) \in Nat
        /\ Awaited(i)' \in Nat /\ Answers(i)' \in Nat /\ (i \in InFlight' <=> Held(i)')
    BY <1>1, <2>1 DEF StagesOf
  <2>3. ASSUME i \notin InFlight' PROVE Awaited(i)' = 0
    <3>1. ~(Answers(i)' > 0) /\ m_dispatch_reg' # i
      BY <2>2, <2>3 DEF Held
    <3>2. Awaited(i)' = Answers(i)' + IF m_dispatch_reg' = i THEN accessq' ELSE 0
      BY DEF Awaited
    <3> QED BY <2>2, <3>1, <3>2
  <2> QED BY <2>2, <2>3
<1>3. \A j, w, r : Loads(j, w, r)' <=> Loads(j, w, r)
  BY <1>1, SameProgram, Zenon DEF Loads
<1>4. m_pending_writes \in [Warps -> [Regs -> Nat]]
  BY DEF Waits
<1>5. ASSUME NEW w \in Warps, NEW r \in Regs
      PROVE  m_pending_writes'[w][r] = IF Loads(i, w, r) THEN m_pending_writes[w][r] + n ELSE m_pending_writes[w][r]
  BY <1>4 DEF Pending, Loads
<1>6. ASSUME NEW w \in Warps, NEW r \in Regs
      PROVE  /\ m_pending_writes'[w][r] \in Nat
             /\ \A j \in InFlight' : Loads(j, w, r) => m_pending_writes'[w][r] = Awaited(j)'
             /\ (\A j \in InFlight' : ~Loads(j, w, r)) => m_pending_writes'[w][r] = 0
  <2>1. /\ \A j \in InFlight : Loads(j, w, r) => m_pending_writes[w][r] = Awaited(j)
        /\ (\A j \in InFlight : ~Loads(j, w, r)) => m_pending_writes[w][r] = 0
    BY DEF Waits
  <2>2. CASE Loads(i, w, r)
    <3>1. m_pending_writes'[w][r] = Awaited(i)'
      BY <1>1, <1>5, <2>1, <2>2 DEF Loads
    <3>2. ASSUME NEW j \in InFlight', Loads(j, w, r) PROVE j = i
      <4>1. j \in Coded /\ (j = i \/ j \in InFlight)
        BY <1>1, <1>2
      <4>2. j.warp = i.warp /\ Code(j).out \cap Code(i).out # {}
        BY <2>2, <3>2 DEF Loads
      <4> QED BY <1>1, <4>1, <4>2 DEF NoSharing
    <3> QED BY <1>2, <2>2, <3>1, <3>2
  <2>3. CASE ~Loads(i, w, r)
    <3>1. m_pending_writes'[w][r] = m_pending_writes[w][r] /\ m_pending_writes[w][r] \in Nat
      BY <1>4, <1>5, <2>3
    <3> QED BY <1>1, <1>2, <2>1, <2>3, <3>1
  <2> QED BY <2>2, <2>3
<1>7. m_pending_writes' \in [Warps -> [Regs -> Nat]]
  <2>1. m_pending_writes' \in [Warps -> [Regs -> Int]]
    BY <1>4 DEF Pending
  <2> QED BY <1>6, <2>1
<1> QED BY <1>3, <1>6, <1>7, Zenon DEF Waits

LEMMA ReservedIs ==
    ASSUME ScoreboardExact, NEW w \in Warps, NEW r
    PROVE  r \in reg_table[w] <=> \E j \in InFlight : j.warp = w /\ r \in Code(j).out
BY DEF ScoreboardExact

\* Its registers are released when it goes.
LEMMA ReservedMove ==
    ASSUME StagesOf, StagesOf', Reserved, NEW i, OnlyMoves(i), i.warp \in Warps,
           reg_table' = IF i \in InFlight' \/ Code(i).out = {} THEN reg_table
                        ELSE [reg_table EXCEPT ![i.warp] = reg_table[i.warp] \ Code(i).out]
    PROVE  Reserved'
<1>1. /\ i \in Coded /\ i \in InFlight /\ program' = program
      /\ \A j \in Coded : j # i => (j \in InFlight' <=> j \in InFlight)
  BY DEF OnlyMoves
<1>2. InFlight \subseteq Coded /\ InFlight' \subseteq InFlight
  <2>1. Coded' = Coded
    BY <1>1, SameProgram
  <2> QED BY <1>1, <2>1 DEF StagesOf
<1>3. \A j : Code(j)' = Code(j)
  BY <1>1, SameProgram
<1>4. NoSharing'
  BY <1>2, <1>3 DEF NoSharing, Reserved
<1>5. reg_table' \in [Warps -> SUBSET Regs]
  BY DEF Reserved
<1>6. ASSUME NEW w \in Warps, NEW r
      PROVE  r \in reg_table'[w] <=> \E j \in InFlight' : j.warp = w /\ r \in Code(j).out
  <2>1. r \in reg_table[w] <=> \E j \in InFlight : j.warp = w /\ r \in Code(j).out
    BY ReservedIs DEF Reserved
  <2>2. CASE i \in InFlight' \/ Code(i).out = {}
    BY <1>1, <1>2, <2>1, <2>2
  <2>3. CASE ~(i \in InFlight' \/ Code(i).out = {})
    <3>1. r \in reg_table'[w] <=> r \in reg_table[w] /\ ~(w = i.warp /\ r \in Code(i).out)
      BY <2>3 DEF Reserved
    <3>2. \A j \in InFlight' : j \in InFlight /\ j # i
      BY <1>2, <2>3
    <3>3. \A j \in InFlight : j # i => j \in InFlight'
      BY <1>1, <1>2
    <3>4. \A j \in InFlight : j # i /\ j.warp = i.warp => r \notin Code(j).out \/ r \notin Code(i).out
      BY <1>1 DEF Reserved, NoSharing
    <3> QED BY <2>1, <3>1, <3>2, <3>3, <3>4
  <2> QED BY <2>2, <2>3
<1>7. ScoreboardExact'
  <2>1. ASSUME NEW w \in Warps
        PROVE  reg_table'[w] = UNION {Code(j)'.out : j \in {k \in InFlight' : k.warp = w}}
    BY <1>3, <1>6, <2>1
  <2> QED BY <2>1 DEF ScoreboardExact
<1> QED BY <1>4, <1>5, <1>7 DEF Reserved

\* Every other instruction stays where it is.
Moves(i) ==
    /\ program' = program /\ i \in Coded /\ i \in InFlight
    /\ \A j \in Coded : j # i =>
          /\ j \in alu' <=> j \in alu
          /\ j \in oc' <=> j \in oc
          /\ j = m_dispatch_reg' <=> j = m_dispatch_reg
          /\ j = m_dispatch_reg => accessq' = accessq
          /\ j = smem' <=> j = smem
          /\ Answers(j)' = Answers(j)

LEMMA MovesOnly ==
    ASSUME StagesOf, StagesOf', NEW i, Moves(i)
    PROVE  OnlyMoves(i)
<1>1. program' = program /\ i \in Coded /\ i \in InFlight /\ Coded' = Coded
  BY SameProgram DEF Moves
<1>2. ASSUME NEW j \in Coded, j # i
      PROVE  (j \in InFlight' <=> j \in InFlight) /\ Awaited(j)' = Awaited(j)
  <2>1. /\ j \in alu' <=> j \in alu
        /\ j \in oc' <=> j \in oc
        /\ j = m_dispatch_reg' <=> j = m_dispatch_reg
        /\ j = m_dispatch_reg => accessq' = accessq
        /\ j = smem' <=> j = smem
        /\ Answers(j)' = Answers(j)
    BY <1>2 DEF Moves
  <2>2. (j \in InFlight <=> Held(j)) /\ (j \in InFlight' <=> Held(j)')
    BY <1>1 DEF StagesOf
  <2>3. Held(j)' <=> Held(j)
    BY <2>1 DEF Held
  <2>4. Awaited(j)' = Awaited(j)
    BY <2>1 DEF Awaited
  <2> QED BY <2>2, <2>3, <2>4
<1> QED BY <1>1, <1>2 DEF OnlyMoves

LEMMA SeparateMove ==
    ASSUME StagesOf, StagesOf', Separate, NEW i, Moves(i), Apart(i)'
    PROVE  Separate'
<1>1. program' = program /\ Coded' = Coded /\ \A j : Code(j)' = Code(j)
  BY SameProgram DEF Moves
<1>2. ASSUME NEW j \in InFlight', j # i PROVE Apart(j)'
  <2>1. j \in Coded
    BY <1>1 DEF StagesOf
  <2>2. j \in InFlight
    BY <1>2, <2>1, MovesOnly DEF OnlyMoves
  <2>3. Apart(j)
    BY <2>2 DEF Separate
  <2>4. /\ j \in oc' <=> j \in oc
        /\ j = m_dispatch_reg' <=> j = m_dispatch_reg
        /\ j = m_dispatch_reg => accessq' = accessq
        /\ j = smem' <=> j = smem
        /\ Answers(j)' = Answers(j)
    BY <1>2, <2>1 DEF Moves
  <2> QED BY <1>1, <2>3, <2>4 DEF Apart
<1> QED BY <1>2 DEF Separate

\* Registers are released, or there are none to release.
LEMMA ReleaseNothing ==
    ASSUME Reserved, NEW w \in Warps, NEW regs, ReleaseRegisters(w, regs)
    PROVE  /\ reg_table' = [reg_table EXCEPT ![w] = reg_table[w] \ regs]
           /\ regs = {} => reg_table' = reg_table
BY DEF Reserved, ReleaseRegisters

-----------------------------------------------------------------------------
(* The stages.                                                              *)

LEMMA FlightKept ==
    ASSUME Flight, UNCHANGED <<program, ldst, reg_table, alu>>
    PROVE  Flight'
<1>1. /\ UNCHANGED <<oc, m_dispatch_reg, accessq, smem, l1_latency_queue, mem, m_next_wb, m_pending_writes,
                     reg_table, alu>>
      /\ Coded' = Coded /\ (\A i : Code(i)' = Code(i)) /\ (\A i : IsLoad(i)' = IsLoad(i))
  BY SameProgram DEF ldst
<1>2. /\ InFlight' = InFlight
      /\ \A i : Answers(i)' = Answers(i) /\ Awaited(i)' = Awaited(i)
      /\ \A i : Accessing(i)' = Accessing(i)
      /\ \A i, w, r : Loads(i, w, r)' = Loads(i, w, r)
  <2>1. InFlight' = InFlight
    BY <1>1, Zenon DEF InFlight, InPipeline, Answering
  <2>2. \A i : Answers(i)' = Answers(i)
    BY <1>1, Zenon DEF Answers
  <2>3. \A i : Awaited(i)' = Awaited(i)
    BY <1>1, <2>2, Zenon DEF Awaited
  <2>4. \A i : Accessing(i)' = Accessing(i)
    BY <1>1, Zenon DEF Accessing
  <2>5. \A i, w, r : Loads(i, w, r)' = Loads(i, w, r)
    BY <1>1, Zenon DEF Loads
  <2> QED BY <2>1, <2>2, <2>3, <2>4, <2>5
<1>3. Staged'
  BY <1>1, <1>2 DEF Flight, Staged
<1>4. Separate'
  <2>1. \A i : Apart(i)' <=> Apart(i)
    BY <1>1, <1>2 DEF Apart
  <2> QED BY <1>2, <2>1 DEF Flight, Separate
<1>5. Reserved'
  BY <1>1, <1>2 DEF Flight, Reserved, ScoreboardExact, NoSharing
<1>6. Waits'
  BY <1>1, <1>2 DEF Flight, Waits
<1> QED BY <1>3, <1>4, <1>5, <1>6 DEF Flight

\* The premises of the lemmas above.
LEMMA FlightStages ==
    ASSUME ShaderCoreAssumption, program \in Programs, Flight, program' = program, Staged'
    PROVE  StagesOf /\ StagesOf'
<1>1. NoneApart
  BY StagesNone
<1>2. NoneApart'
  BY <1>1, SameProgram DEF NoneApart
<1> QED BY <1>1, <1>2, Stages, StagesAfter DEF Flight

LEMMA WritebackStep ==
    ASSUME ShaderCoreAssumption, program \in Programs, Flight, Writeback
    PROVE  Flight'
<1>1. PICK i \in alu : /\ alu' = alu \ {i} /\ ReleaseRegisters(i.warp, Code(i).out)
                       /\ UNCHANGED <<program, ldst>>
  BY DEF Writeback, ctas
<1>2. /\ UNCHANGED <<oc, m_dispatch_reg, accessq, smem, l1_latency_queue, mem, m_next_wb, m_pending_writes>>
      /\ program' = program /\ Coded' = Coded /\ (\A j : Code(j)' = Code(j)) /\ (\A j : IsLoad(j)' = IsLoad(j))
  BY <1>1, SameProgram DEF ldst
<1>3. i \in Coded /\ Code(i).op \notin MemOps /\ i \in InFlight
  BY <1>1 DEF Flight, Staged, InFlight, InPipeline
<1>4. Staged'
  BY <1>1, <1>2 DEF Flight, Staged, Accessing
<1>5. StagesOf /\ StagesOf'
  BY <1>2, <1>4, FlightStages
<1>6. \A j : Answers(j)' = Answers(j)
  BY <1>2, Zenon DEF Answers
<1>7. Moves(i)
  BY <1>1, <1>2, <1>3, <1>6 DEF Moves
<1>8. OnlyMoves(i)
  BY <1>5, <1>7, MovesOnly
<1>9. ~Held(i)' /\ ~IsLoad(i)
  <2>1. i \notin alu' /\ i \notin oc /\ i # m_dispatch_reg
    BY <1>1, <1>3, <1>5 DEF StagesOf
  <2>2. i # smem /\ ~IsLoad(i) /\ ~Accessing(i)
    BY <1>3, <1>5 DEF StagesOf, MemOps, IsLoad, Accessing
  <2>3. m_next_wb # i
    BY <1>3, <2>2, <1>5 DEF Flight, Staged, MemOps, StagesOf
  <2>4. ~(Answers(i) > 0)
    BY <1>3, <1>5, <2>2, <2>3 DEF StagesOf
  <2> QED BY <1>2, <1>6, <2>1, <2>2, <2>4 DEF Held
<1>10. i \notin InFlight'
  BY <1>2, <1>3, <1>5, <1>9 DEF StagesOf
<1>11. i.warp \in Warps
  BY <1>3, CodedTyped
<1>12. Apart(i)'
  BY <1>9 DEF Apart, Held
<1>13. Separate'
  BY <1>5, <1>7, <1>12, SeparateMove DEF Flight
<1>14. Reserved'
  BY <1>1, <1>5, <1>8, <1>10, <1>11, ReleaseNothing, ReservedMove DEF Flight
<1>15. Waits'
  BY <1>2, <1>5, <1>8, <1>9, <1>11, WaitsMove DEF Flight, Reserved
<1> QED BY <1>4, <1>13, <1>14, <1>15 DEF Flight

LEMMA LdstIssueStep ==
    ASSUME ShaderCoreAssumption, program \in Programs, Flight, LdstIssue
    PROVE  Flight'
<1>1. PICK i \in oc :
        /\ oc' = oc \ {i} /\ m_dispatch_reg' = i
        /\ accessq' = IF Accessing(i) THEN Code(i).n ELSE 0
        /\ m_pending_writes' = IF IsLoad(i) THEN Pending(i, Code(i).n) ELSE m_pending_writes
  BY Zenon DEF LdstIssue, Accessing
<1>2. /\ m_dispatch_reg = None /\ UNCHANGED <<smem, l1_latency_queue, mem, m_next_wb, reg_table, alu>>
      /\ program' = program /\ Coded' = Coded /\ (\A j : Code(j)' = Code(j)) /\ (\A j : IsLoad(j)' = IsLoad(j))
  BY SameProgram DEF LdstIssue, ctas
<1>3. i \in Coded /\ Code(i).op \in MemOps /\ i \in InFlight
  BY <1>1 DEF Flight, Staged, InFlight, InPipeline
<1>4. i.warp \in Warps /\ i # None /\ Code(i).n \in Nat
  BY <1>3, CodedTyped
<1>5. \A j : Accessing(j)' <=> Accessing(j)
  BY <1>2, Zenon DEF Accessing
<1>6. Staged'
  <2>1. accessq' \in Nat /\ (accessq' > 0 => Accessing(i))
    BY <1>1, <1>4
  <2> QED BY <1>1, <1>2, <1>3, <1>4, <1>5, <2>1 DEF Flight, Staged
<1>7. StagesOf /\ StagesOf'
  BY <1>2, <1>6, FlightStages
<1>8. \A j : Answers(j)' = Answers(j)
  BY <1>2, Zenon DEF Answers
<1>9. \A j \in Coded : j # None
  BY <1>7 DEF StagesOf
<1>10. Moves(i)
  BY <1>1, <1>2, <1>3, <1>8, <1>9 DEF Moves
<1>11. OnlyMoves(i)
  BY <1>7, <1>10, MovesOnly
<1>12. i \in InFlight'
  BY <1>1, <1>2, <1>3, <1>7 DEF StagesOf, Held
<1>13. Apart(i)'
  <2>1. Apart(i) /\ i \in oc
    BY <1>1, <1>3 DEF Flight, Separate
  <2> QED BY <1>1, <1>2, <1>8, <2>1 DEF Apart
<1>14. Separate'
  BY <1>7, <1>10, <1>13, SeparateMove DEF Flight
<1>15. Reserved'
  BY <1>2, <1>4, <1>7, <1>11, <1>12, ReservedMove DEF Flight
<1>16. ASSUME IsLoad(i) PROVE Awaited(i)' = Awaited(i) + Code(i).n
  <2>1. accessq' = Code(i).n
    BY <1>1, <1>16 DEF IsLoad, Accessing
  <2>2. Awaited(i)' = Answers(i)' + Code(i).n
    BY <1>1, <2>1 DEF Awaited
  <2>3. Awaited(i) = Answers(i) + 0
    BY <1>2, <1>4 DEF Awaited
  <2>4. Answers(i) \in Nat /\ Answers(i)' = Answers(i)
    BY <1>3, <1>7, <1>8 DEF StagesOf
  <2> QED BY <1>4, <2>2, <2>3, <2>4
<1>17. Code(i).n \in Int /\ NoSharing /\ Waits
  BY <1>4 DEF Flight, Reserved
<1>18. Waits'
  BY <1>1, <1>4, <1>7, <1>11, <1>16, <1>17, WaitsMove
<1> QED BY <1>6, <1>14, <1>15, <1>18 DEF Flight

\* What issue_warp does with an instruction i of warp w.
Issues(w, i) ==
    /\ CanTest(w) /\ i \notin InFlight /\ i.warp = w /\ i.cta = cta_of[SlotOf(w)]
    /\ Code(i).out \subseteq Regs /\ Code(i).out \cap reg_table[w] = {}
    /\ \/ Code(i).op \in MemOps /\ oc' = oc \cup {i} /\ alu' = alu
       \/ Code(i).op \notin MemOps /\ alu' = alu \cup {i} /\ oc' = oc
    /\ reg_table' = [reg_table EXCEPT ![w] = reg_table[w] \cup Code(i).out]
    /\ m_ibuffer' = [m_ibuffer EXCEPT ![w] = IF Code(i).op = "exit" THEN <<>> ELSE Tail(m_ibuffer[w])]
    /\ m_inst_in_pipeline' =
          IF Code(i).op = "exit" THEN [m_inst_in_pipeline EXCEPT ![w] = m_inst_in_pipeline[w] - (Len(m_ibuffer[w]) - 1)]
          ELSE m_inst_in_pipeline
    /\ functional_done' = [functional_done EXCEPT ![w] = (Code(i).op = "exit")]
    /\ m_n_atomic' = [m_n_atomic EXCEPT ![w] =
                         IF Code(i).op = "atom" THEN m_n_atomic[w] + Code(i).n ELSE m_n_atomic[w]]
    /\ UNCHANGED <<program, cta_of, m_done_exit, m_dispatch_reg, accessq, smem, l1_latency_queue, mem, m_next_wb,
                   m_pending_writes, m_stores_outstanding>>

LEMMA IssueEffect ==
    ASSUME ShaderCoreAssumption, CoreInv, IsFiniteSet(InFlight), NEW w \in Warps, IssueWarp(w)
    PROVE  \E i \in Coded : Issues(w, i)
<1> DEFINE inst == Text(w)[pc[w]]
           i == Instance(w)
<1>1. /\ CanTest(w) /\ ~CheckCollision(w, inst)
      /\ \/ inst.op \in MemOps /\ oc' = oc \cup {i} /\ alu' = alu
         \/ inst.op \notin MemOps /\ alu' = alu \cup {i} /\ oc' = oc
      /\ reg_table' = [reg_table EXCEPT ![w] = reg_table[w] \cup inst.out]
      /\ m_ibuffer' = [m_ibuffer EXCEPT ![w] = IF inst.op = "exit" THEN <<>> ELSE Tail(m_ibuffer[w])]
      /\ m_inst_in_pipeline' =
            IF inst.op = "exit" THEN [m_inst_in_pipeline EXCEPT ![w] = m_inst_in_pipeline[w] - (Len(m_ibuffer[w]) - 1)]
            ELSE m_inst_in_pipeline
      /\ functional_done' = [functional_done EXCEPT ![w] = (inst.op = "exit")]
      /\ m_n_atomic' = [m_n_atomic EXCEPT ![w] = IF inst.op = "atom" THEN m_n_atomic[w] + inst.n ELSE m_n_atomic[w]]
  BY Zenon DEF IssueWarp
<1>2. UNCHANGED <<program, cta_of, m_done_exit, m_dispatch_reg, accessq, smem, l1_latency_queue, mem, m_next_wb,
                  m_pending_writes, m_stores_outstanding>>
  BY Zenon DEF IssueWarp, ctas
<1>3. /\ i \in Coded /\ i \notin InFlight /\ i.warp = w /\ i.cta = cta_of[SlotOf(w)]
      /\ Code(i) = inst /\ inst.out \subseteq Regs
  <2>1. PICK u \in Nat : i = Numbered(w, u) /\ Numbered(w, u) \notin InFlight
    BY Fresh
  <2> HIDE DEF i, inst
  <2>2. /\ \A v \in Nat : /\ Numbered(w, v) \in Coded /\ Numbered(w, v).warp = w
                           /\ Numbered(w, v).cta = cta_of[SlotOf(w)] /\ Code(Numbered(w, v)) = inst
        /\ inst.out \subseteq Regs
    BY Issued, Zenon DEF inst, CoreInv
  <2> QED BY <2>1, <2>2
<1> HIDE DEF i, inst
<1>4. inst.out \cap reg_table[w] = {}
  BY <1>1 DEF CheckCollision
<1> QED BY <1>1, <1>2, <1>3, <1>4, Zenon DEF Issues

\* A warp issues: its registers are free, so nothing in flight writes them.
LEMMA IssueFlight ==
    ASSUME ShaderCoreAssumption, CoreInv, Flight, IsFiniteSet(InFlight), NEW w \in Warps, IssueWarp(w)
    PROVE  Flight'
<1>1. PICK i \in Coded :
        /\ i \notin InFlight /\ i.warp = w /\ Code(i).out \subseteq Regs /\ Code(i).out \cap reg_table[w] = {}
        /\ \/ Code(i).op \in MemOps /\ oc' = oc \cup {i} /\ alu' = alu
           \/ Code(i).op \notin MemOps /\ alu' = alu \cup {i} /\ oc' = oc
        /\ reg_table' = [reg_table EXCEPT ![w] = reg_table[w] \cup Code(i).out]
        /\ UNCHANGED <<program, m_dispatch_reg, accessq, smem, l1_latency_queue, mem, m_next_wb, m_pending_writes>>
  BY IssueEffect, Zenon DEF Issues
<1>2. i \in Coded /\ i \notin InFlight /\ i.warp = w /\ Code(i).out \subseteq Regs /\ program \in Programs
  BY <1>1 DEF CoreInv, Contexts
<1>3. /\ Coded' = Coded /\ (\A j : Code(j)' = Code(j)) /\ (\A j : IsLoad(j)' = IsLoad(j))
      /\ \A j : Answers(j)' = Answers(j)
  <2>1. Coded' = Coded /\ (\A j : Code(j)' = Code(j)) /\ (\A j : IsLoad(j)' = IsLoad(j))
    BY <1>1, SameProgram
  <2>2. \A j : Answers(j)' = Answers(j)
    BY <1>1, Zenon DEF Answers
  <2> QED BY <2>1, <2>2
<1>4. \A j : Awaited(j)' = Awaited(j) /\ (Accessing(j)' <=> Accessing(j))
  BY <1>1, <1>3, Zenon DEF Awaited, Accessing
<1>5. Staged'
  BY <1>1, <1>2, <1>3, <1>4 DEF Flight, Staged
<1>6. StagesOf /\ StagesOf'
  BY <1>1, <1>2, <1>5, FlightStages
<1>7. InFlight' = InFlight \cup {i}
  BY <1>1, Zenon DEF InFlight, InPipeline, Answering
<1>8. ASSUME NEW j \in InFlight, j.warp = w PROVE Code(j).out \cap Code(i).out = {}
  <2>1. \A r \in Code(j).out : r \in reg_table[w]
    BY <1>8, ReservedIs DEF Flight, Reserved
  <2>2. Code(i).out \cap reg_table[w] = {}
    BY <1>1
  <2> QED BY <2>1, <2>2
<1>9. ~Held(i) /\ Answers(i) = 0 /\ Awaited(i) = 0
  <2>1. ~Held(i) /\ Answers(i) \in Nat
    BY <1>2, <1>6 DEF StagesOf
  <2> QED BY <2>1 DEF Held, Awaited
<1>10. Separate'
  <2>1. ASSUME NEW j \in InFlight' PROVE Apart(j)'
    <3>1. CASE j = i
      <4>1. Answers(i)' = 0 /\ i # m_dispatch_reg' /\ i # smem'
        BY <1>1, <1>3, <1>9 DEF Held
      <4>2. Apart(i)'
        BY <4>1 DEF Apart
      <4> QED BY <3>1, <4>2
    <3>2. CASE j # i
      <4>1. Apart(j) /\ (j \in oc' <=> j \in oc)
        BY <1>1, <1>7, <2>1, <3>2 DEF Flight, Separate
      <4> QED BY <1>1, <1>3, <4>1 DEF Apart
    <3> QED BY <3>1, <3>2
  <2> QED BY <2>1 DEF Separate
<1>11. NoSharing'
  <2>1. ASSUME NEW j \in InFlight', NEW k \in InFlight', j.warp = k.warp, Code(j).out \cap Code(k).out # {}
        PROVE  j = k
    BY <1>2, <1>7, <1>8, <2>1 DEF Flight, Reserved, NoSharing
  <2> QED BY <1>3, <2>1 DEF NoSharing
<1>12. reg_table' \in [Warps -> SUBSET Regs]
  BY <1>1, <1>2 DEF Flight, Reserved
<1>13. ScoreboardExact'
  <2>1. ASSUME NEW v \in Warps, NEW r
        PROVE  r \in reg_table'[v] <=> \E j \in InFlight' : j.warp = v /\ r \in Code(j)'.out
    <3>1. r \in reg_table[v] <=> \E j \in InFlight : j.warp = v /\ r \in Code(j).out
      BY ReservedIs DEF Flight, Reserved
    <3>2. r \in reg_table'[v] <=> r \in reg_table[v] \/ (v = w /\ r \in Code(i).out)
      BY <1>1 DEF Flight, Reserved
    <3> QED BY <1>2, <1>3, <1>7, <3>1, <3>2
  <2>2. ASSUME NEW v \in Warps
        PROVE  reg_table'[v] = UNION {Code(j)'.out : j \in {k \in InFlight' : k.warp = v}}
    BY <2>1
  <2> QED BY <2>2 DEF ScoreboardExact
<1>14. Waits'
  <2>1. \A j, v, r : Loads(j, v, r)' <=> Loads(j, v, r)
    BY <1>3, Zenon DEF Loads
  <2>2. ASSUME NEW v \in Warps, NEW r \in Regs
        PROVE  /\ \A j \in InFlight' : Loads(j, v, r) => m_pending_writes[v][r] = Awaited(j)
               /\ (\A j \in InFlight' : ~Loads(j, v, r)) => m_pending_writes[v][r] = 0
    <3>1. /\ \A j \in InFlight : Loads(j, v, r) => m_pending_writes[v][r] = Awaited(j)
          /\ (\A j \in InFlight : ~Loads(j, v, r)) => m_pending_writes[v][r] = 0
      BY DEF Flight, Waits
    <3>2. ASSUME Loads(i, v, r) PROVE m_pending_writes[v][r] = 0 /\ Awaited(i) = 0
      <4>1. v = w /\ r \in Code(i).out
        BY <1>2, <3>2 DEF Loads
      <4>2. \A j \in InFlight : ~Loads(j, v, r)
        BY <1>8, <4>1 DEF Loads
      <4> QED BY <1>9, <3>1, <4>2
    <3> QED BY <1>7, <3>1, <3>2
  <2>3. m_pending_writes' = m_pending_writes /\ m_pending_writes \in [Warps -> [Regs -> Nat]]
    BY <1>1 DEF Flight, Waits
  <2> QED BY <1>4, <2>1, <2>2, <2>3 DEF Waits
<1> QED BY <1>5, <1>10, <1>11, <1>12, <1>13, <1>14 DEF Flight, Reserved

\* A reply for the load i is written back.
LEMMA ReplyMove ==
    ASSUME ShaderCoreAssumption, program \in Programs, Flight, program' = program, Staged',
           NEW i \in Coded, IsLoad(i), Answers(i) > 0,
           \A j \in Coded : Answers(j)' = Answers(j) - (IF j = i THEN 1 ELSE 0),
           UNCHANGED <<alu, oc, m_dispatch_reg, accessq, smem>>, ReplyWritten(i)
    PROVE  Flight'
<1>1. StagesOf /\ StagesOf' /\ Coded' = Coded
  BY FlightStages, SameProgram
<1>2. i.warp \in Warps /\ Code(i).out \subseteq Regs
  BY CodedTyped
<1>3. i \in InFlight
  BY <1>1 DEF StagesOf, Held
<1>4. /\ Answers(i) \in Nat /\ Awaited(i) \in Nat /\ Awaited(i)' \in Nat
      /\ Answers(i)' = Answers(i) - 1 /\ Answers(i)' \in Nat
      /\ \A j \in Coded : j # i => Answers(j)' = Answers(j)
  <2>1. \A j \in Coded : Answers(j) \in Nat
    BY <1>1 DEF StagesOf
  <2>2. Awaited(i) \in Nat /\ Awaited(i)' \in Nat /\ Answers(i)' \in Nat
    BY <1>1 DEF StagesOf
  <2> QED BY <2>1, <2>2
<1>5. Moves(i)
  BY <1>3, <1>4 DEF Moves
<1>6. OnlyMoves(i)
  BY <1>1, <1>5, MovesOnly
<1>7. Awaited(i)' = Awaited(i) + (-1)
  <2>1. accessq \in Nat
    BY DEF Flight, Staged
  <2> QED BY <1>4, <2>1 DEF Awaited
<1>8. m_pending_writes' = Pending(i, -1)
      /\ ReleaseRegisters(i.warp, {r \in Code(i).out : m_pending_writes[i.warp][r] = 1})
  BY DEF ReplyWritten
<1>9. -1 \in Int /\ NoSharing /\ Waits
  BY DEF Flight, Reserved
<1>10. Waits'
  BY <1>1, <1>2, <1>6, <1>7, <1>8, <1>9, WaitsMove
<1>11. Apart(i)
  BY <1>3 DEF Flight, Separate
<1>12. Separate'
  <2>1. Apart(i)'
    <3>1. \A j : Code(j)' = Code(j)
      BY SameProgram
    <3> QED BY <1>4, <1>11, <3>1 DEF Apart
  <2> QED BY <1>1, <1>5, <2>1, SeparateMove DEF Flight
<1>13. ASSUME Code(i).out # {} PROVE i \in InFlight' <=> Awaited(i)' > 0
  <2>1. i \notin oc /\ i # smem /\ (i = m_dispatch_reg => accessq > 0)
    <3>1. accessq \in Nat
      BY DEF Flight, Staged
    <3> QED BY <1>4, <1>11, <1>13, <3>1 DEF Apart
  <2>2. i \notin alu
    BY <1>1 DEF StagesOf, IsLoad, MemOps
  <2>3. i \in InFlight' <=> i = m_dispatch_reg \/ Answers(i)' > 0
    BY <1>1, <2>1, <2>2 DEF StagesOf, Held
  <2>4. Awaited(i)' = Answers(i)' + IF m_dispatch_reg = i THEN accessq ELSE 0
    BY DEF Awaited
  <2>5. accessq \in Nat
    BY DEF Flight, Staged
  <2> QED BY <1>4, <2>1, <2>3, <2>4, <2>5
<1>14. reg_table' = IF i \in InFlight' \/ Code(i).out = {} THEN reg_table
                    ELSE [reg_table EXCEPT ![i.warp] = reg_table[i.warp] \ Code(i).out]
  <2> DEFINE S == {r \in Code(i).out : m_pending_writes[i.warp][r] = 1}
  <2>1. /\ reg_table' = [reg_table EXCEPT ![i.warp] = reg_table[i.warp] \ S]
        /\ S = {} => reg_table' = reg_table
    BY <1>2, <1>8, ReleaseNothing DEF Flight
  <2>2. \A r \in Code(i).out : m_pending_writes[i.warp][r] = Awaited(i)
    BY <1>2, <1>3, <1>9 DEF Waits, Loads
  <2>3. Awaited(i)' > 0 => S = {}
    BY <1>4, <1>7, <2>2
  <2>4. ~(Awaited(i)' > 0) => S = Code(i).out
    BY <1>4, <1>7, <2>2
  <2> HIDE DEF S
  <2>5. CASE Code(i).out = {}
    <3>1. S = {}
      BY <2>5 DEF S
    <3> QED BY <2>1, <2>5, <3>1
  <2>6. CASE Code(i).out # {}
    BY <1>13, <2>1, <2>3, <2>4, <2>6
  <2> QED BY <2>5, <2>6
<1>15. Reserved'
  BY <1>1, <1>2, <1>6, <1>14, ReservedMove DEF Flight
<1> QED BY <1>10, <1>12, <1>15 DEF Flight

\* An instruction goes on to wait elsewhere, or a store is done.
LEMMA QuietMove ==
    ASSUME ShaderCoreAssumption, program \in Programs, Flight, program' = program, Staged',
           NEW i \in Coded, i \in InFlight,
           Answers(i)' = Answers(i) \/ (Code(i).op = "store" /\ Answers(i) # 0),
           \A j \in Coded : j # i => Answers(j)' = Answers(j),
           UNCHANGED <<alu, oc, m_dispatch_reg, accessq, smem, m_pending_writes, reg_table>>
    PROVE  Flight'
<1>1. StagesOf /\ StagesOf' /\ Coded' = Coded /\ \A j : Code(j)' = Code(j)
  BY FlightStages, SameProgram
<1>2. i.warp \in Warps /\ (Code(i).op = "store" => Code(i).out = {} /\ ~IsLoad(i))
  BY CodedTyped DEF IsLoad
<1>3. Moves(i)
  BY DEF Moves
<1>4. OnlyMoves(i)
  BY <1>1, <1>3, MovesOnly
<1>5. Answers(i)' = Answers(i) => Awaited(i)' = Awaited(i) /\ i \in InFlight'
  <2>1. Answers(i)' = Answers(i) => (Held(i)' <=> Held(i))
    BY DEF Held
  <2> QED BY <1>1, <2>1 DEF StagesOf, Awaited
<1>6. Separate'
  <2>1. Apart(i)
    BY DEF Flight, Separate
  <2>2. Apart(i)'
    BY <1>1, <1>2, <2>1 DEF Apart
  <2> QED BY <1>1, <1>3, <2>2, SeparateMove DEF Flight
<1>7. reg_table' = IF i \in InFlight' \/ Code(i).out = {} THEN reg_table
                   ELSE [reg_table EXCEPT ![i.warp] = reg_table[i.warp] \ Code(i).out]
  BY <1>2, <1>5
<1>8. Reserved'
  BY <1>1, <1>2, <1>4, <1>7, ReservedMove DEF Flight
<1>9. Waits'
  <2>1. 0 \in Int /\ Awaited(i) \in Nat /\ NoSharing /\ Waits
    BY <1>1 DEF StagesOf, Flight, Reserved
  <2>2. m_pending_writes' = IF IsLoad(i) THEN Pending(i, 0) ELSE m_pending_writes
    <3>1. m_pending_writes = Pending(i, 0)
      <4>1. m_pending_writes \in [Warps -> [Regs -> Nat]]
        BY <2>1 DEF Waits
      <4>2. [r \in Regs |-> IF r \in Code(i).out THEN m_pending_writes[i.warp][r] + 0
                            ELSE m_pending_writes[i.warp][r]] = m_pending_writes[i.warp]
        BY <1>2, <4>1
      <4> QED BY <1>2, <4>1, <4>2 DEF Pending
    <3> QED BY <3>1
  <2>3. IsLoad(i) => Awaited(i)' = Awaited(i) + 0
    BY <1>2, <1>5, <2>1
  <2> QED BY <1>1, <1>2, <1>4, <2>1, <2>2, <2>3, WaitsMove
<1> QED BY <1>6, <1>8, <1>9 DEF Flight

LEMMA L1QueueStep ==
    ASSUME ShaderCoreAssumption, program \in Programs, Flight, L1LatencyQueueCycle
    PROVE  Flight'
<1>1. PICK i \in BagToSet(l1_latency_queue) :
        /\ l1_latency_queue' = l1_latency_queue (-) One(i)
        /\ \/ mem' = mem (+) One(i) /\ UNCHANGED <<m_pending_writes, reg_table>>
           \/ IsLoad(i) /\ ReplyWritten(i) /\ UNCHANGED mem
           \/ Code(i).op = "store" /\ UNCHANGED <<mem, m_pending_writes, reg_table>>
  BY Zenon DEF L1LatencyQueueCycle
<1>2. /\ UNCHANGED <<alu, oc, m_dispatch_reg, accessq, smem, m_next_wb>>
      /\ program' = program /\ Coded' = Coded /\ (\A j : Code(j)' = Code(j)) /\ (\A j : IsLoad(j)' = IsLoad(j))
      /\ \A j : Accessing(j)' <=> Accessing(j)
  <2>1. program' = program /\ UNCHANGED <<alu, oc, m_dispatch_reg, accessq, smem, m_next_wb>>
    BY DEF L1LatencyQueueCycle, ctas
  <2>2. Coded' = Coded /\ (\A j : Code(j)' = Code(j)) /\ (\A j : IsLoad(j)' = IsLoad(j))
    BY <2>1, SameProgram
  <2> QED BY <2>1, <2>2, Zenon DEF Accessing
<1>3. i \in Coded /\ Accessing(i) /\ i \in InFlight
  BY <1>1 DEF Flight, Staged, InFlight, Answering
<1>4. /\ IsABag(l1_latency_queue') /\ BagToSet(l1_latency_queue') \subseteq BagToSet(l1_latency_queue)
      /\ \A j : In(l1_latency_queue', j) = In(l1_latency_queue, j) - (IF j = i THEN 1 ELSE 0)
  BY <1>1, BagTake DEF Flight, Staged
<1>5. /\ IsABag(mem') /\ BagToSet(mem') \subseteq BagToSet(mem) \cup {i}
      /\ \/ \A j : In(mem', j) = In(mem, j) + (IF j = i THEN 1 ELSE 0)
         \/ mem' = mem
  BY <1>1, BagPut DEF Flight, Staged
<1>6. Staged'
  BY <1>2, <1>3, <1>4, <1>5 DEF Flight, Staged
<1>7. \A j : Answers(j)' = In(l1_latency_queue', j) + In(mem', j) + One01(m_next_wb = j)
  BY <1>2 DEF Answers, In
<1>8. \A j : In(l1_latency_queue, j) \in Nat /\ In(mem, j) \in Nat /\ One01(m_next_wb = j) \in Nat
  BY CountIn DEF One01, Flight, Staged
<1>9. CASE mem' = mem (+) One(i) /\ UNCHANGED <<m_pending_writes, reg_table>>
  <2>1. \A j : In(mem', j) = In(mem, j) + (IF j = i THEN 1 ELSE 0)
    BY <1>9, BagPut DEF Flight, Staged
  <2>2. ASSUME NEW j PROVE Answers(j)' = Answers(j)
    <3>1. /\ In(mem', j) = In(mem, j) + (IF j = i THEN 1 ELSE 0)
          /\ In(l1_latency_queue', j) = In(l1_latency_queue, j) - (IF j = i THEN 1 ELSE 0)
      BY <1>4, <2>1
    <3>2. In(l1_latency_queue, j) \in Nat /\ In(mem, j) \in Nat /\ One01(m_next_wb = j) \in Nat
      BY <1>8
    <3>3. Answers(j)' = In(l1_latency_queue', j) + In(mem', j) + One01(m_next_wb = j)
      BY <1>7
    <3>4. Answers(j) = In(l1_latency_queue, j) + In(mem, j) + One01(m_next_wb = j)
      BY DEF Answers
    <3> QED BY <3>1, <3>2, <3>3, <3>4
  <2> QED BY <1>2, <1>3, <1>6, <1>9, <2>2, QuietMove
<1>10. ASSUME UNCHANGED mem
       PROVE  \A j : Answers(j)' = Answers(j) - (IF j = i THEN 1 ELSE 0)
  <2>1. \A j : In(mem', j) = In(mem, j)
    BY <1>10
  <2> QED BY <1>4, <1>7, <1>8, <2>1 DEF Answers
<1>11. CASE IsLoad(i) /\ ReplyWritten(i) /\ UNCHANGED mem
  <2>1. Answers(i) > 0
    <3>1. In(l1_latency_queue, i) > 0
      BY <1>1, CountIn DEF Flight, Staged
    <3> QED BY <1>8, <3>1 DEF Answers
  <2> QED BY <1>2, <1>3, <1>6, <1>10, <1>11, <2>1, ReplyMove
<1>12. CASE Code(i).op = "store" /\ UNCHANGED <<mem, m_pending_writes, reg_table>>
  <2>1. (\A j : j # i => Answers(j)' = Answers(j)) /\ Answers(i) # 0
    <3>1. \A j : Answers(j) \in Nat
      BY <1>8 DEF Answers
    <3>2. In(l1_latency_queue, i) > 0
      BY <1>1, CountIn DEF Flight, Staged
    <3>3. \A j : j # i => Answers(j)' = Answers(j)
      <4>1. \A j : Answers(j)' = Answers(j) - (IF j = i THEN 1 ELSE 0)
        BY <1>10, <1>12
      <4> QED BY <4>1, <3>1
    <3>4. In(mem, i) \in Nat /\ One01(m_next_wb = i) \in Nat /\ In(l1_latency_queue, i) \in Nat
      BY <1>8
    <3>5. Answers(i) = In(l1_latency_queue, i) + In(mem, i) + One01(m_next_wb = i)
      BY DEF Answers
    <3>6. Answers(i) # 0
      BY <3>2, <3>4, <3>5
    <3> QED BY <3>3, <3>6
  <2>2. \A j \in Coded : j # i => Answers(j)' = Answers(j)
    BY <2>1
  <2>3. Code(i).op = "store" /\ Answers(i) # 0
        /\ UNCHANGED <<alu, oc, m_dispatch_reg, accessq, smem, m_pending_writes, reg_table>>
    BY <1>2, <1>12, <2>1
  <2> QED BY <1>2, <1>3, <1>6, <2>2, <2>3, QuietMove
<1> QED BY <1>1, <1>9, <1>11, <1>12

LEMMA StoreAckStep ==
    ASSUME ShaderCoreAssumption, program \in Programs, Flight, StoreAck
    PROVE  Flight'
<1>1. PICK i \in BagToSet(mem) : Code(i).op = "store" /\ mem' = mem (-) One(i)
  BY Zenon DEF StoreAck
<1>2. UNCHANGED <<program, alu, oc, m_dispatch_reg, accessq, smem, l1_latency_queue, m_next_wb, m_pending_writes,
                  reg_table>>
  BY DEF StoreAck, ctas
<1>3. /\ Coded' = Coded /\ (\A j : Code(j)' = Code(j)) /\ (\A j : IsLoad(j)' = IsLoad(j))
      /\ \A j : Accessing(j)' <=> Accessing(j)
  <2>1. Coded' = Coded /\ (\A j : Code(j)' = Code(j)) /\ (\A j : IsLoad(j)' = IsLoad(j))
    BY <1>2, SameProgram
  <2> QED BY <2>1, Zenon DEF Accessing
<1>4. i \in Coded /\ i \in InFlight
  BY <1>1 DEF Flight, Staged, InFlight, Answering
<1>5. /\ IsABag(mem') /\ BagToSet(mem') \subseteq BagToSet(mem)
      /\ \A j : In(mem', j) = In(mem, j) - (IF j = i THEN 1 ELSE 0)
  BY <1>1, BagTake DEF Flight, Staged
<1>6. Staged'
  BY <1>2, <1>3, <1>5 DEF Flight, Staged
<1>7. ASSUME NEW j, j # i PROVE Answers(j)' = Answers(j)
  <2>1. In(mem, j) \in Nat
    BY CountIn DEF Flight, Staged
  <2>2. In(mem', j) = In(mem, j)
    BY <1>5, <1>7, <2>1
  <2> QED BY <1>2, <2>2 DEF Answers, In
<1>8. Answers(i) # 0
  <2>1. In(mem, i) > 0 /\ In(mem, i) \in Nat /\ In(l1_latency_queue, i) \in Nat /\ One01(m_next_wb = i) \in Nat
    BY <1>1, CountIn DEF One01, Flight, Staged
  <2> QED BY <2>1 DEF Answers
<1> QED BY <1>1, <1>2, <1>4, <1>6, <1>7, <1>8, QuietMove

LEMMA WritebackClientStep ==
    ASSUME ShaderCoreAssumption, program \in Programs, Flight, WritebackClient
    PROVE  Flight'
<1>1. /\ m_next_wb = None
      /\ UNCHANGED <<program, alu, oc, m_dispatch_reg, accessq, l1_latency_queue, m_pending_writes, reg_table>>
      /\ \/ \E i \in BagToSet(mem) : IsLoad(i) /\ mem' = mem (-) One(i) /\ m_next_wb' = i /\ smem' = smem
         \/ smem # None /\ m_next_wb' = smem /\ smem' = None /\ mem' = mem
  BY DEF WritebackClient, ctas
<1>2. /\ Coded' = Coded /\ (\A j : Code(j)' = Code(j)) /\ (\A j : IsLoad(j)' = IsLoad(j))
      /\ \A j : Accessing(j)' <=> Accessing(j)
  <2>1. Coded' = Coded /\ (\A j : Code(j)' = Code(j)) /\ (\A j : IsLoad(j)' = IsLoad(j))
    BY <1>1, SameProgram
  <2> QED BY <2>1, Zenon DEF Accessing
<1>3. NoneApart
  BY StagesNone
<1>4. \A j : In(l1_latency_queue, j) \in Nat /\ In(mem, j) \in Nat
  BY CountIn DEF Flight, Staged
<1>5. \A j : /\ Answers(j) = In(l1_latency_queue, j) + In(mem, j) + One01(m_next_wb = j)
             /\ Answers(j)' = In(l1_latency_queue, j) + In(mem', j) + One01(m_next_wb' = j)
  BY <1>1 DEF Answers, In
<1>6. ASSUME NEW i \in BagToSet(mem), IsLoad(i), mem' = mem (-) One(i), m_next_wb' = i, smem' = smem
      PROVE  Flight'
  <2>1. i \in Coded /\ i \in InFlight /\ i # None
    BY <1>3, <1>6 DEF Flight, Staged, InFlight, Answering, NoneApart
  <2>2. /\ IsABag(mem') /\ BagToSet(mem') \subseteq BagToSet(mem)
        /\ \A j : In(mem', j) = In(mem, j) - (IF j = i THEN 1 ELSE 0)
    BY <1>6, BagTake DEF Flight, Staged
  <2>3. Staged'
    BY <1>1, <1>2, <1>6, <2>1, <2>2 DEF Flight, Staged
  <2>4. ASSUME NEW j \in Coded PROVE Answers(j)' = Answers(j)
    <3>1. One01(m_next_wb = j) = 0 /\ One01(m_next_wb' = j) = IF j = i THEN 1 ELSE 0
      BY <1>1, <1>3, <1>6 DEF One01, NoneApart
    <3>2. In(mem', j) = In(mem, j) - (IF j = i THEN 1 ELSE 0)
      BY <2>2
    <3> QED BY <1>4, <1>5, <3>1, <3>2
  <2> QED BY <1>1, <1>6, <2>1, <2>3, <2>4, QuietMove
<1>7. ASSUME NEW i, i = smem, i # None, m_next_wb' = i, smem' = None, mem' = mem
      PROVE  Flight'
  <2>1. i \in Coded /\ i \in InFlight /\ Code(i).op = "shared"
    BY <1>7 DEF Flight, Staged, InFlight, InPipeline
  <2>2. Staged'
    BY <1>1, <1>2, <1>7, <2>1 DEF Flight, Staged
  <2>3. StagesOf /\ StagesOf'
    BY <1>1, <2>2, FlightStages
  <2>4. ASSUME NEW j \in Coded PROVE Answers(j)' = Answers(j) + (IF j = i THEN 1 ELSE 0)
    <3>1. One01(m_next_wb = j) = 0 /\ One01(m_next_wb' = j) = IF j = i THEN 1 ELSE 0
      BY <1>1, <1>3, <1>7 DEF One01, NoneApart
    <3> QED BY <1>4, <1>5, <1>7, <3>1
  <2>5. Moves(i)
    <3>1. \A j \in Coded : j # i => Answers(j)' = Answers(j)
      BY <2>3, <2>4 DEF StagesOf
    <3> QED BY <1>1, <1>3, <1>7, <2>1, <3>1 DEF Moves, NoneApart
  <2>6. OnlyMoves(i)
    BY <2>3, <2>5, MovesOnly
  <2>7. i \in InFlight'
    <3>1. Answers(i)' > 0
      BY <2>1, <2>3, <2>4 DEF StagesOf
    <3> QED BY <1>2, <2>1, <2>3, <3>1 DEF StagesOf, Held
  <2>8. Separate'
    <3>1. Apart(i)
      BY <2>1 DEF Flight, Separate
    <3>2. Apart(i)'
      BY <1>1, <1>2, <1>7, <3>1 DEF Apart
    <3> QED BY <2>3, <2>5, <3>2, SeparateMove DEF Flight
  <2>9. i.warp \in Warps /\ ~IsLoad(i)
    BY <2>1, CodedTyped DEF IsLoad
  <2>10. Reserved'
    BY <1>1, <2>3, <2>6, <2>7, <2>9, ReservedMove DEF Flight
  <2>11. Waits'
    <3>1. 0 \in Int /\ NoSharing /\ Waits
      BY DEF Flight, Reserved
    <3> QED BY <1>1, <2>3, <2>6, <2>9, <3>1, WaitsMove
  <2> QED BY <2>2, <2>8, <2>10, <2>11 DEF Flight
<1> QED BY <1>1, <1>6, <1>7

LEMMA LdstWritebackStep ==
    ASSUME ShaderCoreAssumption, program \in Programs, Flight, LdstWriteback
    PROVE  Flight'
<1>1. /\ UNCHANGED <<program, alu, oc, m_dispatch_reg, accessq, smem, l1_latency_queue, mem>> /\ m_next_wb' = None
  BY DEF LdstWriteback, ctas
<1>2. PICK i : i = m_next_wb
  OBVIOUS
<1>3. /\ i # None
      /\ IF Code(i).op = "shared"
         THEN ReleaseRegisters(i.warp, Code(i).out) /\ UNCHANGED m_pending_writes
         ELSE ReplyWritten(i)
  BY <1>2, Zenon DEF LdstWriteback
<1>4. /\ Coded' = Coded /\ (\A j : Code(j)' = Code(j)) /\ (\A j : IsLoad(j)' = IsLoad(j))
      /\ \A j : Accessing(j)' <=> Accessing(j)
  <2>1. Coded' = Coded /\ (\A j : Code(j)' = Code(j)) /\ (\A j : IsLoad(j)' = IsLoad(j))
    BY <1>1, SameProgram
  <2> QED BY <2>1, Zenon DEF Accessing
<1>5. i \in Coded /\ i \in InFlight /\ (IsLoad(i) \/ Code(i).op = "shared") /\ NoneApart
  BY <1>2, <1>3, StagesNone DEF Flight, Staged, InFlight, Answering
<1>6. Staged'
  BY <1>1, <1>4 DEF Flight, Staged
<1>7. StagesOf /\ StagesOf'
  BY <1>1, <1>6, FlightStages
<1>8. ASSUME NEW j \in Coded PROVE Answers(j)' = Answers(j) - (IF j = i THEN 1 ELSE 0)
  <2>1. One01(m_next_wb' = j) = 0 /\ One01(m_next_wb = j) = IF j = i THEN 1 ELSE 0
    BY <1>1, <1>2, <1>5 DEF One01, NoneApart
  <2>2. In(l1_latency_queue, j) \in Nat /\ In(mem, j) \in Nat
    BY CountIn DEF Flight, Staged
  <2>3. /\ Answers(j) = In(l1_latency_queue, j) + In(mem, j) + One01(m_next_wb = j)
        /\ Answers(j)' = In(l1_latency_queue, j) + In(mem, j) + One01(m_next_wb' = j)
    BY <1>1 DEF Answers, In
  <2> QED BY <2>1, <2>2, <2>3
<1>9. Answers(i) > 0 /\ \A j \in Coded : j # i => Answers(j)' = Answers(j)
  <2>1. \A j \in Coded : Answers(j) \in Nat /\ Answers(j)' \in Nat
    BY <1>4, <1>7 DEF StagesOf
  <2> QED BY <1>5, <1>8, <2>1
<1>10. CASE Code(i).op # "shared"
  BY <1>1, <1>3, <1>5, <1>6, <1>8, <1>9, <1>10, ReplyMove
<1>11. CASE Code(i).op = "shared"
  <2>1. ReleaseRegisters(i.warp, Code(i).out) /\ UNCHANGED m_pending_writes /\ ~IsLoad(i) /\ ~Accessing(i)
    BY <1>3, <1>11 DEF IsLoad, Accessing
  <2>2. i.warp \in Warps
    BY <1>5, CodedTyped
  <2>3. Moves(i)
    BY <1>1, <1>5, <1>9 DEF Moves
  <2>4. OnlyMoves(i)
    BY <1>7, <2>3, MovesOnly
  <2>5. Answers(i)' = 0
    <3>1. ~(In(l1_latency_queue, i) > 0) /\ ~(In(mem, i) > 0)
      BY <1>5, <1>7, <2>1 DEF StagesOf
    <3>2. In(l1_latency_queue, i) \in Nat /\ In(mem, i) \in Nat
      BY CountIn DEF Flight, Staged
    <3>3. Answers(i) = 1
      BY <1>2, <3>1, <3>2 DEF Answers, One01
    <3> QED BY <1>5, <1>8, <3>3
  <2>6. Apart(i) /\ (i = m_dispatch_reg => accessq = 0)
    BY <1>3, <1>5, <2>1 DEF Flight, Separate, Staged
  <2>7. ~Held(i)'
    <3>1. i \notin alu
      BY <1>5, <1>7, <1>11 DEF StagesOf, MemOps
    <3>2. i \notin oc /\ i # smem /\ i # m_dispatch_reg
      BY <1>9, <2>6 DEF Apart
    <3> QED BY <1>1, <2>5, <3>1, <3>2 DEF Held
  <2>8. Separate'
    <3>1. Apart(i)'
      BY <2>7 DEF Apart, Held
    <3> QED BY <1>7, <2>3, <3>1, SeparateMove DEF Flight
  <2>9. i \notin InFlight'
    BY <1>4, <1>5, <1>7, <2>7 DEF StagesOf
  <2>10. Reserved'
    <3>1. reg_table' = [reg_table EXCEPT ![i.warp] = reg_table[i.warp] \ Code(i).out]
          /\ (Code(i).out = {} => reg_table' = reg_table)
      BY <2>1, <2>2, ReleaseNothing DEF Flight
    <3>2. reg_table' = IF i \in InFlight' \/ Code(i).out = {} THEN reg_table
                       ELSE [reg_table EXCEPT ![i.warp] = reg_table[i.warp] \ Code(i).out]
      BY <2>9, <3>1
    <3> QED BY <1>7, <2>2, <2>4, <3>2, ReservedMove DEF Flight
  <2>11. Waits'
    <3>1. 0 \in Int /\ NoSharing /\ Waits
      BY DEF Flight, Reserved
    <3> QED BY <1>7, <2>1, <2>2, <2>4, <3>1, WaitsMove
  <2> QED BY <1>6, <2>8, <2>10, <2>11 DEF Flight
<1> QED BY <1>10, <1>11

\* memory_cycle sends n accesses of i that will be answered, and has h answered
\* at once.
Sends(i, n, h) ==
    /\ n + h = IF accessq > 0 THEN 1 ELSE 0
    /\ accessq' = accessq - n - h
    /\ m_pending_writes' = IF IsLoad(i) THEN Pending(i, 0 - h) ELSE m_pending_writes
    /\ IsABag(l1_latency_queue') /\ BagToSet(l1_latency_queue') \subseteq BagToSet(l1_latency_queue) \cup {i}
    /\ IsABag(mem') /\ BagToSet(mem') \subseteq BagToSet(mem) \cup {i}
    /\ n = 0 => UNCHANGED <<l1_latency_queue, mem>>
    /\ \A j : In(l1_latency_queue', j) + In(mem', j)
                = In(l1_latency_queue, j) + In(mem, j) + (IF j = i THEN n ELSE 0)

LEMMA SendEffect ==
    ASSUME ShaderCoreAssumption, program \in Programs, Flight, NEW i \in Coded, i = m_dispatch_reg, MemoryCycle
    PROVE  \E n, h \in {0, 1} : Sends(i, n, h)
<1>1. accessq \in Nat /\ IsABag(l1_latency_queue) /\ IsABag(mem) /\ i.warp \in Warps
      /\ m_pending_writes \in [Warps -> [Regs -> Nat]]
  BY CodedTyped DEF Flight, Staged, Waits
<1>2. m_pending_writes = Pending(i, 0 - 0)
  <2>1. [r \in Regs |-> IF r \in Code(i).out THEN m_pending_writes[i.warp][r] + (0 - 0)
                        ELSE m_pending_writes[i.warp][r]] = m_pending_writes[i.warp]
    BY <1>1
  <2> QED BY <1>1, <2>1 DEF Pending
<1>3. \A j : In(l1_latency_queue, j) \in Nat /\ In(mem, j) \in Nat
  BY <1>1, CountIn
<1>4. IF accessq > 0 THEN SendAccess(i) /\ accessq' = accessq - 1
      ELSE UNCHANGED <<mem, l1_latency_queue, m_pending_writes, accessq>>
  BY Zenon DEF MemoryCycle
<1>5. CASE ~(accessq > 0)
  <2>1. UNCHANGED <<mem, l1_latency_queue, m_pending_writes, accessq>>
    BY <1>4, <1>5
  <2>2. \A j : In(l1_latency_queue', j) + In(mem', j)
                 = In(l1_latency_queue, j) + In(mem, j) + (IF j = i THEN 0 ELSE 0)
    BY <1>3, <2>1
  <2>3. Sends(i, 0, 0)
    BY <1>1, <1>2, <1>5, <2>1, <2>2 DEF Sends
  <2> QED BY <2>3
<1>6. CASE accessq > 0
  <2>1. /\ accessq' = accessq - 1
        /\ \/ mem' = mem (+) One(i) /\ UNCHANGED <<l1_latency_queue, m_pending_writes>>
           \/ l1_latency_queue' = l1_latency_queue (+) One(i) /\ UNCHANGED <<mem, m_pending_writes>>
           \/ /\ m_pending_writes' = IF IsLoad(i) THEN Pending(i, -1) ELSE m_pending_writes
              /\ UNCHANGED <<mem, l1_latency_queue>>
    <3>1. SendAccess(i) /\ accessq' = accessq - 1
      BY <1>4, <1>6
    <3> QED BY <3>1, Zenon DEF SendAccess
  <2>2. CASE mem' = mem (+) One(i) /\ UNCHANGED <<l1_latency_queue, m_pending_writes>>
    <3>1. /\ IsABag(mem') /\ BagToSet(mem') = BagToSet(mem) \cup {i}
          /\ \A j : In(mem', j) = In(mem, j) + (IF j = i THEN 1 ELSE 0)
      BY <1>1, <2>2, BagPut
    <3>2. \A j : In(l1_latency_queue', j) + In(mem', j)
                   = In(l1_latency_queue, j) + In(mem, j) + (IF j = i THEN 1 ELSE 0)
      BY <1>3, <2>2, <3>1
    <3>3. Sends(i, 1, 0)
      BY <1>1, <1>2, <1>6, <2>1, <2>2, <3>1, <3>2 DEF Sends
    <3> QED BY <3>3
  <2>3. CASE l1_latency_queue' = l1_latency_queue (+) One(i) /\ UNCHANGED <<mem, m_pending_writes>>
    <3>1. /\ IsABag(l1_latency_queue') /\ BagToSet(l1_latency_queue') = BagToSet(l1_latency_queue) \cup {i}
          /\ \A j : In(l1_latency_queue', j) = In(l1_latency_queue, j) + (IF j = i THEN 1 ELSE 0)
      BY <1>1, <2>3, BagPut
    <3>2. \A j : In(l1_latency_queue', j) + In(mem', j)
                   = In(l1_latency_queue, j) + In(mem, j) + (IF j = i THEN 1 ELSE 0)
      BY <1>3, <2>3, <3>1
    <3>3. Sends(i, 1, 0)
      BY <1>1, <1>2, <1>6, <2>1, <2>3, <3>1, <3>2 DEF Sends
    <3> QED BY <3>3
  <2>4. CASE /\ m_pending_writes' = IF IsLoad(i) THEN Pending(i, -1) ELSE m_pending_writes
             /\ UNCHANGED <<mem, l1_latency_queue>>
    <3>1. \A j : In(l1_latency_queue', j) + In(mem', j)
                   = In(l1_latency_queue, j) + In(mem, j) + (IF j = i THEN 0 ELSE 0)
      BY <1>3, <2>4
    <3>2. Pending(i, -1) = Pending(i, 0 - 1)
      <4>1. -1 = 0 - 1
        OBVIOUS
      <4> QED BY <4>1, Zenon
    <3>3. Sends(i, 0, 1)
      BY <1>1, <1>6, <2>1, <2>4, <3>1, <3>2 DEF Sends
    <3> QED BY <3>3
  <2> QED BY <2>1, <2>2, <2>3, <2>4
<1> QED BY <1>5, <1>6

LEMMA MemoryStep ==
    ASSUME ShaderCoreAssumption, program \in Programs, Flight, MemoryCycle
    PROVE  Flight'
<1>1. PICK i : i = m_dispatch_reg
  OBVIOUS
<1>2. /\ i # None /\ UNCHANGED <<program, alu, oc, m_next_wb>>
      /\ IF accessq <= 1
         THEN /\ Code(i).op = "shared" => smem = None
              /\ Dispatched(i, m_pending_writes')
         ELSE UNCHANGED <<m_dispatch_reg, smem, reg_table>>
  BY <1>1, Zenon DEF MemoryCycle, ctas
<1>3. i \in Coded /\ i \in InFlight /\ Code(i).op \in MemOps /\ NoneApart
      /\ accessq \in Nat /\ (accessq > 0 => Accessing(i))
  BY <1>1, <1>2, StagesNone DEF Flight, Staged, InFlight, InPipeline
<1>4. i.warp \in Warps /\ Code(i).out \subseteq Regs /\ (Code(i).op \in {"store", "membar"} => Code(i).out = {})
  BY <1>3, CodedTyped
<1>5. PICK n \in {0, 1}, h \in {0, 1} : Sends(i, n, h)
  BY <1>1, <1>3, SendEffect
<1>6. /\ n + h = (IF accessq > 0 THEN 1 ELSE 0) /\ accessq' = accessq - n - h /\ accessq' \in Nat
      /\ accessq > 1 => accessq' > 0
      /\ accessq <= 1 => accessq' = 0
      /\ n = 1 => Accessing(i)
  BY <1>3, <1>5 DEF Sends
<1>7. /\ Coded' = Coded /\ (\A j : Code(j)' = Code(j)) /\ (\A j : IsLoad(j)' = IsLoad(j))
      /\ \A j : Accessing(j)' <=> Accessing(j)
  <2>1. Coded' = Coded /\ (\A j : Code(j)' = Code(j)) /\ (\A j : IsLoad(j)' = IsLoad(j))
    BY <1>2, SameProgram
  <2> QED BY <2>1, Zenon DEF Accessing
\* What becomes of i.
<1>8. \/ accessq > 1 /\ UNCHANGED <<m_dispatch_reg, smem, reg_table>>
      \/ accessq <= 1 /\ m_dispatch_reg' = None /\ Code(i).op = "shared" /\ smem = None /\ smem' = i
         /\ reg_table' = reg_table
      \/ /\ accessq <= 1 /\ m_dispatch_reg' = None /\ Code(i).op # "shared" /\ smem' = smem
         /\ IF IsLoad(i) /\ \A r \in Code(i).out : m_pending_writes'[i.warp][r] = 0
            THEN ReleaseRegisters(i.warp, Code(i).out) ELSE UNCHANGED reg_table
  <2>1. CASE accessq <= 1
    <3>1. (Code(i).op = "shared" => smem = None) /\ Dispatched(i, m_pending_writes')
      BY <1>2, <2>1
    <3> QED BY <2>1, <3>1, Zenon DEF Dispatched
  <2>2. CASE ~(accessq <= 1)
    <3>1. UNCHANGED <<m_dispatch_reg, smem, reg_table>> /\ accessq > 1
      BY <1>2, <1>3, <2>2
    <3> QED BY <3>1
  <2> QED BY <2>1, <2>2
<1>9. /\ m_dispatch_reg' \in {i, None} /\ smem' \in {smem, i}
      /\ smem' = smem \/ (Code(i).op = "shared" /\ smem = None)
  <2>1. \/ m_dispatch_reg' = m_dispatch_reg /\ smem' = smem
        \/ m_dispatch_reg' = None /\ Code(i).op = "shared" /\ smem = None /\ smem' = i
        \/ m_dispatch_reg' = None /\ smem' = smem
    BY <1>8, Zenon
  <2> QED BY <1>1, <2>1
<1>10. Staged'
  <2>1. /\ IsABag(l1_latency_queue') /\ BagToSet(l1_latency_queue') \subseteq Coded
        /\ IsABag(mem') /\ BagToSet(mem') \subseteq Coded
        /\ \A j \in BagToSet(l1_latency_queue') \cup BagToSet(mem') : Accessing(j)
    <3>1. CASE n = 0
      <4>1. UNCHANGED <<l1_latency_queue, mem>>
        BY <1>5, <3>1 DEF Sends
      <4> QED BY <4>1 DEF Flight, Staged
    <3>2. CASE n = 1
      BY <1>3, <1>5, <1>6, <3>2 DEF Sends, Flight, Staged
    <3> QED BY <3>1, <3>2
  <2>2. m_dispatch_reg' # None /\ accessq' > 0 => Accessing(m_dispatch_reg')
    BY <1>3, <1>6, <1>9
  <2>3. {m_dispatch_reg', smem', m_next_wb'} \subseteq Coded \cup {None}
        /\ (smem' # None => Code(smem').op = "shared")
    BY <1>2, <1>3, <1>9 DEF Flight, Staged
  <2>4. \A j \in oc' \cup ({m_dispatch_reg'} \ {None}) : Code(j).op \in MemOps
    BY <1>2, <1>3, <1>9 DEF Flight, Staged
  <2>5. alu' \subseteq Coded /\ oc' \subseteq Coded /\ (\A j \in alu' : Code(j).op \notin MemOps)
        /\ (m_next_wb' # None => IsLoad(m_next_wb') \/ Code(m_next_wb').op = "shared")
    BY <1>2 DEF Flight, Staged
  <2> QED BY <1>6, <1>7, <2>1, <2>2, <2>3, <2>4, <2>5 DEF Staged
<1>11. StagesOf /\ StagesOf'
  BY <1>2, <1>10, FlightStages
<1>12. \A j \in Coded : Answers(j) \in Nat /\ Answers(j)' = Answers(j) + (IF j = i THEN n ELSE 0)
  <2>1. ASSUME NEW j \in Coded PROVE Answers(j) \in Nat /\ Answers(j)' = Answers(j) + (IF j = i THEN n ELSE 0)
    <3>1. In(l1_latency_queue', j) + In(mem', j)
                = In(l1_latency_queue, j) + In(mem, j) + (IF j = i THEN n ELSE 0)
      BY <1>5 DEF Sends
    <3>2. /\ In(l1_latency_queue, j) \in Nat /\ In(mem, j) \in Nat /\ One01(m_next_wb = j) \in Nat
          /\ In(l1_latency_queue', j) \in Nat /\ In(mem', j) \in Nat
      BY <1>5, CountIn DEF One01, Flight, Staged, Sends
    <3>3. /\ Answers(j) = In(l1_latency_queue, j) + In(mem, j) + One01(m_next_wb = j)
          /\ Answers(j)' = In(l1_latency_queue', j) + In(mem', j) + One01(m_next_wb = j)
      BY <1>2 DEF Answers, In
    <3> QED BY <3>1, <3>2, <3>3
  <2> QED BY <2>1
<1>13. Answers(i) \in Nat /\ Answers(i)' = Answers(i) + n /\ \A j \in Coded : j # i => Answers(j)' = Answers(j)
  BY <1>3, <1>12
<1>14. Moves(i)
  BY <1>1, <1>2, <1>3, <1>9, <1>13 DEF Moves, NoneApart
<1>15. OnlyMoves(i)
  BY <1>11, <1>14, MovesOnly
<1>16. Awaited(i)' = Awaited(i) + (0 - h)
  <2>1. Awaited(i) = Answers(i) + accessq
    BY <1>1 DEF Awaited
  <2>2. Awaited(i)' = Answers(i)' + accessq'
    <3>1. CASE m_dispatch_reg' = i
      BY <3>1 DEF Awaited
    <3>2. CASE m_dispatch_reg' # i
      <4>1. accessq' = 0 /\ Awaited(i)' = Answers(i)' + 0
        BY <1>1, <1>3, <1>6, <1>8, <3>2 DEF Awaited
      <4> QED BY <4>1
    <3> QED BY <3>1, <3>2
  <2>3. \A a, b, x, y \in Int : (a + x) + (b - x - y) = (a + b) + (0 - y)
    OBVIOUS
  <2>4. Answers(i) \in Int /\ accessq \in Int /\ n \in Int /\ h \in Int
    BY <1>3, <1>13
  <2>5. Awaited(i)' = (Answers(i) + n) + (accessq - n - h)
    BY <1>6, <1>13, <2>2, Zenon
  <2> QED BY <2>1, <2>3, <2>4, <2>5
<1>17. Waits'
  <2>1. 0 - h \in Int /\ NoSharing /\ Waits
    BY DEF Flight, Reserved
  <2>2. m_pending_writes' = IF IsLoad(i) THEN Pending(i, 0 - h) ELSE m_pending_writes
    BY <1>5 DEF Sends
  <2> QED BY <1>4, <1>11, <1>15, <1>16, <2>1, <2>2, WaitsMove
<1>18. Apart(i)
  BY <1>3 DEF Flight, Separate
<1>19. i \notin oc /\ i # smem /\ (accessq = 0 => Answers(i) = 0)
  BY <1>1, <1>18 DEF Apart
<1>20. Separate'
  <2>1. ASSUME i = smem' PROVE m_dispatch_reg' # i /\ Answers(i)' = 0
    <3>1. Code(i).op = "shared" /\ m_dispatch_reg' = None
      BY <1>8, <1>19, <2>1
    <3>2. accessq = 0
      BY <1>3, <3>1 DEF Accessing
    <3> QED BY <1>2, <1>6, <1>13, <1>19, <2>1, <3>1, <3>2
  <2>2. m_dispatch_reg' = i /\ accessq' = 0 => FALSE
    BY <1>2, <1>6, <1>8
  <2>3. Apart(i)'
    BY <1>2, <1>7, <1>19, <2>1, <2>2 DEF Apart
  <2> QED BY <1>11, <1>14, <2>3, SeparateMove DEF Flight
\* The load goes when nothing more is to come.
<1>21. reg_table' = IF i \in InFlight' \/ Code(i).out = {} THEN reg_table
                    ELSE [reg_table EXCEPT ![i.warp] = reg_table[i.warp] \ Code(i).out]
  <2>1. i \in InFlight' <=> Held(i)'
    BY <1>3, <1>7, <1>11 DEF StagesOf
  <2>2. CASE accessq > 1 /\ UNCHANGED <<m_dispatch_reg, smem, reg_table>>
    BY <1>1, <2>1, <2>2 DEF Held
  <2>3. CASE smem' = i /\ reg_table' = reg_table
    BY <2>1, <2>3 DEF Held
  <2>4. CASE /\ accessq <= 1 /\ m_dispatch_reg' = None /\ Code(i).op # "shared" /\ smem' = smem
             /\ IF IsLoad(i) /\ \A r \in Code(i).out : m_pending_writes'[i.warp][r] = 0
                THEN ReleaseRegisters(i.warp, Code(i).out) ELSE UNCHANGED reg_table
    <3>1. ReleaseRegisters(i.warp, Code(i).out) =>
             /\ reg_table' = [reg_table EXCEPT ![i.warp] = reg_table[i.warp] \ Code(i).out]
             /\ Code(i).out = {} => reg_table' = reg_table
      BY <1>4, ReleaseNothing DEF Flight
    <3>2. CASE Code(i).out = {}
      BY <2>4, <3>1, <3>2
    <3>3. CASE Code(i).out # {}
      <4>1. IsLoad(i)
        BY <1>3, <1>4, <2>4, <3>3 DEF IsLoad, MemOps
      <4>2. i \notin alu
        BY <1>3 DEF Flight, Staged
      <4>3. i \in InFlight' <=> Answers(i)' > 0
        BY <1>2, <1>19, <2>1, <2>4, <3>3, <4>2 DEF Held
      <4>4. Awaited(i)' = Answers(i)' /\ Answers(i)' \in Nat
        <5>1. Answers(i)' \in Nat
          BY <1>13
        <5> QED BY <1>2, <2>4, <5>1 DEF Awaited
      <4>5. \A r \in Code(i).out : m_pending_writes'[i.warp][r] = Awaited(i)'
        <5>1. ASSUME NEW r \in Code(i).out PROVE m_pending_writes'[i.warp][r] = Awaited(i)'
          <6>1. m_pending_writes[i.warp][r] = Awaited(i)
            BY <1>3, <1>4, <4>1 DEF Flight, Waits, Loads
          <6>2. m_pending_writes' = Pending(i, 0 - h)
            BY <1>5, <4>1 DEF Sends
          <6>3. m_pending_writes'[i.warp][r] = m_pending_writes[i.warp][r] + (0 - h)
            BY <1>4, <6>2 DEF Pending, Flight, Waits
          <6> QED BY <1>16, <6>1, <6>3
        <5> QED BY <5>1
      <4>6. (\A r \in Code(i).out : m_pending_writes'[i.warp][r] = 0) <=> ~(Answers(i)' > 0)
        <5>1. PICK r \in Code(i).out : TRUE
          BY <3>3
        <5>2. \A q \in Code(i).out : m_pending_writes'[i.warp][q] = Answers(i)'
          BY <4>4, <4>5
        <5>3. Answers(i)' \in Nat
          BY <4>4
        <5>4. ~(Answers(i)' > 0) <=> Answers(i)' = 0
          BY <5>3
        <5> QED BY <5>1, <5>2, <5>4, Zenon
      <4> QED BY <2>4, <3>1, <3>3, <4>1, <4>3, <4>6
    <3> QED BY <3>2, <3>3
  <2> QED BY <1>8, <2>2, <2>3, <2>4
<1>22. Reserved'
  BY <1>4, <1>11, <1>15, <1>21, ReservedMove DEF Flight
<1> QED BY <1>10, <1>17, <1>20, <1>22 DEF Flight

\* What is in flight but for the reply being written back.
Working == InPipeline \cup BagToSet(l1_latency_queue) \cup BagToSet(mem)

LEMMA BackendShrinks ==
    ASSUME Staged, Backend
    PROVE  InFlight' \subseteq InFlight /\ Working' \subseteq Working
<1>1. IsABag(l1_latency_queue) /\ IsABag(mem)
  BY DEF Staged
<1> USE DEF InFlight, InPipeline, Answering, Working
<1>2. CASE Writeback
  BY <1>2 DEF Writeback, ldst
<1>3. CASE LdstIssue
  BY <1>3 DEF LdstIssue
<1>4. CASE MemoryCycle
  <2>1. /\ UNCHANGED <<oc, alu, m_next_wb>> /\ m_dispatch_reg # None
        /\ m_dispatch_reg' \in {m_dispatch_reg, None} /\ smem' \in {smem, m_dispatch_reg}
    BY <1>4 DEF MemoryCycle, Dispatched
  <2>2. \/ UNCHANGED <<l1_latency_queue, mem>>
        \/ UNCHANGED l1_latency_queue /\ mem' = mem (+) One(m_dispatch_reg)
        \/ UNCHANGED mem /\ l1_latency_queue' = l1_latency_queue (+) One(m_dispatch_reg)
    BY <1>4, Zenon DEF MemoryCycle, SendAccess
  <2>3. /\ BagToSet(l1_latency_queue') \subseteq BagToSet(l1_latency_queue) \cup {m_dispatch_reg}
        /\ BagToSet(mem') \subseteq BagToSet(mem) \cup {m_dispatch_reg}
    BY <1>1, <2>2, BagPut
  <2> QED BY <2>1, <2>3
<1>5. CASE L1LatencyQueueCycle
  <2>1. PICK i \in BagToSet(l1_latency_queue) :
          l1_latency_queue' = l1_latency_queue (-) One(i) /\ (mem' = mem (+) One(i) \/ mem' = mem)
    BY <1>5, Zenon DEF L1LatencyQueueCycle
  <2>2. BagToSet(l1_latency_queue') \subseteq BagToSet(l1_latency_queue) /\ BagToSet(mem') \subseteq BagToSet(mem) \cup {i}
    BY <1>1, <2>1, BagTake, BagPut
  <2> QED BY <1>5, <2>2 DEF L1LatencyQueueCycle
<1>6. CASE StoreAck
  <2>1. BagToSet(mem') \subseteq BagToSet(mem)
    BY <1>1, <1>6, BagTake DEF StoreAck
  <2> QED BY <1>6, <2>1 DEF StoreAck
<1>7. CASE WritebackClient
  <2>1. /\ UNCHANGED <<oc, alu, m_dispatch_reg, l1_latency_queue>>
        /\ \/ \E i \in BagToSet(mem) : mem' = mem (-) One(i) /\ m_next_wb' = i /\ smem' = smem
           \/ smem # None /\ m_next_wb' = smem /\ smem' = None /\ mem' = mem
    BY <1>7 DEF WritebackClient
  <2>2. BagToSet(mem') \subseteq BagToSet(mem)
    BY <1>1, <2>1, BagTake
  <2> QED BY <2>1, <2>2
<1>8. CASE LdstWriteback
  BY <1>8 DEF LdstWriteback
<1> QED BY <1>2, <1>3, <1>4, <1>5, <1>6, <1>7, <1>8 DEF Backend

\* There are finitely many instructions in flight.
LEMMA FiniteStep ==
    ASSUME Staged, IsFiniteSet(InFlight), [Next]_vars
    PROVE  IsFiniteSet(InFlight')
<1>1. CASE UNCHANGED <<ldst, alu>>
  <2>1. InFlight' = InFlight
    BY <1>1, Zenon DEF ldst, InFlight, InPipeline, Answering
  <2> QED BY <2>1
<1>2. CASE Backend
  BY <1>2, BackendShrinks, FS_Subset
<1>3. ASSUME NEW w \in Warps, IssueWarp(w) PROVE IsFiniteSet(InFlight')
  <2>1. InFlight' \subseteq InFlight \cup {Instance(w)}
    BY <1>3 DEF IssueWarp, InFlight, InPipeline, Answering
  <2> QED BY <2>1, FS_AddElement, FS_Subset
<1> QED BY <1>1, <1>2, <1>3, Zenon DEF Next, Backend, vars, IssueBlock2Core, FetchReply, Fetch, Decode,
           MembarDone, ControlHazard

LEMMA FlightStep ==
    ASSUME ShaderCoreAssumption, CoreInv, Flight, IsFiniteSet(InFlight), [Next]_vars
    PROVE  Flight'
<1>0. program \in Programs /\ Contexts /\ Fetching
  BY DEF CoreInv, Contexts
<1>1. CASE IssueBlock2Core \/ FetchReply \/ Decode \/ \E w \in Warps : MembarDone(w) \/ ControlHazard(w)
  <2>1. UNCHANGED <<program, ldst, reg_table, alu>>
    BY <1>1, Zenon DEF IssueBlock2Core, FetchReply, Decode, MembarDone, ControlHazard, ctas
  <2> QED BY <2>1, FlightKept
<1>2. CASE Fetch
  BY <1>0, <1>2, FetchCases, FlightKept
<1>3. CASE \E w \in Warps : IssueWarp(w)
  BY <1>3, IssueFlight
<1>4. CASE Backend
  BY <1>0, <1>4, WritebackStep, LdstIssueStep, MemoryStep, L1QueueStep, StoreAckStep, WritebackClientStep,
     LdstWritebackStep, Zenon DEF Backend
<1>5. CASE UNCHANGED vars
  BY <1>5, FlightKept DEF vars, ctas
<1> QED BY <1>1, <1>2, <1>3, <1>4, <1>5, Zenon DEF Next, Backend

LEMMA FlightInit ==
    ASSUME ShaderCoreAssumption, Init PROVE Flight
<1>1. IsABag(EmptyBag) /\ BagToSet(EmptyBag) = {}
  BY DEF IsABag, EmptyBag, SetToBag, BagToSet
<1>2. InFlight = {}
  BY <1>1 DEF Init, InFlight, InPipeline, Answering
<1>3. Staged
  BY <1>1 DEF Init, Staged
<1>4. Separate
  BY <1>2 DEF Separate
<1>5. Reserved
  BY <1>2 DEF Init, Reserved, ScoreboardExact, NoSharing
<1>6. Waits
  BY <1>2 DEF Init, Waits
<1> QED BY <1>3, <1>4, <1>5, <1>6 DEF Flight

ScoreInv == CoreInv /\ Flight /\ IsFiniteSet(InFlight)

LEMMA ScoreInductive == Spec => []ScoreInv
<1>1. Init => ScoreInv
  <2>1. Init => IsFiniteSet(InFlight)
    <3>1. Init => InFlight = {}
      BY DEF Init, InFlight, InPipeline, Answering, EmptyBag, SetToBag, BagToSet
    <3> QED BY <3>1, FS_EmptySet
  <2> QED BY <2>1, ShaderCoreAssumption, FetchInit, FlightInit DEF ScoreInv
<1>2. ScoreInv /\ [Next]_vars => ScoreInv'
  <2> SUFFICES ASSUME ScoreInv, [Next]_vars PROVE ScoreInv'
    OBVIOUS
  <2>1. CoreInv' /\ Flight' /\ IsFiniteSet(InFlight')
    BY ShaderCoreAssumption, CoreStep, FlightStep, FiniteStep DEF ScoreInv, Flight
  <2> QED BY <2>1 DEF ScoreInv
<1> QED BY <1>1, <1>2, PTL DEF Spec

\* The scoreboard holds exactly the registers that the instructions in flight
\* write: each is released with the last reply of the one that reserved it, and
\* no reply, hit or write-back, in whatever order they come, releases another's
\* (scoreboard.cc:58-117, shader.cc:1945-1960, 2434-2456, 2700-2722).
THEOREM ScoreboardKept == Spec => []ScoreboardExact
<1>1. ScoreInv => ScoreboardExact
  BY DEF ScoreInv, Flight, Reserved
<1> QED BY <1>1, ScoreInductive, PTL

\* The counters of ldst_unit::m_pending_writes never pass zero, which the assert
\* before each decrement asks for, and a register that is waited for by a load
\* waits for as many replies as are on their way (shader.cc:1945-1960, 2700-2722).
THEOREM PendingWritesExact == Spec => []Waits
<1>1. ScoreInv => Waits
  BY DEF ScoreInv, Flight
<1> QED BY <1>1, ScoreInductive, PTL

-----------------------------------------------------------------------------
(* Warps exit after their loads.                                            *)

LEMMA OwnedKept ==
    ASSUME Owned, InFlight' \subseteq InFlight, UNCHANGED <<program, cta_of, m_done_exit>>
    PROVE  Owned'
<1>1. (\A i : Code(i)' = Code(i)) /\ \A w : SlotOf(w)' = SlotOf(w)
  BY SameProgram
<1> QED BY <1>1 DEF Owned

LEMMA OwnedStep ==
    ASSUME ShaderCoreAssumption, CoreInv, Flight, Owned, [Next]_vars
    PROVE  Owned'
<1>0. program \in Programs /\ Contexts /\ Fetching
  BY DEF CoreInv, Contexts
<1>1. InFlight \subseteq Coded /\ \A i \in InFlight : i.warp \in Warps
  BY <1>0, StagesNone, Stages, CodedTyped DEF Flight, StagesOf
<1>2. ASSUME UNCHANGED <<ldst, alu>> PROVE InFlight' = InFlight
  BY <1>2, Zenon DEF ldst, InFlight, InPipeline, Answering
<1>3. CASE IssueBlock2Core
  <2>1. PICK s \in 0..(Slots - 1) : Starts(s)
    BY <1>0, <1>3, IssueStarts
  <2>2. /\ program' = program /\ s \in SlotIds /\ \A w \in WarpsOf(s) : m_done_exit[w]
        /\ cta_of' = [cta_of EXCEPT ![s] = issued_cta + 1] /\ UNCHANGED <<ldst, alu>>
        /\ m_done_exit' = [w \in Warps |-> IF w \in WarpsOf(s) THEN FALSE ELSE m_done_exit[w]]
    BY <2>1 DEF Starts, Alive
  <2>3. (\A i : Code(i)' = Code(i)) /\ (\A w : SlotOf(w)' = SlotOf(w)) /\ InFlight' = InFlight
    BY <1>2, <2>2, SameProgram
  <2>4. ASSUME NEW i \in InFlight, Code(i).out # {}
        PROVE  cta_of'[SlotOf(i.warp)] = i.cta /\ ~m_done_exit'[i.warp]
    <3>1. cta_of[SlotOf(i.warp)] = i.cta /\ ~m_done_exit[i.warp] /\ i.warp \in Warps
      BY <1>1, <2>4 DEF Owned
    <3>2. SlotOf(i.warp) # s /\ SlotOf(i.warp) \in SlotIds
      BY <1>0, <2>2, <3>1, Width
    <3> QED BY <1>0, <2>2, <3>1, <3>2 DEF Contexts
  <2> QED BY <2>3, <2>4 DEF Owned
<1>4. CASE Fetch
  <2>1. UNCHANGED <<program, ldst, alu>> /\ Contexts'
    BY <1>0, <1>4, FetchCases
  <2>2. PICK exits, gone \in SUBSET Warps : Leaves(exits, gone) /\ \A w \in exits : reg_table[w] = {}
    BY <1>0, <1>4, FetchCases
  <2>3. (\A i : Code(i)' = Code(i)) /\ (\A w : SlotOf(w)' = SlotOf(w)) /\ (\A s : WarpsOf(s)' = WarpsOf(s))
        /\ InFlight' = InFlight
    BY <1>2, <2>1, SameProgram
  <2>4. ASSUME NEW i \in InFlight, Code(i).out # {}
        PROVE  cta_of'[SlotOf(i.warp)] = i.cta /\ ~m_done_exit'[i.warp]
    <3>1. cta_of[SlotOf(i.warp)] = i.cta /\ ~m_done_exit[i.warp] /\ i.warp \in Warps
      BY <1>1, <2>4 DEF Owned
    <3>2. reg_table[i.warp] # {}
      BY <2>4, <3>1, ReservedIs DEF Flight, Reserved
    <3>3. ~m_done_exit'[i.warp]
      BY <2>2, <3>1, <3>2 DEF Leaves
    <3>4. SlotOf(i.warp) \in SlotIds /\ i.warp \in WarpsOf(SlotOf(i.warp))
      BY <1>0, <3>1, Width
    <3>5. cta_of'[SlotOf(i.warp)] # 0
      BY <2>1, <2>3, <3>3, <3>4 DEF Contexts, Alive
    <3> QED BY <2>2, <3>1, <3>3, <3>4, <3>5 DEF Leaves
  <2> QED BY <2>3, <2>4 DEF Owned
<1>5. CASE FetchReply \/ Decode \/ \E w \in Warps : MembarDone(w) \/ ControlHazard(w)
  <2>1. UNCHANGED <<ctas, m_done_exit, ldst, alu>>
    BY <1>5, Zenon DEF FetchReply, Decode, MembarDone, ControlHazard
  <2> QED BY <1>2, <2>1, OwnedKept DEF ctas
<1>6. ASSUME NEW w \in Warps, IssueWarp(w) PROVE Owned'
  <2>1. PICK i : /\ i = Instance(w)
                 /\ (oc' = oc \cup {i} /\ alu' = alu) \/ (oc' = oc /\ alu' = alu \cup {i})
    BY <1>6, Zenon DEF IssueWarp
  <2>2. UNCHANGED <<ctas, m_done_exit, m_dispatch_reg, smem, l1_latency_queue, mem, m_next_wb>>
    BY <1>6, Zenon DEF IssueWarp
  <2>3. InFlight' \subseteq InFlight \cup {i}
    BY <2>1, <2>2 DEF InFlight, InPipeline, Answering
  <2>4. ~m_done_exit[w]
    BY <1>6 DEF IssueWarp, CanTest
  <2>5. (\A j : Code(j)' = Code(j)) /\ (\A v : SlotOf(v)' = SlotOf(v)) /\ UNCHANGED <<cta_of, m_done_exit>>
    BY <2>2, SameProgram DEF ctas
  <2>6. i.warp = w /\ i.cta = cta_of[SlotOf(w)]
    BY <2>1 DEF Instance
  <2> QED BY <2>3, <2>4, <2>5, <2>6 DEF Owned
<1>7. CASE Backend
  <2>1. UNCHANGED <<ctas, m_done_exit>>
    BY <1>7, BackendFrame
  <2> QED BY <1>7, <2>1, BackendShrinks, OwnedKept DEF ctas, Flight
<1>8. CASE UNCHANGED vars
  <2>1. UNCHANGED <<ctas, m_done_exit, ldst, alu>>
    BY <1>8 DEF vars
  <2> QED BY <1>2, <2>1, OwnedKept DEF ctas
<1> QED BY <1>3, <1>4, <1>5, <1>6, <1>7, <1>8, Zenon DEF Next, Backend

\* A warp exits, and its context goes to another CTA, only when everything that
\* will write one of its registers has come back: done_exit tests the scoreboard,
\* and so what writes a register writes one of the warp that issued it
\* (shader.cc:857-887, 1945-1960, shader.h:100-101).
THEOREM WritersKeepContexts == Spec => []Owned
<1>1. Init => Owned
  <2>1. Init => InFlight = {}
    BY DEF Init, InFlight, InPipeline, Answering, EmptyBag, SetToBag, BagToSet
  <2> QED BY <2>1 DEF Owned
<1>2. ScoreInv /\ Owned /\ [Next]_vars => Owned'
  BY ShaderCoreAssumption, OwnedStep DEF ScoreInv
<1> QED BY <1>1, <1>2, ScoreInductive, PTL DEF Spec

-----------------------------------------------------------------------------
(* Copies in a bag.                                                         *)

\* The copies of one element.
LEMMA Column ==
    ASSUME NEW i, NEW n \in Nat
    PROVE  IsFiniteSet({i} \X (1..n)) /\ Cardinality({i} \X (1..n)) = n
<1>1. IsFiniteSet(1..n) /\ Cardinality(1..n) = n
  BY FS_Interval
<1>2. IsFiniteSet({i}) /\ Cardinality({i}) = 1
  BY FS_Singleton
<1>3. IsFiniteSet({i} \X (1..n)) /\ Cardinality({i} \X (1..n)) = Cardinality({i}) * Cardinality(1..n)
  BY <1>1, <1>2, FS_Product
<1> QED BY <1>1, <1>2, <1>3

\* One for each copy that a bag has of what is in S.
Tokens(B, S) == UNION {{i} \X (1..B[i]) : i \in BagToSet(B) \cap S}

LEMMA TokensIn ==
    ASSUME NEW B, IsABag(B), NEW S, NEW t
    PROVE  t \in Tokens(B, S) <=> \E j \in S : \E k \in 1..In(B, j) : t = <<j, k>>
<1>1. t \in Tokens(B, S) <=> \E j \in BagToSet(B) \cap S : t \in {j} \X (1..B[j])
  BY Zenon DEF Tokens
<1>2. ASSUME NEW j PROVE t \in {j} \X (1..B[j]) <=> \E k \in 1..B[j] : t = <<j, k>>
  OBVIOUS
<1>3. ASSUME NEW j, j \notin BagToSet(B) PROVE 1..In(B, j) = {}
  BY <1>3 DEF In
<1>4. ASSUME NEW j, j \in BagToSet(B) PROVE In(B, j) = B[j]
  BY <1>4 DEF In
<1> QED BY <1>1, <1>2, <1>3, <1>4

LEMMA TokensFinite ==
    ASSUME NEW B, IsABag(B), IsFiniteSet(BagToSet(B)), NEW S
    PROVE  IsFiniteSet(Tokens(B, S)) /\ Copies(B, S) = Cardinality(Tokens(B, S)) /\ Copies(B, S) \in Nat
<1> DEFINE T == BagToSet(B) \cap S
           f == [i \in T |-> {i} \X (1..B[i])]
           F == {f[i] : i \in T}
<1>1. IsFiniteSet(T)
  BY FS_Intersection
<1>2. f \in Surjection(T, F)
  <2> HIDE DEF T
  <2>1. f \in [T -> F]
    OBVIOUS
  <2> HIDE DEF f
  <2>2. \A x \in F : \E i \in T : f[i] = x
    OBVIOUS
  <2> QED BY <2>1, <2>2 DEF Surjection
<1>3. \A i \in T : IsFiniteSet(f[i])
  <2>1. ASSUME NEW i \in T PROVE IsFiniteSet({i} \X (1..B[i]))
    <3>1. B[i] \in Nat
      BY DEF IsABag, BagToSet
    <3> QED BY <3>1, Column
  <2> QED BY <2>1
<1>4. Tokens(B, S) = UNION F
  <2>1. F = {{i} \X (1..B[i]) : i \in T}
    OBVIOUS
  <2> HIDE DEF f, F
  <2> QED BY <2>1, Zenon DEF Tokens
<1> HIDE DEF T, f, F
<1>5. IsFiniteSet(F)
  BY <1>1, <1>2, FS_Surjection
<1>6. \A x \in F : IsFiniteSet(x)
  BY <1>3 DEF F
<1>7. IsFiniteSet(Tokens(B, S))
  BY <1>4, <1>5, <1>6, FS_UNION
<1>8. Copies(B, S) = Cardinality(Tokens(B, S))
  BY Zenon DEF Copies, Tokens
<1> QED BY <1>7, <1>8, FS_CardinalityType

\* A copy of i is put into a bag: B becomes C; or taken from it: C becomes B.
LEMMA CopiesPut ==
    ASSUME NEW B, IsABag(B), IsFiniteSet(BagToSet(B)), NEW C, IsABag(C), IsFiniteSet(BagToSet(C)), NEW S, NEW i,
           \A j : In(C, j) = In(B, j) + (IF j = i THEN 1 ELSE 0)
    PROVE  Copies(B, S) \in Nat /\ Copies(C, S) = Copies(B, S) + One01(i \in S)
<1>1. /\ IsFiniteSet(Tokens(B, S)) /\ Copies(B, S) = Cardinality(Tokens(B, S)) /\ Copies(B, S) \in Nat
      /\ Copies(C, S) = Cardinality(Tokens(C, S))
  BY TokensFinite
<1>2. ASSUME NEW j PROVE In(B, j) \in Nat /\ (j # i => In(C, j) = In(B, j))
  BY CountIn
<1> DEFINE new == <<i, In(B, i) + 1>>
<1>3. ASSUME NEW t
      PROVE  t \in Tokens(C, S) <=> t \in Tokens(B, S) \/ (i \in S /\ t = new)
  <2>1. /\ t \in Tokens(B, S) <=> \E j \in S : \E k \in 1..In(B, j) : t = <<j, k>>
        /\ t \in Tokens(C, S) <=> \E j \in S : \E k \in 1..In(C, j) : t = <<j, k>>
    BY TokensIn
  <2>2. \A k : k \in 1..In(C, i) <=> k \in 1..In(B, i) \/ k = In(B, i) + 1
    BY <1>2
  <2>3. \A j : j # i => In(C, j) = In(B, j)
    BY <1>2
  <2> QED BY <2>1, <2>2, <2>3
<1>4. new \notin Tokens(B, S)
  <2>1. new \in Tokens(B, S) => \E j \in S : \E k \in 1..In(B, j) : new = <<j, k>>
    BY TokensIn
  <2>2. In(B, i) + 1 \notin 1..In(B, i)
    BY <1>2
  <2> QED BY <2>1, <2>2
<1> HIDE DEF new
<1>5. CASE i \in S
  <2>1. Tokens(C, S) = Tokens(B, S) \cup {new}
    BY <1>3, <1>5
  <2> QED BY <1>1, <1>4, <1>5, <2>1, FS_AddElement DEF One01
<1>6. CASE i \notin S
  <2>1. Tokens(C, S) = Tokens(B, S)
    BY <1>3, <1>6
  <2> QED BY <1>1, <1>6, <2>1 DEF One01
<1> QED BY <1>5, <1>6

\* Only the elements of the bag count.
LEMMA CopiesSame ==
    ASSUME NEW B, NEW S, NEW T, BagToSet(B) \cap S = BagToSet(B) \cap T
    PROVE  Copies(B, S) = Copies(B, T)
BY Zenon DEF Copies

LEMMA CopiesNone ==
    ASSUME NEW B, NEW S, BagToSet(B) \cap S = {}
    PROVE  Copies(B, S) = 0
<1>1. UNION {{i} \X (1..B[i]) : i \in BagToSet(B) \cap S} = {}
  OBVIOUS
<1> QED BY <1>1, FS_EmptySet DEF Copies

LEMMA CopiesOnly ==
    ASSUME NEW B, IsABag(B), NEW S, NEW i, \A j \in BagToSet(B) \cap S : j = i, i \in S
    PROVE  Copies(B, S) = In(B, i)
<1>1. CASE i \notin BagToSet(B)
  BY <1>1, CopiesNone DEF In
<1>2. CASE i \in BagToSet(B)
  <2>1. UNION {{j} \X (1..B[j]) : j \in BagToSet(B) \cap S} = {i} \X (1..B[i])
    BY <1>2
  <2>2. B[i] \in Nat
    BY <1>2 DEF IsABag, BagToSet
  <2>3. Cardinality({i} \X (1..B[i])) = B[i]
    BY <2>2, Column
  <2>4. Copies(B, S) = Cardinality({i} \X (1..B[i]))
    BY <2>1, Zenon DEF Copies
  <2> QED BY <1>2, <2>3, <2>4 DEF In
<1> QED BY <1>1, <1>2

LEMMA CopiesSome ==
    ASSUME NEW B, IsABag(B), IsFiniteSet(BagToSet(B)), NEW S, NEW i \in S, i \in BagToSet(B)
    PROVE  Copies(B, S) > 0
<1>1. <<i, 1>> \in Tokens(B, S)
  <2>1. 1 \in 1..In(B, i)
    BY CountIn
  <2> QED BY <2>1, TokensIn
<1>2. IsFiniteSet(Tokens(B, S)) /\ Copies(B, S) = Cardinality(Tokens(B, S)) /\ Copies(B, S) \in Nat
  BY TokensFinite
<1> QED BY <1>1, <1>2, FS_EmptySet

-----------------------------------------------------------------------------
(* Instructions in the pipeline.                                            *)

\* m_inst_in_pipeline counts what the warp's buffer and the pipelines hold.
InPipe(w) == {i \in InPipeline : i.warp = w}
PipelineCounted ==
    /\ m_inst_in_pipeline \in [Warps -> Nat]
    /\ \A w \in Warps : m_inst_in_pipeline[w] = Len(m_ibuffer[w]) + Cardinality(InPipe(w))

LEMMA InPipeFinite ==
    ASSUME IsFiniteSet(InFlight), NEW w
    PROVE  IsFiniteSet(InPipe(w)) /\ Cardinality(InPipe(w)) \in Nat
<1>1. InPipe(w) \subseteq InFlight
  BY DEF InPipe, InFlight
<1>2. IsFiniteSet(InPipe(w))
  BY <1>1, FS_Subset
<1> QED BY <1>2, FS_CardinalityType

LEMMA PipelineKept ==
    ASSUME PipelineCounted, InPipeline' = InPipeline, UNCHANGED <<m_ibuffer, m_inst_in_pipeline>>
    PROVE  PipelineCounted'
<1>1. \A w : InPipe(w)' = InPipe(w)
  BY Zenon DEF InPipe
<1> QED BY <1>1, Zenon DEF PipelineCounted

LEMMA PipelineLeft ==
    ASSUME IsFiniteSet(InFlight), PipelineCounted, Fetching, NEW i \in InPipeline, i.warp \in Warps,
           InPipeline' = InPipeline \ {i}, DecInstInPipeline(i.warp), UNCHANGED m_ibuffer
    PROVE  PipelineCounted'
<1>1. ASSUME NEW w \in Warps
      PROVE  m_inst_in_pipeline'[w] \in Nat /\ m_inst_in_pipeline'[w] = Len(m_ibuffer'[w]) + Cardinality(InPipe(w)')
  <2>1. /\ IsFiniteSet(InPipe(w)) /\ Cardinality(InPipe(w)) \in Nat /\ Len(m_ibuffer[w]) \in Nat
        /\ m_inst_in_pipeline[w] = Len(m_ibuffer[w]) + Cardinality(InPipe(w))
    BY InPipeFinite DEF PipelineCounted, Fetching
  <2>2. CASE w = i.warp
    <3>1. InPipe(w)' = InPipe(w) \ {i} /\ i \in InPipe(w)
      BY <2>2 DEF InPipe
    <3>2. IsFiniteSet(InPipe(w)') /\ Cardinality(InPipe(w)') = Cardinality(InPipe(w)) - 1
      BY <2>1, <3>1, FS_RemoveElement
    <3>3. Cardinality(InPipe(w)') \in Nat
      BY <3>2, FS_CardinalityType
    <3>4. m_inst_in_pipeline'[w] = m_inst_in_pipeline[w] - 1
      BY <2>2 DEF DecInstInPipeline, PipelineCounted
    <3> QED BY <2>1, <3>2, <3>3, <3>4
  <2>3. CASE w # i.warp
    <3>1. InPipe(w)' = InPipe(w)
      BY <2>3 DEF InPipe
    <3>2. m_inst_in_pipeline'[w] = m_inst_in_pipeline[w]
      BY <2>3 DEF DecInstInPipeline, PipelineCounted
    <3> QED BY <2>1, <3>1, <3>2
  <2> QED BY <2>2, <2>3
<1>2. m_inst_in_pipeline' = [w \in Warps |-> m_inst_in_pipeline'[w]]
  BY DEF DecInstInPipeline, PipelineCounted
<1>3. m_inst_in_pipeline' \in [Warps -> Nat]
  BY <1>1, <1>2
<1> QED BY <1>1, <1>3 DEF PipelineCounted

LEMMA PipelineDecoded ==
    ASSUME Fetching, PipelineCounted, IsFiniteSet(InFlight), Decode
    PROVE  PipelineCounted'
<1> DEFINE w == m_inst_fetch_buffer.warp
           at == m_inst_fetch_buffer.pc
<1>1. w \in Warps /\ at \in Nat /\ m_ibuffer[w] = <<>>
  BY DEF Decode, Fetching
<1>2. /\ m_ibuffer' = [m_ibuffer EXCEPT ![w] = Fill(w, at)]
      /\ m_inst_in_pipeline' = [m_inst_in_pipeline EXCEPT ![w] = m_inst_in_pipeline[w] + Len(Fill(w, at))]
      /\ UNCHANGED <<ldst, alu>>
  BY Zenon DEF Decode, Fill
<1> HIDE DEF w, at
<1>3. Len(Fill(w, at)) \in Nat
  BY <1>1 DEF Fill
<1>4. InPipeline' = InPipeline
  BY <1>2, Zenon DEF ldst, InPipeline
<1>5. \A v : InPipe(v)' = InPipe(v)
  BY <1>4, Zenon DEF InPipe
<1>6. \A v \in Warps : Cardinality(InPipe(v)) \in Nat /\ Len(m_ibuffer[v]) \in Nat
  BY InPipeFinite DEF Fetching
<1>7. ASSUME NEW v \in Warps
      PROVE  m_inst_in_pipeline'[v] = Len(m_ibuffer'[v]) + Cardinality(InPipe(v))
  BY <1>1, <1>2, <1>3, <1>6, <1>7 DEF PipelineCounted, Fetching
<1>8. m_inst_in_pipeline' \in [Warps -> Nat]
  BY <1>1, <1>2, <1>3 DEF PipelineCounted
<1> QED BY <1>5, <1>7, <1>8 DEF PipelineCounted

LEMMA PipelineHazard ==
    ASSUME CoreInv, PipelineCounted, IsFiniteSet(InFlight), NEW w \in Warps, ControlHazard(w)
    PROVE  PipelineCounted'
<1>1. /\ m_ibuffer' = [m_ibuffer EXCEPT ![w] = <<>>]
      /\ m_inst_in_pipeline' = [m_inst_in_pipeline EXCEPT ![w] = m_inst_in_pipeline[w] - Len(m_ibuffer[w])]
      /\ UNCHANGED <<ldst, alu>>
  BY Zenon DEF ControlHazard
<1>2. InPipeline' = InPipeline
  BY <1>1, Zenon DEF ldst, InPipeline
<1>3. \A v : InPipe(v)' = InPipe(v)
  BY <1>2, Zenon DEF InPipe
<1>4. \A v \in Warps : Cardinality(InPipe(v)) \in Nat /\ Len(m_ibuffer[v]) \in Nat
  BY InPipeFinite DEF CoreInv, Fetching
<1>5. ASSUME NEW v \in Warps
      PROVE  m_inst_in_pipeline'[v] \in Nat /\ m_inst_in_pipeline'[v] = Len(m_ibuffer'[v]) + Cardinality(InPipe(v))
  <2>1. m_inst_in_pipeline[v] = Len(m_ibuffer[v]) + Cardinality(InPipe(v))
    BY DEF PipelineCounted
  <2>2. CASE v = w
    BY <1>1, <1>4, <2>1, <2>2 DEF PipelineCounted, CoreInv, Fetching
  <2>3. CASE v # w
    BY <1>1, <1>4, <2>1, <2>3 DEF PipelineCounted, CoreInv, Fetching
  <2> QED BY <2>2, <2>3
<1>6. m_inst_in_pipeline' \in [Warps -> Nat]
  BY <1>1, <1>5 DEF PipelineCounted
<1> QED BY <1>3, <1>5, <1>6 DEF PipelineCounted

LEMMA PipelineIssued ==
    ASSUME CoreInv, PipelineCounted, IsFiniteSet(InFlight), NEW w \in Warps, NEW i, Issues(w, i)
    PROVE  PipelineCounted'
<1>1. /\ m_ibuffer[w] # <<>> /\ m_ibuffer[w] \in Seq(Nat) /\ m_ibuffer \in [Warps -> Seq(Nat)]
  BY DEF Issues, CanTest, CoreInv, Fetching
<1> DEFINE exit == Code(i).op = "exit"
           q == IF exit THEN <<>> ELSE Tail(m_ibuffer[w])
<1>2. /\ m_ibuffer' = [m_ibuffer EXCEPT ![w] = q]
      /\ m_inst_in_pipeline' = IF exit THEN [m_inst_in_pipeline EXCEPT ![w] = m_inst_in_pipeline[w] - (Len(m_ibuffer[w]) - 1)]
                               ELSE m_inst_in_pipeline
      /\ i \notin InFlight /\ i.warp = w
  BY Zenon DEF Issues
<1>3. q \in Seq(Nat) /\ Len(q) = IF exit THEN 0 ELSE Len(m_ibuffer[w]) - 1
  BY <1>1
<1> HIDE DEF exit, q
<1>4. InPipeline' = InPipeline \cup {i} /\ i \notin InPipeline
  BY DEF Issues, InPipeline, InFlight
<1>5. \A v \in Warps : /\ IsFiniteSet(InPipe(v)) /\ Cardinality(InPipe(v)) \in Nat /\ Len(m_ibuffer[v]) \in Nat
                       /\ m_inst_in_pipeline[v] = Len(m_ibuffer[v]) + Cardinality(InPipe(v))
  BY <1>1, InPipeFinite DEF PipelineCounted
<1>6. ASSUME NEW v \in Warps
      PROVE  m_inst_in_pipeline'[v] \in Nat /\ m_inst_in_pipeline'[v] = Len(m_ibuffer'[v]) + Cardinality(InPipe(v)')
  <2>1. CASE v = w
    <3>1. InPipe(w)' = InPipe(w) \cup {i} /\ i \notin InPipe(w)
      BY <1>2, <1>4 DEF InPipe
    <3>2. Cardinality(InPipe(w)') = Cardinality(InPipe(w)) + 1
      BY <1>5, <3>1, FS_AddElement
    <3>3. Len(m_ibuffer'[w]) = Len(q) /\ Len(m_ibuffer[w]) \in Nat \ {0}
      BY <1>1, <1>2
    <3>4. m_inst_in_pipeline'[w] = IF exit THEN m_inst_in_pipeline[w] - (Len(m_ibuffer[w]) - 1) ELSE m_inst_in_pipeline[w]
      BY <1>2 DEF PipelineCounted
    <3> QED BY <1>3, <1>5, <2>1, <3>2, <3>3, <3>4
  <2>2. CASE v # w
    <3>1. InPipe(v)' = InPipe(v)
      BY <1>2, <1>4, <2>2 DEF InPipe
    <3>2. m_inst_in_pipeline'[v] = m_inst_in_pipeline[v] /\ m_ibuffer'[v] = m_ibuffer[v]
      BY <1>1, <1>2, <2>2 DEF PipelineCounted
    <3> QED BY <1>5, <3>1, <3>2
  <2> QED BY <2>1, <2>2
<1>7. m_inst_in_pipeline' \in [Warps -> Nat]
  <2>1. m_inst_in_pipeline' = [v \in Warps |-> m_inst_in_pipeline'[v]]
    BY <1>2 DEF PipelineCounted
  <2> QED BY <1>6, <2>1
<1> QED BY <1>6, <1>7 DEF PipelineCounted

LEMMA PipelineBackend ==
    ASSUME ShaderCoreAssumption, ScoreInv, PipelineCounted, Backend
    PROVE  PipelineCounted'
<1>1. /\ program \in Programs /\ Staged /\ Separate /\ Fetching /\ IsFiniteSet(InFlight)
      /\ NoneApart /\ StagesOf
  <2>1. program \in Programs /\ Staged /\ Separate /\ Fetching /\ IsFiniteSet(InFlight)
    BY DEF ScoreInv, CoreInv, Contexts, Flight
  <2> QED BY <2>1, StagesNone, Stages
<1>2. UNCHANGED <<program, m_ibuffer>>
  BY BackendFrame DEF ctas, frontend
<1>3. ASSUME NEW i \in InPipeline PROVE i.warp \in Warps /\ i \in InFlight /\ i \in Coded /\ i # None
  <2>1. i \in InFlight /\ i \in Coded
    BY <1>1 DEF StagesOf, InFlight
  <2> QED BY <1>1, <2>1, CodedTyped
<1>4. CASE Writeback
  <2>1. PICK i \in alu : alu' = alu \ {i} /\ DecInstInPipeline(i.warp) /\ UNCHANGED ldst
    BY <1>4 DEF Writeback
  <2>2. i \in InPipeline /\ Code(i).op \notin MemOps
    BY <1>1, <2>1 DEF InPipeline, Staged
  <2>3. i \notin oc /\ i # m_dispatch_reg /\ i # smem
    BY <1>1, <1>3, <2>2 DEF StagesOf, MemOps
  <2>4. InPipeline' = InPipeline \ {i}
    BY <2>1, <2>3 DEF ldst, InPipeline
  <2> QED BY <1>1, <1>2, <1>3, <2>1, <2>2, <2>4, PipelineLeft
<1>5. CASE LdstIssue
  <2>1. PICK i \in oc : /\ m_dispatch_reg = None /\ oc' = oc \ {i} /\ m_dispatch_reg' = i
                        /\ UNCHANGED <<smem, alu, m_inst_in_pipeline>>
    BY <1>5 DEF LdstIssue
  <2>2. i # None
    BY <1>3, <2>1 DEF InPipeline
  <2>3. InPipeline' = InPipeline
    BY <2>1, <2>2 DEF InPipeline
  <2> QED BY <1>2, <2>1, <2>3, PipelineKept
<1>6. CASE MemoryCycle
  <2>1. PICK i : i = m_dispatch_reg
    OBVIOUS
  <2>2. /\ i # None /\ UNCHANGED <<alu, oc>>
        /\ \/ UNCHANGED <<m_dispatch_reg, smem, m_inst_in_pipeline>>
           \/ /\ m_dispatch_reg' = None /\ smem = None /\ smem' = i /\ UNCHANGED m_inst_in_pipeline
           \/ m_dispatch_reg' = None /\ smem' = smem /\ DecInstInPipeline(i.warp)
    BY <1>6, <2>1, Zenon DEF MemoryCycle, Dispatched
  <2>3. i \in InPipeline /\ i \notin alu /\ i \notin oc /\ i # smem
    <3>1. i \in InPipeline
      BY <2>1, <2>2 DEF InPipeline
    <3>2. Apart(i)
      BY <1>1, <1>3, <3>1 DEF Separate
    <3>3. i \notin alu
      BY <1>1, <1>3, <2>1, <3>1 DEF StagesOf
    <3> QED BY <2>1, <3>1, <3>2, <3>3 DEF Apart
  <2>4. CASE UNCHANGED <<m_dispatch_reg, smem, m_inst_in_pipeline>>
    BY <1>2, <2>2, <2>4, PipelineKept, Zenon DEF InPipeline
  <2>5. CASE m_dispatch_reg' = None /\ smem = None /\ smem' = i /\ UNCHANGED m_inst_in_pipeline
    <3>1. InPipeline' = InPipeline
      BY <2>1, <2>2, <2>5 DEF InPipeline
    <3> QED BY <1>2, <2>5, <3>1, PipelineKept
  <2>6. CASE m_dispatch_reg' = None /\ smem' = smem /\ DecInstInPipeline(i.warp)
    <3>1. InPipeline' = InPipeline \ {i}
      BY <2>1, <2>2, <2>3, <2>6 DEF InPipeline
    <3> QED BY <1>1, <1>2, <1>3, <2>3, <2>6, <3>1, PipelineLeft
  <2> QED BY <2>2, <2>4, <2>5, <2>6
<1>7. CASE WritebackClient
  <2>1. /\ UNCHANGED <<alu, oc, m_dispatch_reg>>
        /\ \/ UNCHANGED <<smem, m_inst_in_pipeline>>
           \/ smem # None /\ smem' = None /\ DecInstInPipeline(smem.warp)
    BY <1>7, Zenon DEF WritebackClient
  <2>2. CASE UNCHANGED <<smem, m_inst_in_pipeline>>
    BY <1>2, <2>1, <2>2, PipelineKept, Zenon DEF InPipeline
  <2>3. CASE smem # None /\ smem' = None /\ DecInstInPipeline(smem.warp)
    <3>1. smem \in InPipeline
      BY <2>3 DEF InPipeline
    <3>2. Apart(smem) /\ smem \notin alu
      BY <1>1, <1>3, <3>1 DEF Separate, StagesOf, MemOps
    <3>3. InPipeline' = InPipeline \ {smem}
      BY <2>1, <2>3, <3>2 DEF Apart, InPipeline
    <3> QED BY <1>1, <1>2, <1>3, <2>3, <3>1, <3>3, PipelineLeft
  <2> QED BY <2>1, <2>2, <2>3
<1>8. CASE L1LatencyQueueCycle \/ StoreAck \/ LdstWriteback
  <2>1. UNCHANGED <<alu, oc, m_dispatch_reg, smem, m_inst_in_pipeline>>
    BY <1>8, Zenon DEF L1LatencyQueueCycle, StoreAck, LdstWriteback
  <2> QED BY <1>2, <2>1, PipelineKept, Zenon DEF InPipeline
<1> QED BY <1>4, <1>5, <1>6, <1>7, <1>8 DEF Backend

LEMMA PipelineStep ==
    ASSUME ShaderCoreAssumption, ScoreInv, PipelineCounted, [Next]_vars
    PROVE  PipelineCounted'
<1>1. CoreInv /\ Fetching /\ IsFiniteSet(InFlight)
  BY DEF ScoreInv, CoreInv
<1>2. CASE UNCHANGED <<ldst, alu, m_ibuffer, m_inst_in_pipeline>>
  <2>1. InPipeline' = InPipeline
    BY <1>2, Zenon DEF ldst, InPipeline
  <2> QED BY <1>2, <2>1, PipelineKept
<1>3. CASE Decode
  BY <1>1, <1>3, PipelineDecoded
<1>4. ASSUME NEW w \in Warps, ControlHazard(w) PROVE PipelineCounted'
  BY <1>1, <1>4, PipelineHazard
<1>5. ASSUME NEW w \in Warps, IssueWarp(w) PROVE PipelineCounted'
  BY <1>1, <1>5, IssueEffect, PipelineIssued
<1>6. CASE Backend
  BY <1>6, PipelineBackend
<1> QED BY <1>2, <1>3, <1>4, <1>5, <1>6, Zenon
        DEF Next, Backend, vars, frontend, IssueBlock2Core, FetchReply, Fetch, MembarDone

-----------------------------------------------------------------------------
(* Stores.                                                                  *)

\* m_stores_outstanding counts the accesses of stores on their way.
StoresOf(w) == {i \in Coded : i.warp = w /\ Code(i).op = "store"}
Sent(w) == Copies(l1_latency_queue, StoresOf(w)) + Copies(mem, StoresOf(w))
StoresCounted ==
    /\ m_stores_outstanding \in [Warps -> Nat]
    /\ \A w \in Warps : m_stores_outstanding[w] = Sent(w)

LEMMA BagsFinite ==
    ASSUME Staged, IsFiniteSet(InFlight)
    PROVE  /\ IsABag(l1_latency_queue) /\ IsFiniteSet(BagToSet(l1_latency_queue))
           /\ IsABag(mem) /\ IsFiniteSet(BagToSet(mem))
<1>1. BagToSet(l1_latency_queue) \subseteq InFlight /\ BagToSet(mem) \subseteq InFlight
  BY DEF InFlight, Answering
<1> QED BY <1>1, FS_Subset DEF Staged

\* C has d copies of i more than B.
Changes(B, C, i, d) ==
    \A S : Copies(B, S) \in Nat /\ Copies(C, S) \in Nat /\ Copies(C, S) = Copies(B, S) + (IF i \in S THEN d ELSE 0)

LEMMA ChangesPut ==
    ASSUME NEW B, IsABag(B), IsFiniteSet(BagToSet(B)), NEW i
    PROVE  Changes(B, B (+) One(i), i, 1) /\ Changes(B, B, i, 0)
<1>1. PICK C : C = B (+) One(i)
  OBVIOUS
<1>2. /\ IsABag(C) /\ BagToSet(C) = BagToSet(B) \cup {i}
      /\ \A j : In(C, j) = In(B, j) + (IF j = i THEN 1 ELSE 0)
  BY <1>1, BagPut
<1>3. IsABag(C) /\ IsFiniteSet(BagToSet(C))
  BY <1>2, FS_AddElement, Zenon
<1>4. \A j : In(C, j) = In(B, j) + (IF j = i THEN 1 ELSE 0)
  BY <1>2
<1>5. ASSUME NEW S
      PROVE  Copies(B, S) \in Nat /\ Copies(C, S) = Copies(B, S) + One01(i \in S)
  BY <1>3, <1>4, CopiesPut
<1> QED BY <1>1, <1>5 DEF Changes, One01

LEMMA ChangesTake ==
    ASSUME NEW B, IsABag(B), IsFiniteSet(BagToSet(B)), NEW i \in BagToSet(B)
    PROVE  Changes(B, B (-) One(i), i, -1)
<1>1. PICK C : C = B (-) One(i)
  OBVIOUS
<1>2. /\ IsABag(C) /\ BagToSet(C) \subseteq BagToSet(B)
      /\ \A j : In(C, j) = In(B, j) - (IF j = i THEN 1 ELSE 0)
  BY <1>1, BagTake
<1>3. IsFiniteSet(BagToSet(C))
  BY <1>2, FS_Subset
<1>4. \A j : In(B, j) = In(C, j) + (IF j = i THEN 1 ELSE 0)
  BY <1>2, CountIn
<1>5. ASSUME NEW S
      PROVE  Copies(C, S) \in Nat /\ Copies(B, S) = Copies(C, S) + One01(i \in S)
  BY <1>2, <1>3, <1>4, CopiesPut
<1> QED BY <1>1, <1>5 DEF Changes, One01

\* The accesses of i on their way change by a + b.
LEMMA StoresMove ==
    ASSUME StoresCounted, program' = program, NEW i \in Coded, i.warp \in Warps, NEW a \in Int, NEW b \in Int,
           Changes(l1_latency_queue, l1_latency_queue', i, a), Changes(mem, mem', i, b),
           m_stores_outstanding' = [m_stores_outstanding EXCEPT ![i.warp] =
               IF Code(i).op = "store" THEN m_stores_outstanding[i.warp] + (a + b) ELSE m_stores_outstanding[i.warp]]
    PROVE  StoresCounted'
<1>1. \A w : StoresOf(w)' = StoresOf(w)
  <2>1. Coded' = Coded /\ \A j : Code(j)' = Code(j)
    BY SameProgram
  <2> QED BY <2>1 DEF StoresOf
<1>2. ASSUME NEW w \in Warps PROVE m_stores_outstanding'[w] = Sent(w)' /\ Sent(w)' \in Nat
  <2>1. i \in StoresOf(w) <=> w = i.warp /\ Code(i).op = "store"
    BY DEF StoresOf
  <2>2. m_stores_outstanding'[w] =
          IF i \in StoresOf(w) THEN m_stores_outstanding[w] + (a + b) ELSE m_stores_outstanding[w]
    BY <2>1 DEF StoresCounted
  <2>3. Sent(w)' = Copies(l1_latency_queue', StoresOf(w)) + Copies(mem', StoresOf(w))
    BY <1>1, Zenon DEF Sent
  <2>4. m_stores_outstanding[w] = Copies(l1_latency_queue, StoresOf(w)) + Copies(mem, StoresOf(w))
    BY DEF StoresCounted, Sent
  <2> DEFINE S == StoresOf(w)
  <2>5. /\ Copies(l1_latency_queue, S) \in Nat /\ Copies(l1_latency_queue', S) \in Nat
        /\ Copies(l1_latency_queue', S) = Copies(l1_latency_queue, S) + (IF i \in S THEN a ELSE 0)
        /\ Copies(mem, S) \in Nat /\ Copies(mem', S) \in Nat
        /\ Copies(mem', S) = Copies(mem, S) + (IF i \in S THEN b ELSE 0)
    BY Zenon DEF Changes
  <2> HIDE DEF S
  <2> QED BY <2>2, <2>3, <2>4, <2>5 DEF S
<1>3. m_stores_outstanding' = [w \in Warps |-> m_stores_outstanding'[w]]
  BY DEF StoresCounted
<1>4. m_stores_outstanding' \in [Warps -> Nat]
  BY <1>2, <1>3
<1> QED BY <1>2, <1>4, Zenon DEF StoresCounted

LEMMA StoresKept ==
    ASSUME StoresCounted, UNCHANGED <<program, l1_latency_queue, mem, m_stores_outstanding>>
    PROVE  StoresCounted'
<1>1. Coded' = Coded /\ \A i : Code(i)' = Code(i)
  BY SameProgram
<1>2. \A w : StoresOf(w)' = StoresOf(w)
  BY <1>1 DEF StoresOf
<1>3. \A w : Sent(w)' = Sent(w)
  BY <1>2, Zenon DEF Sent
<1> QED BY <1>3, Zenon DEF StoresCounted

LEMMA StoresStep ==
    ASSUME ShaderCoreAssumption, ScoreInv, StoresCounted, [Next]_vars
    PROVE  StoresCounted'
<1>1. /\ program \in Programs /\ Staged /\ IsABag(l1_latency_queue) /\ IsFiniteSet(BagToSet(l1_latency_queue))
      /\ IsABag(mem) /\ IsFiniteSet(BagToSet(mem))
  BY BagsFinite DEF ScoreInv, CoreInv, Contexts, Flight
<1>2. ASSUME NEW i
      PROVE  /\ Changes(l1_latency_queue, l1_latency_queue, i, 0) /\ Changes(mem, mem, i, 0)
             /\ Changes(l1_latency_queue, l1_latency_queue (+) One(i), i, 1) /\ Changes(mem, mem (+) One(i), i, 1)
             /\ i \in BagToSet(l1_latency_queue) => Changes(l1_latency_queue, l1_latency_queue (-) One(i), i, -1)
             /\ i \in BagToSet(mem) => Changes(mem, mem (-) One(i), i, -1)
  BY <1>1, ChangesPut, ChangesTake
<1>3. ASSUME NEW i \in BagToSet(l1_latency_queue) \cup BagToSet(mem) \cup ({m_dispatch_reg} \ {None})
      PROVE  i \in Coded /\ i.warp \in Warps
  <2>1. i \in Coded
    BY <1>1, <1>3 DEF Staged
  <2> QED BY <1>1, <2>1, CodedTyped
<1>4. ASSUME NEW i, NEW d \in Int, d = 0 \/ Code(i).op # "store", UNCHANGED m_stores_outstanding
      PROVE  m_stores_outstanding' = [m_stores_outstanding EXCEPT ![i.warp] =
               IF Code(i).op = "store" THEN m_stores_outstanding[i.warp] + d ELSE m_stores_outstanding[i.warp]]
  <2>1. m_stores_outstanding \in [Warps -> Nat]
    BY DEF StoresCounted
  <2>2. ASSUME i.warp \in Warps PROVE m_stores_outstanding[i.warp] + 0 = m_stores_outstanding[i.warp]
    BY <2>1, <2>2
  <2> QED BY <1>4, <2>1, <2>2
<1>5. CASE MemoryCycle
  <2>1. PICK i : i = m_dispatch_reg
    OBVIOUS
  <2>2. /\ i # None /\ program' = program
        /\ \/ UNCHANGED <<l1_latency_queue, mem, m_stores_outstanding>>
           \/ mem' = mem (+) One(i) /\ UNCHANGED l1_latency_queue /\ IncStoreReq(i)
           \/ l1_latency_queue' = l1_latency_queue (+) One(i) /\ UNCHANGED mem /\ IncStoreReq(i)
    BY <1>5, <2>1, Zenon DEF MemoryCycle, SendAccess, ctas
  <2>3. i \in Coded /\ i.warp \in Warps
    BY <1>3, <2>1, <2>2
  <2>4. IncStoreReq(i) =>
          m_stores_outstanding' = [m_stores_outstanding EXCEPT ![i.warp] =
             IF Code(i).op = "store" THEN m_stores_outstanding[i.warp] + 1 ELSE m_stores_outstanding[i.warp]]
    BY Zenon DEF IncStoreReq
  <2>5. CASE mem' = mem (+) One(i) /\ UNCHANGED l1_latency_queue /\ IncStoreReq(i)
    <3>1. 0 \in Int /\ 1 \in Int /\ 0 + 1 = 1
      OBVIOUS
    <3>2. Changes(l1_latency_queue, l1_latency_queue', i, 0) /\ Changes(mem, mem', i, 1)
      BY <1>2, <2>5
    <3> QED BY <2>2, <2>3, <2>4, <2>5, <3>1, <3>2, StoresMove
  <2>6. CASE l1_latency_queue' = l1_latency_queue (+) One(i) /\ UNCHANGED mem /\ IncStoreReq(i)
    <3>1. 0 \in Int /\ 1 \in Int /\ 1 + 0 = 1
      OBVIOUS
    <3>2. Changes(l1_latency_queue, l1_latency_queue', i, 1) /\ Changes(mem, mem', i, 0)
      BY <1>2, <2>6
    <3> QED BY <2>2, <2>3, <2>4, <2>6, <3>1, <3>2, StoresMove
  <2> QED BY <2>2, <2>5, <2>6, StoresKept
<1>6. CASE L1LatencyQueueCycle
  <2>1. PICK i \in BagToSet(l1_latency_queue) :
          /\ l1_latency_queue' = l1_latency_queue (-) One(i)
          /\ \/ mem' = mem (+) One(i) /\ UNCHANGED m_stores_outstanding
             \/ Code(i).op # "store" /\ UNCHANGED <<mem, m_stores_outstanding>>
             \/ /\ Code(i).op = "store" /\ UNCHANGED mem
                /\ m_stores_outstanding' = [m_stores_outstanding EXCEPT ![i.warp] = m_stores_outstanding[i.warp] - 1]
    BY <1>6 DEF L1LatencyQueueCycle, IsLoad
  <2>2. program' = program /\ i \in Coded /\ i.warp \in Warps
    BY <1>3, <1>6 DEF L1LatencyQueueCycle, ctas
  <2>3. CASE mem' = mem (+) One(i) /\ UNCHANGED m_stores_outstanding
    <3>1. -1 \in Int /\ 1 \in Int /\ (-1) + 1 = 0 /\ 0 \in Int
      OBVIOUS
    <3>2. Changes(l1_latency_queue, l1_latency_queue', i, -1) /\ Changes(mem, mem', i, 1)
      BY <1>2, <2>1, <2>3
    <3>3. m_stores_outstanding' = [m_stores_outstanding EXCEPT ![i.warp] =
             IF Code(i).op = "store" THEN m_stores_outstanding[i.warp] + 0 ELSE m_stores_outstanding[i.warp]]
      BY <1>4, <2>3, <3>1
    <3> QED BY <2>2, <3>1, <3>2, <3>3, StoresMove
  <2>4. ASSUME UNCHANGED mem,
               m_stores_outstanding' = [m_stores_outstanding EXCEPT ![i.warp] =
                 IF Code(i).op = "store" THEN m_stores_outstanding[i.warp] + (-1) ELSE m_stores_outstanding[i.warp]]
        PROVE  StoresCounted'
    <3>1. -1 \in Int /\ 0 \in Int /\ (-1) + 0 = -1
      OBVIOUS
    <3>2. Changes(l1_latency_queue, l1_latency_queue', i, -1) /\ Changes(mem, mem', i, 0)
      BY <1>2, <2>1, <2>4
    <3> QED BY <2>2, <2>4, <3>1, <3>2, StoresMove
  <2>5. CASE Code(i).op # "store" /\ UNCHANGED <<mem, m_stores_outstanding>>
    <3>1. -1 \in Int
      OBVIOUS
    <3> QED BY <1>4, <2>4, <2>5, <3>1
  <2>6. CASE /\ Code(i).op = "store" /\ UNCHANGED mem
             /\ m_stores_outstanding' = [m_stores_outstanding EXCEPT ![i.warp] = m_stores_outstanding[i.warp] - 1]
    <3>1. m_stores_outstanding[i.warp] - 1 = m_stores_outstanding[i.warp] + (-1)
      BY <2>2 DEF StoresCounted
    <3> QED BY <2>4, <2>6, <3>1
  <2> QED BY <2>1, <2>3, <2>5, <2>6
<1>7. CASE StoreAck \/ WritebackClient
  <2>1. CASE UNCHANGED <<mem, m_stores_outstanding>>
    <3>1. UNCHANGED <<program, l1_latency_queue>>
      BY <1>7 DEF StoreAck, WritebackClient, ctas
    <3> QED BY <2>1, <3>1, StoresKept
  <2>2. ASSUME NEW i \in BagToSet(mem), mem' = mem (-) One(i), UNCHANGED l1_latency_queue, program' = program,
               m_stores_outstanding' = [m_stores_outstanding EXCEPT ![i.warp] =
                 IF Code(i).op = "store" THEN m_stores_outstanding[i.warp] + (-1) ELSE m_stores_outstanding[i.warp]]
        PROVE  StoresCounted'
    <3>1. -1 \in Int /\ 0 \in Int /\ 0 + (-1) = -1
      OBVIOUS
    <3>2. Changes(l1_latency_queue, l1_latency_queue', i, 0) /\ Changes(mem, mem', i, -1)
      BY <1>2, <2>2
    <3> QED BY <1>3, <2>2, <3>1, <3>2, StoresMove
  <2>3. CASE StoreAck
    <3>1. PICK i \in BagToSet(mem) :
            /\ Code(i).op = "store" /\ mem' = mem (-) One(i)
            /\ m_stores_outstanding' = [m_stores_outstanding EXCEPT ![i.warp] = m_stores_outstanding[i.warp] - 1]
      BY <2>3 DEF StoreAck
    <3>2. UNCHANGED <<program, l1_latency_queue>>
      BY <2>3 DEF StoreAck, ctas
    <3>3. m_stores_outstanding[i.warp] - 1 = m_stores_outstanding[i.warp] + (-1)
      BY <1>3, <3>1 DEF StoresCounted
    <3> QED BY <2>2, <3>1, <3>2, <3>3
  <2>4. CASE WritebackClient
    <3>1. /\ UNCHANGED <<program, l1_latency_queue, m_stores_outstanding>>
          /\ \/ UNCHANGED mem
             \/ \E i \in BagToSet(mem) : Code(i).op # "store" /\ mem' = mem (-) One(i)
      BY <2>4 DEF WritebackClient, IsLoad, ctas
    <3>2. ASSUME NEW i \in BagToSet(mem), Code(i).op # "store", mem' = mem (-) One(i) PROVE StoresCounted'
      <4>1. -1 \in Int
        OBVIOUS
      <4>2. m_stores_outstanding' = [m_stores_outstanding EXCEPT ![i.warp] =
               IF Code(i).op = "store" THEN m_stores_outstanding[i.warp] + (-1) ELSE m_stores_outstanding[i.warp]]
        BY <1>4, <3>1, <3>2, <4>1
      <4> QED BY <2>2, <3>1, <3>2, <4>2
    <3> QED BY <2>1, <3>1, <3>2
  <2> QED BY <1>7, <2>3, <2>4
<1>8. CASE UNCHANGED <<program, l1_latency_queue, mem, m_stores_outstanding>>
  BY <1>8, StoresKept
<1>9. ASSUME NEW w \in Warps, IssueWarp(w) PROVE UNCHANGED <<program, l1_latency_queue, mem, m_stores_outstanding>>
  BY <1>9, Zenon DEF IssueWarp, ctas
<1>10. CASE Writeback \/ LdstIssue \/ LdstWriteback
  BY <1>8, <1>10, Zenon DEF Writeback, LdstIssue, LdstWriteback, ctas, ldst
<1>11. CASE IssueBlock2Core \/ FetchReply \/ Fetch \/ Decode \/ UNCHANGED vars
            \/ \E w \in Warps : MembarDone(w) \/ ControlHazard(w)
  BY <1>8, <1>11, Zenon DEF IssueBlock2Core, FetchReply, Fetch, Decode, MembarDone, ControlHazard, vars, ctas, ldst
<1> QED BY <1>5, <1>6, <1>7, <1>8, <1>9, <1>10, <1>11, Zenon DEF Next

-----------------------------------------------------------------------------
(* Atomics.                                                                 *)

\* The accesses of an atomic that have not come back.
Due(i) == In(mem, i) + (IF m_dispatch_reg = i THEN accessq ELSE IF i \in oc THEN Code(i).n ELSE 0)
Atom(i, w) == i.warp = w /\ Code(i).op = "atom"

\* An atomic goes around the L1.
AtomsRouted == \A i \in BagToSet(l1_latency_queue) : Code(i).op # "atom"

\* A warp waits for one atomic at a time, and counts its accesses.
AtomsDue ==
    /\ m_n_atomic \in [Warps -> Nat]
    /\ \A w \in Warps :
        /\ functional_done[w] => m_n_atomic[w] = 0
        /\ \A i \in Coded : Atom(i, w) /\ Due(i) > 0 =>
              /\ m_n_atomic[w] = Due(i)
              /\ \A j \in Coded : Atom(j, w) /\ Due(j) > 0 => j = i
        /\ (\A i \in Coded : Atom(i, w) => Due(i) = 0) => m_n_atomic[w] = 0

AtomicsCounted == AtomsRouted /\ AtomsDue

LEMMA DueType ==
    ASSUME ShaderCoreAssumption, program \in Programs, Staged, NEW i \in Coded
    PROVE  Due(i) \in Nat /\ In(mem, i) \in Nat
<1>1. In(mem, i) \in Nat /\ accessq \in Nat
  BY CountIn DEF Staged
<1>2. Code(i).n \in Nat
  BY CodedTyped
<1> QED BY <1>1, <1>2 DEF Due

LEMMA DueTypeAfter ==
    ASSUME ShaderCoreAssumption, program \in Programs, program' = program, Staged'
    PROVE  \A i \in Coded : Due(i)' \in Nat
<1>1. IsABag(mem') /\ accessq' \in Nat /\ \A i : Code(i)' = Code(i)
  BY SameProgram DEF Staged
<1>2. ASSUME NEW i \in Coded PROVE Due(i)' \in Nat
  <2>1. In(mem', i) \in Nat /\ Code(i).n \in Nat
    BY <1>1, CountIn, CodedTyped
  <2>2. Due(i)' = In(mem', i) + (IF m_dispatch_reg' = i THEN accessq' ELSE IF i \in oc' THEN Code(i).n ELSE 0)
    BY <1>1 DEF Due, In
  <2> QED BY <1>1, <2>1, <2>2
<1> QED BY <1>2

LEMMA AtomsKept ==
    ASSUME AtomsDue, UNCHANGED <<program, m_n_atomic>>, \A w \in Warps : functional_done'[w] => functional_done[w],
           \A i \in Coded : Code(i).op = "atom" => Due(i)' = Due(i)
    PROVE  AtomsDue'
<1>1. Coded' = Coded /\ \A i : Code(i)' = Code(i)
  BY SameProgram
<1>2. \A i, w : Atom(i, w)' <=> Atom(i, w)
  BY <1>1, Zenon DEF Atom
<1>3. \A i \in Coded : \A w : Atom(i, w) => Due(i)' = Due(i)
  BY DEF Atom
<1>4. ASSUME NEW w \in Warps
      PROVE  /\ functional_done'[w] => m_n_atomic'[w] = 0
             /\ \A i \in Coded : Atom(i, w) /\ Due(i)' > 0 =>
                   /\ m_n_atomic'[w] = Due(i)'
                   /\ \A j \in Coded : Atom(j, w) /\ Due(j)' > 0 => j = i
             /\ (\A i \in Coded : Atom(i, w) => Due(i)' = 0) => m_n_atomic'[w] = 0
  BY <1>3, Zenon DEF AtomsDue
<1> QED BY <1>1, <1>2, <1>4, Zenon DEF AtomsDue

\* The accesses due of i change by d, and so does its warp's counter.
LEMMA AtomsMove ==
    ASSUME AtomsDue, program' = program, NEW i \in Coded, i.warp \in Warps, NEW d \in Int,
           \A j \in Coded : Due(j) \in Nat /\ Due(j)' \in Nat,
           \A j \in Coded : Code(j).op = "atom" => Due(j)' = Due(j) + (IF j = i THEN d ELSE 0),
           Code(i).op = "atom" => Due(i) > 0 \/ (m_n_atomic[i.warp] = 0 /\ ~functional_done'[i.warp]),
           m_n_atomic' = [m_n_atomic EXCEPT ![i.warp] =
               IF Code(i).op = "atom" THEN m_n_atomic[i.warp] + d ELSE m_n_atomic[i.warp]],
           \A w \in Warps : functional_done'[w] => m_n_atomic[w] = 0
    PROVE  AtomsDue'
<1>1. Coded' = Coded /\ \A j : Code(j)' = Code(j)
  BY SameProgram
<1>2. \A j, w : Atom(j, w)' <=> Atom(j, w)
  BY <1>1, Zenon DEF Atom
<1>3. m_n_atomic \in [Warps -> Nat]
  BY DEF AtomsDue
<1>4. ASSUME NEW w \in Warps
      PROVE  /\ m_n_atomic'[w] \in Nat
             /\ functional_done'[w] => m_n_atomic'[w] = 0
             /\ \A j \in Coded : Atom(j, w) /\ Due(j)' > 0 =>
                   /\ m_n_atomic'[w] = Due(j)'
                   /\ \A k \in Coded : Atom(k, w) /\ Due(k)' > 0 => k = j
             /\ (\A j \in Coded : Atom(j, w) => Due(j)' = 0) => m_n_atomic'[w] = 0
  <2>1. /\ m_n_atomic[w] \in Nat
        /\ functional_done'[w] => m_n_atomic[w] = 0
        /\ \A j \in Coded : Atom(j, w) /\ Due(j) > 0 =>
              /\ m_n_atomic[w] = Due(j)
              /\ \A k \in Coded : Atom(k, w) /\ Due(k) > 0 => k = j
        /\ (\A j \in Coded : Atom(j, w) => Due(j) = 0) => m_n_atomic[w] = 0
    BY <1>3 DEF AtomsDue
  <2>2. \A j \in Coded : Atom(j, w) /\ j # i => Due(j)' = Due(j)
    <3>1. ASSUME NEW j \in Coded, Atom(j, w), j # i PROVE Due(j)' = Due(j)
      <4>1. Due(j)' = Due(j) + 0 /\ Due(j) \in Nat
        BY <3>1 DEF Atom
      <4> QED BY <4>1
    <3> QED BY <3>1
  <2>3. CASE ~Atom(i, w)
    <3>1. m_n_atomic'[w] = m_n_atomic[w]
      BY <1>3, <2>3 DEF Atom
    <3>2. \A j \in Coded : Atom(j, w) => Due(j)' = Due(j)
      BY <2>2, <2>3
    <3> QED BY <2>1, <3>1, <3>2
  <2>4. CASE Atom(i, w)
    <3>1. i.warp = w /\ m_n_atomic'[w] = m_n_atomic[w] + d /\ Due(i)' = Due(i) + d
      BY <1>3, <2>4 DEF Atom
    <3>2. Due(i) \in Nat /\ Due(i)' \in Nat /\ \A j \in Coded : Due(j) \in Nat /\ Due(j)' \in Nat
      OBVIOUS
    <3>3. Due(i) > 0 \/ (m_n_atomic[w] = 0 /\ ~functional_done'[w])
      BY <2>4, <3>1 DEF Atom
    <3>4. m_n_atomic[w] = Due(i) /\ \A j \in Coded : Atom(j, w) /\ j # i => Due(j) = 0
      <4>1. CASE Due(i) > 0
        BY <2>1, <2>4, <3>2, <4>1
      <4>2. CASE m_n_atomic[w] = 0
        BY <2>1, <2>4, <3>2, <4>2
      <4> QED BY <3>3, <4>1, <4>2
    <3>5. m_n_atomic'[w] = Due(i)' /\ m_n_atomic'[w] \in Nat
      BY <3>1, <3>2, <3>4
    <3>6. \A j \in Coded : Atom(j, w) /\ Due(j)' > 0 => j = i
      BY <2>2, <3>4
    <3>7. functional_done'[w] => FALSE
      BY <2>1, <3>3, <3>4
    <3> QED BY <2>4, <3>5, <3>6, <3>7
  <2> QED BY <2>3, <2>4
<1>5. m_n_atomic' = [w \in Warps |-> m_n_atomic'[w]]
  BY <1>3
<1>6. m_n_atomic' \in [Warps -> Nat]
  BY <1>4, <1>5
<1> QED BY <1>1, <1>2, <1>4, <1>6, Zenon DEF AtomsDue

LEMMA RoutedKept ==
    ASSUME AtomsRouted, UNCHANGED <<program, l1_latency_queue>>
    PROVE  AtomsRouted'
<1>1. \A i : Code(i)' = Code(i)
  BY SameProgram
<1> QED BY <1>1, Zenon DEF AtomsRouted

LEMMA RoutedStep ==
    ASSUME ShaderCoreAssumption, ScoreInv, AtomsRouted, [Next]_vars
    PROVE  AtomsRouted'
<1>1. program \in Programs /\ Staged
  BY DEF ScoreInv, CoreInv, Contexts, Flight
<1>2. CASE MemoryCycle
  <2>1. PICK i : i = m_dispatch_reg
    OBVIOUS
  <2>2. /\ i # None /\ program' = program
        /\ SendAccess(i) \/ UNCHANGED l1_latency_queue
    BY <1>2, <2>1, Zenon DEF MemoryCycle, ctas
  <2>3. i \in Coded
    BY <1>1, <2>1, <2>2 DEF Staged
  <2>4. \/ l1_latency_queue' = l1_latency_queue
        \/ Code(i).op # "atom" /\ l1_latency_queue' = l1_latency_queue (+) One(i)
    <3>1. SendAccess(i) => \/ l1_latency_queue' = l1_latency_queue
                           \/ Code(i).route = "queue" /\ l1_latency_queue' = l1_latency_queue (+) One(i)
      BY Zenon DEF SendAccess
    <3>2. Code(i).op = "atom" => Code(i).route = "bypass"
      BY <1>1, <2>3, CodedTyped
    <3> QED BY <2>2, <3>1, <3>2
  <2>5. \A j \in BagToSet(l1_latency_queue') : Code(j).op # "atom"
    <3>1. BagToSet(l1_latency_queue (+) One(i)) = BagToSet(l1_latency_queue) \cup {i}
      BY <1>1, BagPut DEF Staged
    <3> QED BY <2>4, <3>1 DEF AtomsRouted
  <2>6. \A j : Code(j)' = Code(j)
    BY <2>2, SameProgram
  <2> QED BY <2>5, <2>6, Zenon DEF AtomsRouted
<1>3. CASE L1LatencyQueueCycle
  <2>1. PICK i \in BagToSet(l1_latency_queue) : l1_latency_queue' = l1_latency_queue (-) One(i)
    BY <1>3, Zenon DEF L1LatencyQueueCycle
  <2>2. program' = program /\ \A j : Code(j)' = Code(j)
    BY <1>3, SameProgram DEF L1LatencyQueueCycle, ctas
  <2>3. BagToSet(l1_latency_queue') \subseteq BagToSet(l1_latency_queue)
    BY <1>1, <2>1, BagTake DEF Staged
  <2> QED BY <2>2, <2>3 DEF AtomsRouted
<1>4. CASE Writeback \/ LdstIssue \/ StoreAck \/ WritebackClient \/ LdstWriteback
  BY <1>4, RoutedKept, Zenon DEF Writeback, LdstIssue, StoreAck, WritebackClient, LdstWriteback, ctas, ldst
<1>5. CASE IssueBlock2Core \/ FetchReply \/ Fetch \/ Decode \/ UNCHANGED vars
  BY <1>5, RoutedKept, Zenon DEF IssueBlock2Core, FetchReply, Fetch, Decode, vars, ctas, ldst
<1>6. CASE \E w \in Warps : MembarDone(w) \/ ControlHazard(w) \/ IssueWarp(w)
  BY <1>6, RoutedKept, Zenon DEF MembarDone, ControlHazard, IssueWarp, ctas, ldst
<1> QED BY <1>2, <1>3, <1>4, <1>5, <1>6, Zenon DEF Next

LEMMA AtomsStart ==
    ASSUME ShaderCoreAssumption, Contexts, AtomsDue, IssueBlock2Core
    PROVE  AtomsDue'
<1>1. PICK s \in 0..(Slots - 1) :
        /\ cta_of[s] = 0
        /\ functional_done' = [w \in Warps |-> IF w \in WarpsOf(s) THEN FALSE ELSE functional_done[w]]
        /\ m_n_atomic' = [w \in Warps |-> IF w \in WarpsOf(s) THEN 0 ELSE m_n_atomic[w]]
  BY Zenon DEF IssueBlock2Core
<1>2. s \in SlotIds /\ Alive(s) = {}
  BY <1>1, WarpsOfSlot DEF Contexts
<1>3. \A w \in WarpsOf(s) : w \in Warps /\ m_n_atomic[w] = 0
  <2>1. \A w \in WarpsOf(s) : w \in Warps /\ m_done_exit[w]
    BY <1>2 DEF Alive, WarpsOf
  <2> QED BY <2>1 DEF Contexts, AtomsDue
<1>4. m_n_atomic' = m_n_atomic
  BY <1>1, <1>3 DEF AtomsDue
<1>5. \A w \in Warps : functional_done'[w] => functional_done[w]
  BY <1>1
<1>6. UNCHANGED <<program, mem, m_dispatch_reg, accessq, oc>>
  BY Zenon DEF IssueBlock2Core, ldst
<1>7. \A i : Due(i)' = Due(i)
  <2>1. \A i : Code(i)' = Code(i)
    BY <1>6, SameProgram
  <2> QED BY <1>6, <2>1, Zenon DEF Due, In
<1> QED BY <1>4, <1>5, <1>6, <1>7, AtomsKept

LEMMA AtomsIssued ==
    ASSUME ShaderCoreAssumption, ScoreInv, AtomsDue, NEW w \in Warps, NEW i \in Coded, Issues(w, i), Staged'
    PROVE  AtomsDue'
<1>1. program \in Programs /\ Staged /\ functional_done \in [Warps -> BOOLEAN] /\ m_n_atomic \in [Warps -> Nat]
  BY DEF ScoreInv, CoreInv, Contexts, Flight, AtomsDue
<1>2. /\ i \notin InFlight /\ i.warp = w /\ program' = program
      /\ functional_done' = [functional_done EXCEPT ![w] = (Code(i).op = "exit")]
      /\ m_n_atomic' = [m_n_atomic EXCEPT ![w] =
                           IF Code(i).op = "atom" THEN m_n_atomic[w] + Code(i).n ELSE m_n_atomic[w]]
      /\ UNCHANGED <<m_dispatch_reg, accessq, mem>>
  BY Zenon DEF Issues
<1>3. oc' = IF Code(i).op \in MemOps THEN oc \cup {i} ELSE oc
  BY Zenon DEF Issues
<1>4. m_n_atomic[w] = 0
  <2>1. ~(m_n_atomic[w] > 0)
    BY DEF Issues, CanTest, Waiting
  <2> QED BY <1>1, <2>1
<1>5. i \notin oc /\ i # m_dispatch_reg /\ In(mem, i) = 0
  <2>1. i # None
    BY <1>1, StagesNone DEF NoneApart
  <2>2. i \notin BagToSet(mem)
    BY <1>2 DEF InFlight, Answering
  <2> QED BY <1>2, <2>1, <2>2 DEF InFlight, InPipeline, In
<1>6. \A j : Code(j)' = Code(j)
  BY <1>2, SameProgram
<1>7. \A j : Due(j)' = In(mem, j) + (IF m_dispatch_reg = j THEN accessq ELSE IF j \in oc' THEN Code(j).n ELSE 0)
  BY <1>2, <1>6, Zenon DEF Due, In
<1>8. Code(i).n \in Nat /\ Code(i).n \in Int
  <2>1. Code(i).n \in Nat
    BY <1>1, CodedTyped, Zenon
  <2> QED BY <2>1
<1>9. \A j \in Coded : Due(j) \in Nat /\ Due(j)' \in Nat
  BY <1>1, <1>2, DueType, DueTypeAfter
<1>10. ASSUME NEW j \in Coded, Code(j).op = "atom"
       PROVE  Due(j)' = Due(j) + (IF j = i THEN Code(i).n ELSE 0)
  <2>1. CASE j = i
    <3>1. i \in oc'
      BY <1>3, <1>10, <2>1 DEF MemOps
    <3>2. Due(i)' = 0 + Code(i).n /\ Due(i) = 0 + 0
      BY <1>5, <1>7, <3>1 DEF Due
    <3> QED BY <1>8, <2>1, <3>2
  <2>2. CASE j # i
    <3>1. Due(j)' = Due(j)
      BY <1>3, <1>7, <2>2 DEF Due
    <3> QED BY <1>9, <2>2, <3>1
  <2> QED BY <2>1, <2>2
<1>11. Code(i).op = "atom" => m_n_atomic[i.warp] = 0 /\ ~functional_done'[i.warp]
  BY <1>1, <1>2, <1>4
<1>12. \A v \in Warps : functional_done'[v] => m_n_atomic[v] = 0
  BY <1>1, <1>2, <1>4 DEF AtomsDue
<1> QED BY <1>2, <1>8, <1>9, <1>10, <1>11, <1>12, AtomsMove

\* Only accesses of other instructions than atomics are sent or answered.
LEMMA AtomsElsewhere ==
    ASSUME AtomsDue, UNCHANGED <<program, functional_done, m_n_atomic, m_dispatch_reg, accessq, oc>>,
           \A j \in Coded : Code(j).op = "atom" => In(mem', j) = In(mem, j)
    PROVE  AtomsDue'
<1>1. \A j : Due(j)' = In(mem', j) + (IF m_dispatch_reg = j THEN accessq ELSE IF j \in oc THEN Code(j).n ELSE 0)
  <2>1. \A j : Code(j)' = Code(j)
    BY SameProgram
  <2> QED BY <2>1, Zenon DEF Due, In
<1>2. \A j \in Coded : Code(j).op = "atom" => Due(j)' = Due(j)
  BY <1>1, Zenon DEF Due
<1> QED BY <1>2, AtomsKept

LEMMA AtomsIssueMem ==
    ASSUME ShaderCoreAssumption, ScoreInv, AtomsDue, LdstIssue
    PROVE  AtomsDue'
<1>1. PICK i \in oc : /\ oc' = oc \ {i} /\ m_dispatch_reg' = i /\ m_dispatch_reg = None
                      /\ Code(i).op = "atom" => accessq' = Code(i).n
  BY Zenon DEF LdstIssue
<1>2. UNCHANGED <<program, mem, m_n_atomic, functional_done>> /\ \A j : Code(j)' = Code(j)
  BY SameProgram DEF LdstIssue, ctas, warp
<1>3. None \notin Coded /\ i \in Coded
  BY <1>1, StagesNone DEF NoneApart, ScoreInv, CoreInv, Contexts, Flight, Staged
<1>4. \A j : Due(j)' = In(mem, j) + (IF m_dispatch_reg' = j THEN accessq' ELSE IF j \in oc' THEN Code(j).n ELSE 0)
  BY <1>2, Zenon DEF Due, In
<1>5. \A j \in Coded : Code(j).op = "atom" => Due(j)' = Due(j)
  BY <1>1, <1>3, <1>4 DEF Due
<1> QED BY <1>2, <1>5, AtomsKept

LEMMA AtomsSent ==
    ASSUME ShaderCoreAssumption, ScoreInv, AtomsDue, MemoryCycle
    PROVE  AtomsDue'
<1>1. PICK i : i = m_dispatch_reg
  OBVIOUS
<1>2. /\ i # None /\ UNCHANGED <<program, oc, m_n_atomic, functional_done>>
      /\ IF accessq > 0 THEN SendAccess(i) /\ accessq' = accessq - 1 ELSE UNCHANGED <<mem, accessq>>
      /\ IF accessq <= 1 THEN Dispatched(i, m_pending_writes') ELSE UNCHANGED m_dispatch_reg
  BY <1>1, Zenon DEF MemoryCycle, ctas, warp
<1>3. program \in Programs /\ Staged /\ Separate /\ None \notin Coded
  BY StagesNone DEF NoneApart, ScoreInv, CoreInv, Contexts, Flight
<1>4. i \in Coded /\ i \in InFlight /\ accessq \in Nat /\ IsABag(mem)
  BY <1>1, <1>2, <1>3 DEF Staged, InFlight, InPipeline
<1>5. m_dispatch_reg' = IF accessq <= 1 THEN None ELSE i
  BY <1>1, <1>2 DEF Dispatched
<1>6. SendAccess(i) => /\ mem' = mem \/ mem' = mem (+) One(i)
                       /\ Code(i).route = "bypass" => mem' = mem (+) One(i)
  BY Zenon DEF SendAccess
<1>7. \A j : In(mem (+) One(i), j) = In(mem, j) + (IF j = i THEN 1 ELSE 0)
  BY <1>4, BagPut
<1>8. \A j : In(mem, j) \in Nat
  BY <1>4, CountIn
<1>9. \A j : j # i => In(mem', j) = In(mem, j)
  BY <1>2, <1>6, <1>7, <1>8
<1>10. \A j : Due(j)' = In(mem', j) + (IF m_dispatch_reg' = j THEN accessq' ELSE IF j \in oc THEN Code(j).n ELSE 0)
  <2>1. \A j : Code(j)' = Code(j)
    BY <1>2, SameProgram
  <2> QED BY <1>2, <2>1, Zenon DEF Due, In
<1>11. ASSUME NEW j \in Coded, j # i PROVE Due(j)' = Due(j)
  <2>1. m_dispatch_reg # j /\ m_dispatch_reg' # j
    BY <1>1, <1>3, <1>5, <1>11
  <2> QED BY <1>9, <1>10, <1>11, <2>1 DEF Due
<1>12. ASSUME Code(i).op = "atom" PROVE Due(i)' = Due(i)
  <2>1. Code(i).route = "bypass"
    BY <1>3, <1>4, <1>12, CodedTyped
  <2>2. IF accessq > 0 THEN In(mem', i) = In(mem, i) + 1 /\ accessq' = accessq - 1
        ELSE In(mem', i) = In(mem, i) /\ accessq' = accessq
    BY <1>2, <1>6, <1>7, <2>1
  <2>3. i \notin oc
    BY <1>1, <1>3, <1>4 DEF Separate, Apart
  <2>4. Due(i)' = In(mem', i) + (IF m_dispatch_reg' = i THEN accessq' ELSE 0)
    BY <1>10, <2>3
  <2>5. i # None /\ Due(i) = In(mem, i) + accessq
    BY <1>1, <1>2 DEF Due
  <2> QED BY <1>4, <1>5, <1>8, <2>2, <2>4, <2>5
<1> QED BY <1>2, <1>11, <1>12, AtomsKept

LEMMA AtomAnswered ==
    ASSUME ShaderCoreAssumption, ScoreInv, AtomsDue, WritebackClient, Staged'
    PROVE  AtomsDue'
<1>1. UNCHANGED <<program, functional_done, m_dispatch_reg, accessq, oc>>
  BY DEF WritebackClient, ctas, warp
<1>2. \/ UNCHANGED <<mem, m_n_atomic>>
      \/ \E i \in BagToSet(mem) :
           /\ mem' = mem (-) One(i)
           /\ m_n_atomic' = [m_n_atomic EXCEPT ![i.warp] =
                               IF Code(i).op = "atom" THEN m_n_atomic[i.warp] - 1 ELSE m_n_atomic[i.warp]]
  BY Zenon DEF WritebackClient
<1>3. CASE UNCHANGED <<mem, m_n_atomic>>
  BY <1>1, <1>3, AtomsElsewhere
<1>4. ASSUME NEW i \in BagToSet(mem), mem' = mem (-) One(i),
             m_n_atomic' = [m_n_atomic EXCEPT ![i.warp] =
                              IF Code(i).op = "atom" THEN m_n_atomic[i.warp] - 1 ELSE m_n_atomic[i.warp]]
      PROVE  AtomsDue'
  <2>1. /\ program \in Programs /\ Staged /\ IsABag(mem) /\ i \in Coded
        /\ m_n_atomic \in [Warps -> Nat] /\ functional_done' = functional_done
    BY <1>1, <1>4 DEF ScoreInv, CoreInv, Contexts, Flight, Staged, AtomsDue
  <2>2. i.warp \in Warps /\ \A j \in Coded : Due(j) \in Nat /\ Due(j)' \in Nat
    BY <1>1, <2>1, CodedTyped, DueType, DueTypeAfter
  <2>3. \A j : In(mem', j) = In(mem, j) - (IF j = i THEN 1 ELSE 0)
    BY <1>4, <2>1, BagTake
  <2>4. \A j : Due(j)' = In(mem', j) + (IF m_dispatch_reg = j THEN accessq ELSE IF j \in oc THEN Code(j).n ELSE 0)
    <3>1. \A j : Code(j)' = Code(j)
      BY <1>1, SameProgram
    <3> QED BY <1>1, <3>1, Zenon DEF Due, In
  <2>5. ASSUME NEW j \in Coded PROVE Due(j)' = Due(j) + (IF j = i THEN -1 ELSE 0)
    <3>1. In(mem, j) \in Nat /\ Due(j) \in Nat
      BY <2>1, <2>2, CountIn
    <3>2. accessq \in Nat /\ Code(j).n \in Nat
      BY <2>1, CodedTyped DEF Staged
    <3> QED BY <2>3, <2>4, <3>1, <3>2 DEF Due
  <2>6. Due(i) > 0
    <3>1. In(mem, i) > 0
      BY <1>4, <2>1, CountIn
    <3>2. In(mem, i) \in Nat /\ accessq \in Nat /\ Code(i).n \in Nat
      BY <2>1, CountIn, CodedTyped DEF Staged
    <3> QED BY <3>1, <3>2 DEF Due
  <2>7. m_n_atomic' = [m_n_atomic EXCEPT ![i.warp] =
                         IF Code(i).op = "atom" THEN m_n_atomic[i.warp] + (-1) ELSE m_n_atomic[i.warp]]
    <3>1. m_n_atomic[i.warp] + (-1) = m_n_atomic[i.warp] - 1
      BY <2>1, <2>2
    <3> QED BY <1>4, <3>1
  <2>8. -1 \in Int /\ \A w \in Warps : functional_done'[w] => m_n_atomic[w] = 0
    BY <2>1 DEF AtomsDue
  <2> QED BY <1>1, <2>1, <2>2, <2>5, <2>6, <2>7, <2>8, AtomsMove
<1> QED BY <1>2, <1>3, <1>4

LEMMA AtomsBackend ==
    ASSUME ShaderCoreAssumption, ScoreInv, AtomicsCounted, Backend, Staged'
    PROVE  AtomsDue'
<1>1. AtomsRouted /\ AtomsDue /\ Staged
  BY DEF AtomicsCounted, ScoreInv, Flight
<1>2. CASE Writeback \/ LdstWriteback
  <2>1. UNCHANGED <<program, functional_done, m_n_atomic, m_dispatch_reg, accessq, oc, mem>>
    BY <1>2, Zenon DEF Writeback, LdstWriteback, ctas, warp, ldst
  <2> QED BY <1>1, <2>1, AtomsElsewhere
<1>3. CASE L1LatencyQueueCycle
  <2>1. PICK i \in BagToSet(l1_latency_queue) : mem' = mem (+) One(i) \/ mem' = mem
    BY <1>3, Zenon DEF L1LatencyQueueCycle
  <2>2. UNCHANGED <<program, functional_done, m_n_atomic, m_dispatch_reg, accessq, oc>>
    BY <1>3, Zenon DEF L1LatencyQueueCycle, ctas, warp
  <2>3. \A j : In(mem, j) \in Nat /\ In(mem (+) One(i), j) = In(mem, j) + (IF j = i THEN 1 ELSE 0)
    BY <1>1, CountIn, BagPut DEF Staged
  <2>4. Code(i).op # "atom"
    BY <1>1 DEF AtomsRouted
  <2> QED BY <1>1, <2>1, <2>2, <2>3, <2>4, AtomsElsewhere
<1>4. CASE StoreAck
  <2>1. PICK i \in BagToSet(mem) : Code(i).op = "store" /\ mem' = mem (-) One(i)
    BY <1>4, Zenon DEF StoreAck
  <2>2. UNCHANGED <<program, functional_done, m_n_atomic, m_dispatch_reg, accessq, oc>>
    BY <1>4, Zenon DEF StoreAck, ctas, warp
  <2>3. \A j : In(mem, j) \in Nat /\ In(mem', j) = In(mem, j) - (IF j = i THEN 1 ELSE 0)
    BY <1>1, <2>1, CountIn, BagTake DEF Staged
  <2> QED BY <1>1, <2>1, <2>2, <2>3, AtomsElsewhere
<1> QED BY <1>1, <1>2, <1>3, <1>4, AtomsIssueMem, AtomsSent, AtomAnswered, Zenon DEF Backend

LEMMA AtomicsStep ==
    ASSUME ShaderCoreAssumption, ScoreInv, AtomicsCounted, [Next]_vars
    PROVE  AtomicsCounted'
<1>1. AtomsRouted /\ AtomsDue /\ CoreInv /\ Contexts /\ Flight /\ IsFiniteSet(InFlight)
  BY DEF AtomicsCounted, ScoreInv, CoreInv
<1>2. Staged'
  BY <1>1, FlightStep DEF Flight
<1>3. AtomsRouted'
  BY <1>1, RoutedStep
<1>4. AtomsDue'
  <2>1. CASE IssueBlock2Core
    BY <1>1, <2>1, AtomsStart
  <2>2. ASSUME NEW w \in Warps, IssueWarp(w) PROVE AtomsDue'
    BY <1>1, <1>2, <2>2, IssueEffect, AtomsIssued
  <2>3. CASE Backend
    BY <1>2, <2>3, AtomsBackend
  <2>4. CASE UNCHANGED <<program, functional_done, m_n_atomic, m_dispatch_reg, accessq, oc, mem>>
    BY <1>1, <2>4, AtomsElsewhere
  <2>5. CASE FetchReply \/ Fetch \/ Decode \/ UNCHANGED vars \/ \E w \in Warps : MembarDone(w) \/ ControlHazard(w)
    BY <2>4, <2>5, Zenon DEF FetchReply, Fetch, Decode, MembarDone, ControlHazard, vars, ctas, warp, ldst
  <2> QED BY <2>1, <2>2, <2>3, <2>5, Zenon DEF Next, Backend
<1> QED BY <1>3, <1>4 DEF AtomicsCounted

-----------------------------------------------------------------------------
(* Warps exit after all they have in flight.                                *)

Homed == \A i \in Working : cta_of[SlotOf(i.warp)] = i.cta /\ ~m_done_exit[i.warp]

LEMMA HomedKept ==
    ASSUME Homed, Working' \subseteq Working, UNCHANGED <<program, cta_of, m_done_exit>>
    PROVE  Homed'
<1>1. \A w : SlotOf(w)' = SlotOf(w)
  BY SameProgram
<1> QED BY <1>1 DEF Homed

LEMMA WorkingTyped ==
    ASSUME ShaderCoreAssumption, program \in Programs, Staged
    PROVE  /\ Working \subseteq InFlight
           /\ \A i \in Working : i \in Coded /\ i.warp \in Warps /\ (i \in InPipeline \/ Accessing(i))
<1>1. Working \subseteq InFlight
  BY DEF Working, InFlight, Answering
<1>2. \A i \in Working : i \in Coded
  BY DEF Working, InPipeline, Staged
<1>3. \A i \in Working : i \in InPipeline \/ Accessing(i)
  BY DEF Working, Staged
<1> QED BY <1>1, <1>2, <1>3, CodedTyped

\* Whatever a warp has in flight keeps it from exiting: its buffer and the
\* pipelines, its stores, its registers or its atomics.
LEMMA StillWorking ==
    ASSUME ShaderCoreAssumption, ScoreInv, PipelineCounted, StoresCounted, AtomicsCounted, NEW i \in Working
    PROVE  ~(HardwareDone(i.warp) /\ reg_table[i.warp] = {})
<1> SUFFICES ASSUME HardwareDone(i.warp), reg_table[i.warp] = {} PROVE FALSE
  OBVIOUS
<1>1. /\ program \in Programs /\ Staged /\ Flight /\ IsFiniteSet(InFlight) /\ m_ibuffer \in [Warps -> Seq(Nat)]
      /\ IsABag(l1_latency_queue) /\ IsFiniteSet(BagToSet(l1_latency_queue))
      /\ IsABag(mem) /\ IsFiniteSet(BagToSet(mem))
  BY BagsFinite DEF ScoreInv, CoreInv, Contexts, Fetching, Flight
<1>2. /\ i \in Coded /\ i \in InFlight /\ i.warp \in Warps
      /\ i \in InPipeline \/ Accessing(i)
  BY <1>1, WorkingTyped
<1>3. functional_done[i.warp] /\ m_stores_outstanding[i.warp] = 0 /\ m_inst_in_pipeline[i.warp] = 0
  BY DEF HardwareDone
<1>4. CASE i \in InPipeline
  <2>1. i \in InPipe(i.warp) /\ IsFiniteSet(InPipe(i.warp)) /\ Cardinality(InPipe(i.warp)) \in Nat
    BY <1>1, <1>4, InPipeFinite DEF InPipe
  <2>2. Cardinality(InPipe(i.warp)) # 0
    BY <2>1, FS_EmptySet
  <2>3. Len(m_ibuffer[i.warp]) \in Nat
    BY <1>1, <1>2
  <2>4. m_inst_in_pipeline[i.warp] = Len(m_ibuffer[i.warp]) + Cardinality(InPipe(i.warp))
    BY <1>2 DEF PipelineCounted
  <2> QED BY <1>3, <2>1, <2>2, <2>3, <2>4
<1>5. CASE Code(i).op = "load"
  <2>1. Code(i).out # {}
    BY <1>1, <1>2, <1>5, CodedTyped
  <2> QED BY <1>1, <1>2, <2>1, ReservedIs DEF Flight, Reserved
<1>6. CASE i \notin InPipeline /\ Code(i).op = "store"
  <2> DEFINE S == StoresOf(i.warp)
  <2>1. i \in S
    BY <1>2, <1>6 DEF StoresOf
  <2>2. Copies(l1_latency_queue, S) \in Nat /\ Copies(mem, S) \in Nat
    BY <1>1, TokensFinite
  <2>3. i \in BagToSet(l1_latency_queue) \/ i \in BagToSet(mem)
    BY <1>6 DEF Working
  <2> HIDE DEF S
  <2>4. Copies(l1_latency_queue, S) > 0 \/ Copies(mem, S) > 0
    BY <1>1, <2>1, <2>3, CopiesSome
  <2>5. m_stores_outstanding[i.warp] = Copies(l1_latency_queue, S) + Copies(mem, S)
    BY <1>2 DEF StoresCounted, Sent, S
  <2> QED BY <1>3, <2>2, <2>4, <2>5
<1>7. CASE i \notin InPipeline /\ Code(i).op = "atom"
  <2>1. i \in BagToSet(mem)
    BY <1>7 DEF AtomicsCounted, AtomsRouted, Working
  <2>2. In(mem, i) > 0 /\ In(mem, i) \in Nat
    BY <1>1, <2>1, CountIn
  <2>3. i # m_dispatch_reg /\ i \notin oc
    <3>1. i # None
      BY <1>1, <1>2, CodedTyped
    <3> QED BY <1>7, <3>1 DEF InPipeline
  <2>4. Due(i) > 0
    BY <2>2, <2>3 DEF Due
  <2> QED BY <1>2, <1>3, <1>7, <2>4 DEF AtomicsCounted, AtomsDue, Atom
<1> QED BY <1>2, <1>4, <1>5, <1>6, <1>7 DEF Accessing

Accounts == PipelineCounted /\ StoresCounted /\ AtomicsCounted /\ Owned /\ Homed

LEMMA HomedStep ==
    ASSUME ShaderCoreAssumption, ScoreInv, Accounts, [Next]_vars
    PROVE  Homed'
<1>0. /\ CoreInv /\ program \in Programs /\ Contexts /\ Fetching /\ Flight /\ Staged /\ Homed /\ IsFiniteSet(InFlight)
  BY DEF ScoreInv, CoreInv, Contexts, Flight, Accounts
<1>1. \A i \in Working : i.warp \in Warps
  BY <1>0, WorkingTyped
<1>2. ASSUME UNCHANGED <<ldst, alu>> PROVE Working' = Working
  BY <1>2, Zenon DEF ldst, Working, InPipeline
<1>3. CASE IssueBlock2Core
  <2>1. PICK s \in 0..(Slots - 1) : Starts(s)
    BY <1>0, <1>3, IssueStarts
  <2>2. /\ program' = program /\ s \in SlotIds /\ \A w \in WarpsOf(s) : m_done_exit[w]
        /\ cta_of' = [cta_of EXCEPT ![s] = issued_cta + 1] /\ UNCHANGED <<ldst, alu>>
        /\ m_done_exit' = [w \in Warps |-> IF w \in WarpsOf(s) THEN FALSE ELSE m_done_exit[w]]
    BY <2>1 DEF Starts, Alive
  <2>3. (\A w : SlotOf(w)' = SlotOf(w)) /\ Working' = Working
    BY <1>2, <2>2, SameProgram
  <2>4. ASSUME NEW i \in Working
        PROVE  cta_of'[SlotOf(i.warp)] = i.cta /\ ~m_done_exit'[i.warp]
    <3>1. cta_of[SlotOf(i.warp)] = i.cta /\ ~m_done_exit[i.warp] /\ i.warp \in Warps
      BY <1>0, <1>1 DEF Homed
    <3>2. SlotOf(i.warp) # s /\ SlotOf(i.warp) \in SlotIds
      BY <1>0, <2>2, <3>1, Width
    <3> QED BY <1>0, <2>2, <3>1, <3>2 DEF Contexts
  <2> QED BY <2>3, <2>4 DEF Homed
<1>4. CASE Fetch
  <2>1. UNCHANGED <<program, ldst, alu>> /\ Contexts'
    BY <1>0, <1>4, FetchCases
  <2>2. PICK exits, gone \in SUBSET Warps :
          Leaves(exits, gone) /\ \A w \in exits : HardwareDone(w) /\ reg_table[w] = {}
    BY <1>0, <1>4, FetchCases
  <2>3. (\A w : SlotOf(w)' = SlotOf(w)) /\ (\A s : WarpsOf(s)' = WarpsOf(s)) /\ Working' = Working
    BY <1>2, <2>1, SameProgram
  <2>4. ASSUME NEW i \in Working
        PROVE  cta_of'[SlotOf(i.warp)] = i.cta /\ ~m_done_exit'[i.warp]
    <3>1. cta_of[SlotOf(i.warp)] = i.cta /\ ~m_done_exit[i.warp] /\ i.warp \in Warps
      BY <1>0, <1>1 DEF Homed
    <3>2. i.warp \notin exits
      BY <2>2, StillWorking DEF Accounts
    <3>3. ~m_done_exit'[i.warp]
      BY <2>2, <3>1, <3>2 DEF Leaves
    <3>4. SlotOf(i.warp) \in SlotIds /\ i.warp \in WarpsOf(SlotOf(i.warp))
      BY <1>0, <3>1, Width
    <3>5. cta_of'[SlotOf(i.warp)] # 0
      BY <2>1, <2>3, <3>3, <3>4 DEF Contexts, Alive
    <3> QED BY <2>2, <3>1, <3>3, <3>4, <3>5 DEF Leaves
  <2> QED BY <2>3, <2>4 DEF Homed
<1>5. CASE FetchReply \/ Decode \/ \E w \in Warps : MembarDone(w) \/ ControlHazard(w)
  <2>1. UNCHANGED <<ctas, m_done_exit, ldst, alu>>
    BY <1>5, Zenon DEF FetchReply, Decode, MembarDone, ControlHazard
  <2> QED BY <1>0, <1>2, <2>1, HomedKept DEF ctas
<1>6. ASSUME NEW w \in Warps, IssueWarp(w) PROVE Homed'
  <2>1. PICK i \in Coded : Issues(w, i)
    BY <1>0, <1>6, IssueEffect
  <2>2. /\ (oc' = oc \cup {i} /\ alu' = alu) \/ (oc' = oc /\ alu' = alu \cup {i})
        /\ i.warp = w /\ i.cta = cta_of[SlotOf(w)] /\ ~m_done_exit[w]
        /\ UNCHANGED <<program, cta_of, m_done_exit, m_dispatch_reg, smem, l1_latency_queue, mem>>
    BY <2>1, Zenon DEF Issues, CanTest
  <2>3. Working' \subseteq Working \cup {i}
    BY <2>2 DEF Working, InPipeline
  <2>4. \A v : SlotOf(v)' = SlotOf(v)
    BY <2>2, SameProgram
  <2> QED BY <1>0, <2>2, <2>3, <2>4 DEF Homed
<1>7. CASE Backend
  <2>1. UNCHANGED <<ctas, m_done_exit>>
    BY <1>7, BackendFrame
  <2> QED BY <1>0, <1>7, <2>1, BackendShrinks, HomedKept DEF ctas
<1>8. CASE UNCHANGED vars
  <2>1. UNCHANGED <<ctas, m_done_exit, ldst, alu>>
    BY <1>8 DEF vars
  <2> QED BY <1>0, <1>2, <2>1, HomedKept DEF ctas
<1> QED BY <1>3, <1>4, <1>5, <1>6, <1>7, <1>8, Zenon DEF Next, Backend

-----------------------------------------------------------------------------
(* The counters of a warp.                                                  *)

Mine(w)       == {i \in InFlight : i.warp = w}
MineOf(w, op) == {i \in Mine(w) : Code(i).op = op}
Queued(w)     == {i \in oc \cap MineOf(w, "atom") : Code(i).n > 0}
LoadsOf(w, r) == {i \in Mine(w) : IsLoad(i) /\ r \in Code(i).out}

LEMMA StoresOnTheWay ==
    ASSUME Staged, StoresCounted, NEW w \in Warps
    PROVE  m_stores_outstanding[w] = Copies(l1_latency_queue, MineOf(w, "store")) + Copies(mem, MineOf(w, "store"))
<1>1. ASSUME NEW B, BagToSet(B) \subseteq Coded, BagToSet(B) \subseteq InFlight
      PROVE  Copies(B, MineOf(w, "store")) = Copies(B, StoresOf(w))
  <2>1. BagToSet(B) \cap MineOf(w, "store") = BagToSet(B) \cap StoresOf(w)
    BY <1>1 DEF MineOf, Mine, StoresOf
  <2> QED BY <2>1, CopiesSame
<1>2. BagToSet(l1_latency_queue) \subseteq Coded /\ BagToSet(mem) \subseteq Coded
  BY DEF Staged
<1>3. BagToSet(l1_latency_queue) \subseteq InFlight /\ BagToSet(mem) \subseteq InFlight
  BY DEF InFlight, Answering
<1>4. m_stores_outstanding[w] = Copies(l1_latency_queue, StoresOf(w)) + Copies(mem, StoresOf(w))
  BY DEF StoresCounted, Sent
<1> QED BY <1>1, <1>2, <1>3, <1>4

\* No two loads in flight write one register, so it waits for those of one load.
LEMMA RepliesToCome ==
    ASSUME Staged, NoSharing, Waits, None \notin Coded, NEW w \in Warps, NEW r \in Regs
    PROVE  m_pending_writes[w][r] =
             (Copies(l1_latency_queue, LoadsOf(w, r)) + Copies(mem, LoadsOf(w, r))) + One01(m_next_wb \in LoadsOf(w, r))
             + (IF m_dispatch_reg \in LoadsOf(w, r) THEN accessq ELSE 0)
<1> DEFINE L == LoadsOf(w, r)
<1>1. \A i : i \in L <=> i \in InFlight /\ Loads(i, w, r)
  BY DEF LoadsOf, Mine, Loads
<1>2. IsABag(l1_latency_queue) /\ IsABag(mem)
  BY DEF Staged
<1>3. CASE L = {}
  <2>1. Copies(l1_latency_queue, L) = 0 /\ Copies(mem, L) = 0
    BY <1>3, CopiesNone
  <2>2. m_pending_writes[w][r] = 0
    BY <1>1, <1>3 DEF Waits
  <2> HIDE DEF L
  <2> QED BY <1>3, <2>1, <2>2 DEF L, One01
<1>4. ASSUME NEW i \in L PROVE m_pending_writes[w][r] =
        (Copies(l1_latency_queue, L) + Copies(mem, L)) + One01(m_next_wb \in L) + (IF m_dispatch_reg \in L THEN accessq ELSE 0)
  <2>1. \A j \in L : j = i
    BY <1>1, <1>4 DEF NoSharing, Loads
  <2> HIDE DEF L
  <2>2. Copies(l1_latency_queue, L) = In(l1_latency_queue, i) /\ Copies(mem, L) = In(mem, i)
    BY <1>2, <1>4, <2>1, CopiesOnly
  <2>3. \A j : j \in L <=> j = i
    BY <1>4, <2>1
  <2>4. One01(m_next_wb \in L) = One01(m_next_wb = i)
    BY <2>3 DEF One01
  <2>5. m_pending_writes[w][r] = Awaited(i)
    BY <1>1, <1>4 DEF Waits
  <2> QED BY <2>2, <2>3, <2>4, <2>5 DEF Awaited, Answers
<1> QED BY <1>3, <1>4

\* A warp waits for one atomic at most, wherever it is.
LEMMA AtomicsToCome ==
    ASSUME ShaderCoreAssumption, program \in Programs, Staged, Separate, AtomicsCounted, NEW w \in Warps
    PROVE  m_n_atomic[w] = Copies(mem, MineOf(w, "atom"))
             + (IF m_dispatch_reg \in MineOf(w, "atom") /\ accessq > 0 THEN accessq
                ELSE IF Queued(w) # {} THEN Code(CHOOSE i \in Queued(w) : TRUE).n ELSE 0)
<1> DEFINE A == MineOf(w, "atom")
           Q == Queued(w)
<1>1. \A i : i \in A <=> i \in InFlight /\ Atom(i, w)
  BY DEF MineOf, Mine, Atom
<1>2. Q = {i \in oc \cap A : Code(i).n > 0}
  BY Zenon DEF Queued
<1>3. InFlight \subseteq Coded /\ None \notin Coded /\ IsABag(mem)
  <2>1. InFlight \subseteq Coded
    BY DEF InFlight, InPipeline, Answering, Staged
  <2> QED BY <2>1, StagesNone DEF NoneApart, Staged
<1> HIDE DEF A, Q
<1>4. ASSUME NEW i \in Coded
      PROVE  Due(i) \in Nat /\ In(mem, i) \in Nat /\ accessq \in Nat /\ Code(i).n \in Nat
  BY DueType, CodedTyped DEF Staged
<1>5. ASSUME NEW i \in A
      PROVE  /\ i \in Coded
             /\ i \in BagToSet(mem) \/ (i = m_dispatch_reg /\ accessq > 0) \/ (i # m_dispatch_reg /\ i \in Q) => Due(i) > 0
  <2>1. i \in Coded
    BY <1>1, <1>3
  <2>2. i \in BagToSet(mem) => In(mem, i) > 0
    BY <1>3, CountIn
  <2>3. i \in Q => i \in oc /\ Code(i).n > 0
    BY <1>2
  <2> QED BY <1>4, <2>1, <2>2, <2>3 DEF Due
<1>6. ASSUME NEW i \in Coded, Due(i) > 0 PROVE i \in InFlight
  <2>1. i \in BagToSet(mem) \/ i = m_dispatch_reg \/ i \in oc
    BY <1>6 DEF Due, In
  <2> QED BY <1>3, <2>1 DEF InFlight, InPipeline, Answering
<1>7. m_dispatch_reg \in A => m_dispatch_reg \notin oc
  BY <1>1 DEF Separate, Apart
<1>8. CASE \A i \in Coded : Atom(i, w) => Due(i) = 0
  <2>1. m_n_atomic[w] = 0
    BY <1>8 DEF AtomicsCounted, AtomsDue
  <2>2. \A i \in A : i \notin BagToSet(mem) /\ ~(i = m_dispatch_reg /\ accessq > 0) /\ (i # m_dispatch_reg => i \notin Q)
    BY <1>1, <1>4, <1>5, <1>8
  <2>3. Copies(mem, A) = 0
    BY <2>2, CopiesNone
  <2>4. m_dispatch_reg \notin Q
    BY <1>2, <1>7
  <2>5. Q = {}
    BY <1>2, <2>2, <2>4
  <2> QED BY <2>1, <2>2, <2>3, <2>5 DEF A, Q
<1>9. ASSUME NEW i \in Coded, Atom(i, w), Due(i) > 0
      PROVE  m_n_atomic[w] = Copies(mem, A) + (IF m_dispatch_reg \in A /\ accessq > 0 THEN accessq
                               ELSE IF Q # {} THEN Code(CHOOSE j \in Q : TRUE).n ELSE 0)
  <2>1. i \in A
    BY <1>1, <1>6, <1>9
  <2>2. m_n_atomic[w] = Due(i) /\ \A j \in Coded : Atom(j, w) /\ Due(j) > 0 => j = i
    BY <1>9 DEF AtomicsCounted, AtomsDue
  <2>3. \A j \in A : /\ j \in BagToSet(mem) => j = i
                     /\ j = m_dispatch_reg /\ accessq > 0 => j = i
                     /\ j # m_dispatch_reg /\ j \in Q => j = i
    BY <1>1, <1>5, <2>2
  <2>4. Copies(mem, A) = In(mem, i)
    BY <1>3, <2>1, <2>3, CopiesOnly
  <2>5. m_dispatch_reg \in A /\ accessq > 0 <=> m_dispatch_reg = i /\ accessq > 0
    BY <2>1, <2>3
  <2>6. Q = IF i \in oc /\ Code(i).n > 0 THEN {i} ELSE {}
    BY <1>2, <1>7, <2>1, <2>3
  <2>7. (CHOOSE j \in {i} : TRUE) = i
    OBVIOUS
  <2>8. accessq \in Nat /\ In(mem, i) \in Nat /\ Code(i).n \in Nat /\ (m_dispatch_reg = i => i \notin oc)
    BY <1>4, <1>7, <2>1
  <2>9. CASE m_dispatch_reg = i /\ accessq > 0
    BY <2>2, <2>4, <2>5, <2>9 DEF Due
  <2>10. CASE i \in oc /\ Code(i).n > 0
    BY <2>2, <2>4, <2>5, <2>6, <2>7, <2>8, <2>10 DEF Due
  <2>11. CASE ~(m_dispatch_reg = i /\ accessq > 0) /\ ~(i \in oc /\ Code(i).n > 0)
    BY <2>2, <2>4, <2>5, <2>6, <2>8, <2>11 DEF Due
  <2> QED BY <2>9, <2>10, <2>11
<1>10. \A i \in Coded : Due(i) = 0 \/ Due(i) > 0
  BY <1>4
<1> QED BY <1>8, <1>9, <1>10 DEF A, Q

LEMMA Accounted == ShaderCoreAssumption /\ ScoreInv /\ Accounts => InFlightAccounted
<1> SUFFICES ASSUME ShaderCoreAssumption, ScoreInv, Accounts PROVE InFlightAccounted
  OBVIOUS
<1>1. /\ program \in Programs /\ Staged /\ Separate /\ NoSharing /\ Waits /\ None \notin Coded
      /\ PipelineCounted /\ StoresCounted /\ AtomicsCounted /\ Owned /\ Homed
  BY StagesNone DEF NoneApart, ScoreInv, CoreInv, Contexts, Flight, Reserved, Accounts
<1>2. \A i \in InFlight : Code(i).out # {} \/ i # m_next_wb => cta_of[SlotOf(i.warp)] = i.cta /\ ~m_done_exit[i.warp]
  BY <1>1 DEF Owned, Homed, Working, InFlight, Answering
<1>3. ASSUME NEW w \in Warps
      PROVE  /\ m_inst_in_pipeline[w] = Len(m_ibuffer[w]) + Cardinality(Mine(w) \cap InPipeline)
             /\ m_stores_outstanding[w] = Copies(l1_latency_queue, MineOf(w, "store")) + Copies(mem, MineOf(w, "store"))
             /\ \A r \in Regs :
                  m_pending_writes[w][r] =
                    (Copies(l1_latency_queue, LoadsOf(w, r)) + Copies(mem, LoadsOf(w, r))) + One01(m_next_wb \in LoadsOf(w, r))
                    + (IF m_dispatch_reg \in LoadsOf(w, r) THEN accessq ELSE 0)
             /\ m_n_atomic[w] = Copies(mem, MineOf(w, "atom"))
                  + (IF m_dispatch_reg \in MineOf(w, "atom") /\ accessq > 0 THEN accessq
                     ELSE IF Queued(w) # {} THEN Code(CHOOSE i \in Queued(w) : TRUE).n ELSE 0)
  <2>1. Mine(w) \cap InPipeline = InPipe(w)
    BY DEF Mine, InPipe, InFlight
  <2>2. m_inst_in_pipeline[w] = Len(m_ibuffer[w]) + Cardinality(InPipe(w))
    BY <1>1 DEF PipelineCounted
  <2>3. m_stores_outstanding[w] = Copies(l1_latency_queue, MineOf(w, "store")) + Copies(mem, MineOf(w, "store"))
    BY <1>1, StoresOnTheWay
  <2>4. ASSUME NEW r \in Regs
        PROVE  m_pending_writes[w][r] =
                 (Copies(l1_latency_queue, LoadsOf(w, r)) + Copies(mem, LoadsOf(w, r))) + One01(m_next_wb \in LoadsOf(w, r))
                 + (IF m_dispatch_reg \in LoadsOf(w, r) THEN accessq ELSE 0)
    BY <1>1, RepliesToCome
  <2>5. m_n_atomic[w] = Copies(mem, MineOf(w, "atom"))
          + (IF m_dispatch_reg \in MineOf(w, "atom") /\ accessq > 0 THEN accessq
             ELSE IF Queued(w) # {} THEN Code(CHOOSE i \in Queued(w) : TRUE).n ELSE 0)
    BY <1>1, AtomicsToCome
  <2> QED BY <2>1, <2>2, <2>3, <2>4, <2>5, Zenon
<1> QED BY <1>2, <1>3, Zenon DEF InFlightAccounted, Mine, MineOf, LoadsOf, Queued

LEMMA AccountsInit ==
    ASSUME ShaderCoreAssumption, Init PROVE Accounts
<1>1. IsABag(EmptyBag) /\ BagToSet(EmptyBag) = {}
  BY DEF IsABag, EmptyBag, SetToBag, BagToSet
<1>2. /\ l1_latency_queue = EmptyBag /\ mem = EmptyBag /\ m_dispatch_reg = None /\ smem = None /\ m_next_wb = None
      /\ alu = {} /\ oc = {} /\ accessq = 0
      /\ m_ibuffer = [w \in Warps |-> <<>>] /\ m_inst_in_pipeline = [w \in Warps |-> 0]
      /\ m_stores_outstanding = [w \in Warps |-> 0] /\ m_n_atomic = [w \in Warps |-> 0]
  BY DEF Init
<1>3. InFlight = {} /\ InPipeline = {} /\ Working = {}
  BY <1>1, <1>2 DEF InFlight, InPipeline, Answering, Working
<1>4. PipelineCounted
  <2>1. \A w : InPipe(w) = {}
    BY <1>3 DEF InPipe
  <2>2. Cardinality({}) = 0
    BY FS_EmptySet
  <2>3. ASSUME NEW w \in Warps PROVE m_inst_in_pipeline[w] = Len(m_ibuffer[w]) + Cardinality(InPipe(w))
    <3>1. m_inst_in_pipeline[w] = 0 /\ m_ibuffer[w] = <<>> /\ Len(<<>>) = 0 /\ Cardinality(InPipe(w)) = 0
      BY <1>2, <2>1, <2>2
    <3> QED BY <3>1
  <2>4. m_inst_in_pipeline \in [Warps -> Nat]
    BY <1>2
  <2> QED BY <2>3, <2>4, Zenon DEF PipelineCounted
<1>5. StoresCounted
  <2>1. \A w : Sent(w) = 0 + 0
    BY <1>1, <1>2, CopiesNone DEF Sent
  <2> QED BY <1>2, <2>1 DEF StoresCounted
<1>6. AtomicsCounted
  <2>1. program \in Programs
    BY DEF Init
  <2>2. \A i \in Coded : Due(i) = 0
    <3>1. \A i \in Coded : i # None
      BY <2>1, StagesNone DEF NoneApart
    <3> QED BY <1>1, <1>2, <3>1 DEF Due, In
  <2> QED BY <1>1, <1>2, <2>2 DEF AtomicsCounted, AtomsRouted, AtomsDue
<1> QED BY <1>3, <1>4, <1>5, <1>6 DEF Accounts, Owned, Homed

LEMMA AccountsInductive == Spec => []Accounts
<1>1. Init => Accounts
  BY ShaderCoreAssumption, AccountsInit
<1>2. ScoreInv /\ Accounts /\ [Next]_vars => Accounts'
  <2> SUFFICES ASSUME ScoreInv, Accounts, [Next]_vars PROVE Accounts'
    OBVIOUS
  <2>1. PipelineCounted' /\ StoresCounted' /\ AtomicsCounted'
    BY ShaderCoreAssumption, PipelineStep, StoresStep, AtomicsStep DEF Accounts
  <2>2. Owned' /\ Homed'
    BY ShaderCoreAssumption, OwnedStep, HomedStep DEF Accounts, ScoreInv
  <2> QED BY <2>1, <2>2 DEF Accounts
<1> QED BY <1>1, <1>2, ScoreInductive, PTL DEF Spec

\* Each of shd_warp_t's counters is the number of what it counts: instructions in
\* the buffer and the pipelines, accesses of stores and of atomics on their way,
\* replies a register waits for.  So none of the assertions on them fails when
\* they are counted down or a warp is reset for the next CTA, and a warp exits
\* after everything it has in flight but a last write-back without registers
\* (shader.h:100-101, 200-227, shader.cc:1945-1960, 2700-2722, 3771).
THEOREM CountersExact == Spec => []InFlightAccounted
<1>1. ScoreInv /\ Accounts => InFlightAccounted
  BY ShaderCoreAssumption, Accounted
<1> QED BY <1>1, ScoreInductive, AccountsInductive, PTL

-----------------------------------------------------------------------------
(* Types.                                                                   *)

\* What the other invariants say nothing of.
Flags ==
    /\ m_membar \in [Warps -> BOOLEAN]
    /\ m_warp_active \subseteq Warps /\ m_warp_at_barrier \subseteq Warps
    /\ m_bar_id_to_warps \in [Barriers -> SUBSET Warps]
    /\ arrivals \in [Warps -> [Barriers -> Nat]]

LEMMA FlagsReached ==
    ASSUME Flags, NEW w \in Warps, NEW inst, WarpReachesBarrier(w, inst)
    PROVE  (m_membar' \in [Warps -> BOOLEAN]) => Flags'
<1>1. PICK at \in SUBSET Warps :
        /\ m_bar_id_to_warps' = [m_bar_id_to_warps EXCEPT ![inst.id] = m_bar_id_to_warps[inst.id] \ at]
           \/ m_bar_id_to_warps' = [m_bar_id_to_warps EXCEPT ![inst.id] = m_bar_id_to_warps[inst.id] \cup {w}]
        /\ m_warp_at_barrier' \subseteq m_warp_at_barrier \cup {w}
        /\ m_warp_active' = m_warp_active
  <2> DEFINE at == (m_bar_id_to_warps[inst.id] \cup {w}) \cap WarpsOf(SlotOf(w))
  <2>1. at \subseteq Warps
    BY DEF WarpsOf
  <2>2. /\ m_bar_id_to_warps' = [m_bar_id_to_warps EXCEPT ![inst.id] = m_bar_id_to_warps[inst.id] \ at]
           \/ m_bar_id_to_warps' = [m_bar_id_to_warps EXCEPT ![inst.id] = m_bar_id_to_warps[inst.id] \cup {w}]
        /\ m_warp_at_barrier' \subseteq m_warp_at_barrier \cup {w}
        /\ m_warp_active' = m_warp_active
    BY DEF WarpReachesBarrier
  <2> HIDE DEF at
  <2> QED BY <2>1, <2>2
<1>2. m_bar_id_to_warps' \in [Barriers -> SUBSET Warps]
  BY <1>1 DEF Flags
<1>3. arrivals' \in [Warps -> [Barriers -> Nat]]
  <2>1. arrivals' = [arrivals EXCEPT ![w] = [arrivals[w] EXCEPT ![inst.id] = arrivals[w][inst.id] + 1]]
    BY DEF WarpReachesBarrier
  <2>2. arrivals[w] \in [Barriers -> Nat]
    BY DEF Flags
  <2>3. PICK came, id : came = arrivals[w] /\ id = inst.id
    OBVIOUS
  <2>4. [came EXCEPT ![id] = came[id] + 1] = [b \in Barriers |-> IF b = id THEN came[b] + 1 ELSE came[b]]
    BY <2>2, <2>3
  <2>5. \A b \in Barriers : came[b] \in Nat /\ came[b] + 1 \in Nat
    BY <2>2, <2>3
  <2>6. [came EXCEPT ![id] = came[id] + 1] \in [Barriers -> Nat]
    BY <2>4, <2>5
  <2> QED BY <2>1, <2>3, <2>6 DEF Flags
<1> QED BY <1>1, <1>2, <1>3 DEF Flags

LEMMA FlagsStep ==
    ASSUME ShaderCoreAssumption, CoreInv, Flags, [Next]_vars
    PROVE  Flags'
<1>0. Contexts /\ Fetching
  BY DEF CoreInv
<1>1. CASE UNCHANGED <<m_membar, barrier>>
  BY <1>1 DEF Flags, barrier
<1>2. CASE IssueBlock2Core
  <2>1. PICK s \in 0..(Slots - 1) :
          /\ m_membar' = [w \in Warps |-> IF w \in WarpsOf(s) THEN FALSE ELSE m_membar[w]]
          /\ m_warp_active' = m_warp_active \cup WarpsOf(s)
          /\ m_warp_at_barrier' = m_warp_at_barrier \ WarpsOf(s)
          /\ m_bar_id_to_warps' = [b \in Barriers |-> m_bar_id_to_warps[b] \ WarpsOf(s)]
          /\ arrivals' = [w \in Warps |-> IF w \in WarpsOf(s) THEN [b \in Barriers |-> 0] ELSE arrivals[w]]
    BY <1>2, Zenon DEF IssueBlock2Core
  <2>2. WarpsOf(s) \subseteq Warps
    BY DEF WarpsOf
  <2> QED BY <2>1, <2>2 DEF Flags
<1>3. CASE Fetch
  <2>1. UNCHANGED <<m_membar, arrivals>>
    BY <1>0, <1>3, FetchCases DEF warp
  <2>2. PICK exits, gone \in SUBSET Warps : Leaves(exits, gone)
    BY <1>0, <1>3, FetchCases
  <2> QED BY <2>1, <2>2 DEF Leaves, Flags
<1>4. ASSUME NEW w \in Warps, IssueWarp(w) PROVE Flags'
  <2>1. PICK inst : /\ m_membar' = [m_membar EXCEPT ![w] = m_membar[w] \/ inst.op = "membar"]
                    /\ WarpReachesBarrier(w, inst) \/ WarpExit(w) \/ UNCHANGED barrier
    BY <1>4, Zenon DEF IssueWarp
  <2>2. m_membar' \in [Warps -> BOOLEAN]
    BY <2>1 DEF Flags
  <2>3. CASE WarpReachesBarrier(w, inst)
    BY <2>2, <2>3, FlagsReached
  <2>4. CASE WarpExit(w)
    <3>1. /\ m_warp_active' = m_warp_active \ {w} /\ m_warp_at_barrier' \subseteq m_warp_at_barrier
          /\ arrivals' = arrivals /\ m_bar_id_to_warps' = [b \in Barriers |-> m_bar_id_to_warps'[b]]
          /\ \A b \in Barriers : m_bar_id_to_warps'[b] \subseteq m_bar_id_to_warps[b]
      BY <2>4 DEF WarpExit
    <3> QED BY <2>2, <3>1 DEF Flags
  <2>5. CASE UNCHANGED barrier
    BY <2>2, <2>5 DEF Flags, barrier
  <2> QED BY <2>1, <2>3, <2>4, <2>5
<1>5. CASE \E w \in Warps : MembarDone(w)
  <2>1. PICK w \in Warps : m_membar' = [m_membar EXCEPT ![w] = FALSE] /\ UNCHANGED barrier
    BY <1>5, Zenon DEF MembarDone
  <2> QED BY <2>1 DEF Flags, barrier
<1>6. CASE FetchReply \/ Decode \/ UNCHANGED vars \/ \E w \in Warps : ControlHazard(w)
  BY <1>1, <1>6, Zenon DEF FetchReply, Decode, ControlHazard, vars, warp
<1>7. CASE Backend
  <2>1. UNCHANGED <<m_membar, barrier>>
    BY <1>7, BackendFrame DEF warp
  <2> QED BY <1>1, <2>1
<1> QED BY <1>2, <1>3, <1>4, <1>5, <1>6, <1>7, Zenon DEF Next, Backend

LEMMA Typed ==
    ASSUME ShaderCoreAssumption, ScoreInv, Accounts, Flags
    PROVE  TypeOK
<1>1. /\ Contexts /\ Fetching /\ Fetched /\ Staged /\ Waits /\ Reserved /\ Flags
      /\ PipelineCounted /\ StoresCounted /\ AtomsDue
  BY DEF ScoreInv, CoreInv, Flight, Accounts, AtomicsCounted
<1>2. m_cta_status \in [SlotIds -> 0..NWarps]
  <2>1. IsFiniteSet(Warps) /\ Cardinality(Warps) = NWarps /\ NWarps \in Nat
    BY WarpsFinite DEF ShaderCoreAssumption
  <2>2. ASSUME NEW s \in SlotIds PROVE m_cta_status[s] \in 0..NWarps
    <3>1. Alive(s) \subseteq Warps
      BY DEF Alive, WarpsOf
    <3>2. Cardinality(Alive(s)) <= Cardinality(Warps)
      BY <2>1, <3>1, FS_Subset
    <3>3. m_cta_status[s] = Cardinality(Alive(s)) /\ m_cta_status[s] \in Nat
      BY <1>1 DEF Contexts
    <3> QED BY <2>1, <3>2, <3>3
  <2> QED BY <1>1, <2>2 DEF Contexts
<1>3. /\ program \in Programs /\ issued_cta \in 0..Len(program) /\ cta_of \in [SlotIds -> 0..Len(program)]
      /\ functional_done \in [Warps -> BOOLEAN] /\ m_done_exit \in [Warps -> BOOLEAN]
  BY <1>1 DEF Contexts
<1>4. /\ pc \in [Warps -> Nat] /\ m_next_pc \in [Warps -> Nat] /\ m_ibuffer \in [Warps -> Seq(Nat)]
      /\ m_imiss_pending \in [Warps -> BOOLEAN] /\ m_inst_fetch_buffer \in [warp : Warps, pc : Nat] \cup {None}
      /\ m_last_warp_fetched \in Warps /\ l1i \subseteq [warp : Warps, pc : Nat]
  BY <1>1 DEF Fetching, Fetched
<1>5. /\ m_inst_in_pipeline \in [Warps -> Nat] /\ m_stores_outstanding \in [Warps -> Nat]
      /\ m_n_atomic \in [Warps -> Nat]
      /\ reg_table \in [Warps -> SUBSET Regs] /\ m_pending_writes \in [Warps -> [Regs -> Nat]]
  BY <1>1 DEF PipelineCounted, StoresCounted, AtomsDue, Reserved, Waits
<1>6. /\ alu \subseteq Instances /\ oc \subseteq Instances
      /\ m_dispatch_reg \in Instances \cup {None} /\ accessq \in Nat
      /\ smem \in Instances \cup {None} /\ m_next_wb \in Instances \cup {None}
      /\ IsABag(l1_latency_queue) /\ BagToSet(l1_latency_queue) \subseteq Instances
      /\ IsABag(mem) /\ BagToSet(mem) \subseteq Instances
  <2>1. Coded \subseteq Instances
    BY DEF Coded
  <2> QED BY <1>1, <2>1 DEF Staged
<1> QED BY <1>1, <1>2, <1>3, <1>4, <1>5, <1>6, Zenon DEF TypeOK, Flags

\* Every variable of a core stays in its domain: no counter of a warp, a context
\* or a register falls below zero where the code counts down, and what is fetched,
\* queued or in flight names a warp and an instruction that exist.
THEOREM TypeCorrect == Spec => []TypeOK
<1>1. Init => Flags
  BY DEF Init, Flags
<1>2. ScoreInv /\ Flags /\ [Next]_vars => Flags'
  BY ShaderCoreAssumption, FlagsStep DEF ScoreInv
<1>3. ScoreInv /\ Accounts /\ Flags => TypeOK
  BY ShaderCoreAssumption, Typed
<1> QED BY <1>1, <1>2, <1>3, ScoreInductive, AccountsInductive, PTL DEF Spec
=============================================================================
