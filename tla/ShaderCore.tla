----------------------------- MODULE ShaderCore -----------------------------
(***************************************************************************)
(* One SIMT core (shader_core_ctx, src/gpgpu-sim/shader.cc): CTAs put in    *)
(* hardware contexts, warps that fetch, decode and issue, the scoreboard    *)
(* (scoreboard.cc), CTA barriers and memory barriers, the ALU pipelines,    *)
(* the load/store unit with its L1 latency queue, and the exit of warps     *)
(* and CTAs.  L1I, L1D, the network and the memory below are external: they *)
(* answer each access, once, in any order.                                  *)
(*                                                                         *)
(* shader_core_ctx::cycle() runs write-back, execution, issue, decode and   *)
(* fetch in this order.  Each stage may find nothing ready in a cycle (a    *)
(* latency, a port, a bank), so the model takes one action per instruction  *)
(* or access a stage handles, in any order.  A warp's threads execute       *)
(* together; branches are uniform.                                          *)
(***************************************************************************)
EXTENDS Integers, Sequences, FiniteSets, Bags

CONSTANTS
    NWarps,       \* hardware warps of the core (n_thread_per_shader / warp_size)
    Programs,     \* kernels: sequences of CTAs, which are sequences of warps' code
    Regs,
    Barriers,     \* barrier ids of a CTA
    AluWidth,     \* instructions between issue and write-back in the ALU pipelines
    MemWidth,     \* instructions between issue and the load/store unit
    None

Warps   == 0..(NWarps - 1)
SlotIds == Warps

Ops == {"alu", "bra", "bar", "arrive", "exit", "load", "store", "atom", "shared", "membar"}
MemOps == {"load", "store", "atom", "shared", "membar"}
\* The way of an access: around the L1, to it through its latency queue
\* (l1_latency > 0), or to it at once.
Routes == {"bypass", "queue", "L1"}
\* n is the number of accesses of a memory instruction, the number of warps a
\* barrier counts (0 for all of the CTA), and the target of a branch.
Instructions == [op : Ops, out : SUBSET Regs, in : SUBSET Regs, n : Nat, route : Routes, id : Barriers]

ASSUME ShaderCoreAssumption ==
    /\ NWarps \in Nat \ {0}
    /\ AluWidth \in Nat \ {0} /\ MemWidth \in Nat \ {0}
    /\ Programs \subseteq Seq(Seq(Seq(Instructions)))
    /\ \A p \in Programs :
        /\ p # <<>> /\ \A c \in 1..Len(p) : Len(p[c]) = Len(p[1]) /\ Len(p[c]) \in 1..NWarps
        \* Code starts at 1; stores and memory barriers write no register, loads do;
        \* atomics, which are .cg (cuda-sim.cc:1122), go around the L1.
        /\ \A c \in 1..Len(p), k \in 1..Len(p[1]) : \A j \in 1..Len(p[c][k]) :
              LET inst == p[c][k][j]
              IN  /\ inst.op = "bra" => inst.n > 0
                  /\ inst.op \in {"store", "membar"} => inst.out = {}
                  /\ inst.op = "load" => inst.out # {}
                  /\ inst.op = "atom" => inst.route = "bypass"
    /\ None \notin [warp : Nat, pc : Nat] \cup [cta : Nat, warp : Nat, pc : Nat, uid : Nat]

VARIABLES
    program,          \* the kernel's code, chosen at the start
    issued_cta,       \* CTAs issued to the core so far
    cta_of,           \* the CTA in each context, 0 for none
    m_cta_status,     \* warps of the CTA in a context that have not exited
    pc,               \* top of each warp's SIMT stack
    functional_done,  \* all threads of the warp have executed exit
    m_done_exit,      \* the exit of the warp is registered
    m_next_pc,        \* where the warp fetches next
    m_ibuffer,        \* valid entries of the instruction buffer (0: a NULL one)
    m_imiss_pending,
    m_inst_in_pipeline,
    m_stores_outstanding,
    m_n_atomic,
    m_membar,
    m_inst_fetch_buffer,
    m_last_warp_fetched,
    l1i,              \* instruction misses outstanding
    m_warp_active,
    m_warp_at_barrier,
    m_bar_id_to_warps,
    reg_table,        \* the scoreboard
    m_pending_writes, \* replies each register of each warp waits for
    alu,              \* instructions in the ALU pipelines
    oc,               \* memory instructions on the way to the load/store unit
    m_dispatch_reg, accessq,  \* the one it works on, and its accesses left
    smem,             \* the shared-memory pipeline
    l1_latency_queue, \* accesses on the way to the L1
    mem,              \* accesses the L1 or the memory below has to answer
    m_next_wb,        \* the reply being written back
    arrivals          \* history: arrivals of each warp at each barrier

ctas     == <<program, issued_cta, cta_of, m_cta_status>>
warp     == <<pc, functional_done, m_next_pc, m_membar>>
frontend == <<m_ibuffer, m_imiss_pending, m_inst_fetch_buffer, l1i>>
barrier  == <<m_warp_active, m_warp_at_barrier, m_bar_id_to_warps, arrivals>>
ldst     == <<oc, m_dispatch_reg, accessq, smem, l1_latency_queue, mem, m_next_wb, m_pending_writes>>
vars     == <<ctas, warp, frontend, barrier, ldst, m_done_exit, m_inst_in_pipeline, m_stores_outstanding,
              m_n_atomic, m_last_warp_fetched, reg_table, alu>>

Ctas == 1..Len(program)

\* A CTA context is a range of hardware warps, as wide as the kernel's CTAs.
WarpsPerCta == Len(program[1])
Slots       == NWarps \div WarpsPerCta
SlotOf(w)   == w \div WarpsPerCta
WarpsOf(s)  == {w \in Warps : SlotOf(w) = s}

\* The code of the warp, and the instruction an instance in flight executes.
Text(w) == program[cta_of[SlotOf(w)]][(w % WarpsPerCta) + 1]
Code(i) == program[i.cta][(i.warp % WarpsPerCta) + 1][i.pc]
IsLoad(i) == Code(i).op \in {"load", "atom"}

\* Instructions in the pipelines, and those with a reply outstanding.
InPipeline == alu \cup oc \cup ({m_dispatch_reg, smem} \ {None})
Answering  == BagToSet(l1_latency_queue) \cup BagToSet(mem) \cup ({m_next_wb} \ {None})
InFlight   == InPipeline \cup Answering

Init ==
    /\ program \in Programs
    /\ issued_cta = 0 /\ cta_of = [s \in SlotIds |-> 0] /\ m_cta_status = [s \in SlotIds |-> 0]
    /\ pc = [w \in Warps |-> 0] /\ functional_done = [w \in Warps |-> TRUE]
    /\ m_done_exit = [w \in Warps |-> TRUE] /\ m_next_pc = [w \in Warps |-> 0]
    /\ m_ibuffer = [w \in Warps |-> <<>>] /\ m_imiss_pending = [w \in Warps |-> FALSE]
    /\ m_inst_in_pipeline = [w \in Warps |-> 0] /\ m_stores_outstanding = [w \in Warps |-> 0]
    /\ m_n_atomic = [w \in Warps |-> 0] /\ m_membar = [w \in Warps |-> FALSE]
    /\ m_inst_fetch_buffer = None /\ m_last_warp_fetched = 0 /\ l1i = {}
    /\ m_warp_active = {} /\ m_warp_at_barrier = {} /\ m_bar_id_to_warps = [b \in Barriers |-> {}]
    /\ reg_table = [w \in Warps |-> {}] /\ m_pending_writes = [w \in Warps |-> [r \in Regs |-> 0]]
    /\ alu = {} /\ oc = {} /\ m_dispatch_reg = None /\ accessq = 0 /\ smem = None
    /\ l1_latency_queue = EmptyBag /\ mem = EmptyBag /\ m_next_wb = None
    /\ arrivals = [w \in Warps |-> [b \in Barriers |-> 0]]
-----------------------------------------------------------------------------
(* CTAs.                                                                    *)

\* issue_block2core: the next CTA goes to the first free context.  reinit
\* resets its warps, whose asserts InFlightAccounted covers.
IssueBlock2Core ==
    /\ issued_cta < Len(program)
    /\ \E s \in 0..(Slots - 1) :
        /\ cta_of[s] = 0 /\ \A t \in 0..(Slots - 1) : cta_of[t] = 0 => s <= t
        /\ LET mine == WarpsOf(s)
               Reset(f, v) == [w \in Warps |-> IF w \in mine THEN v ELSE f[w]]
           IN  /\ cta_of' = [cta_of EXCEPT ![s] = issued_cta + 1]
               /\ m_cta_status' = [m_cta_status EXCEPT ![s] = WarpsPerCta]
               /\ pc' = Reset(pc, 1) /\ m_next_pc' = Reset(m_next_pc, 1)
               /\ functional_done' = Reset(functional_done, FALSE)
               /\ m_done_exit' = Reset(m_done_exit, FALSE)
               /\ m_imiss_pending' = Reset(m_imiss_pending, FALSE)
               /\ m_n_atomic' = Reset(m_n_atomic, 0)
               /\ m_membar' = Reset(m_membar, FALSE)
               /\ m_warp_active' = m_warp_active \cup mine
               /\ m_warp_at_barrier' = m_warp_at_barrier \ mine
               /\ m_bar_id_to_warps' = [b \in Barriers |-> m_bar_id_to_warps[b] \ mine]
               /\ arrivals' = Reset(arrivals, [b \in Barriers |-> 0])
    /\ issued_cta' = issued_cta + 1
    /\ UNCHANGED <<program, m_ibuffer, m_inst_fetch_buffer, l1i, ldst, m_inst_in_pipeline, m_stores_outstanding,
                   m_last_warp_fetched, reg_table, alu>>

\* A variant that reclaims a warp whose loads are still outstanding.
ReclaimableEarly(w) == functional_done[w] /\ m_stores_outstanding[w] = 0 /\ m_inst_in_pipeline[w] = 0 /\ ~m_done_exit[w]
\* A variant that fetches again for a warp that waits for a miss.
CanFetchAgain(w) == ~functional_done[w] /\ m_ibuffer[w] = <<>>

HardwareDone(w) == functional_done[w] /\ m_stores_outstanding[w] = 0 /\ m_inst_in_pipeline[w] = 0
Reclaimable(w)  == HardwareDone(w) /\ reg_table[w] = {} /\ ~m_done_exit[w]
CanFetch(w)     == ~functional_done[w] /\ ~m_imiss_pending[w] /\ m_ibuffer[w] = <<>>

\* The exits of a set of warps registered: a CTA whose last warp exits gives
\* its context and its barriers back.
RegisterExits(exits) ==
    LET left(s) == m_cta_status[s] - Cardinality(exits \cap WarpsOf(s))
        over    == {s \in SlotIds : m_cta_status[s] > 0 /\ left(s) = 0}
        gone    == UNION {WarpsOf(s) : s \in over}
    IN  /\ m_cta_status' = [s \in SlotIds |-> left(s)]
        /\ cta_of' = [s \in SlotIds |-> IF s \in over THEN 0 ELSE cta_of[s]]
        /\ m_done_exit' = [w \in Warps |-> m_done_exit[w] \/ w \in exits]
        /\ m_warp_active' = m_warp_active \ gone
        /\ m_warp_at_barrier' = m_warp_at_barrier \ gone
        /\ m_bar_id_to_warps' = [b \in Barriers |-> m_bar_id_to_warps[b] \ gone]
-----------------------------------------------------------------------------
(* Fetch and decode.                                                        *)

FetchBuffer(w, at) == [warp |-> w, pc |-> at]

\* The reply to an instruction miss.
FetchReply ==
    /\ m_inst_fetch_buffer = None
    /\ \E r \in l1i :
        /\ l1i' = l1i \ {r}
        /\ m_imiss_pending' = [m_imiss_pending EXCEPT ![r.warp] = FALSE]
        /\ m_inst_fetch_buffer' = FetchBuffer(r.warp, m_next_pc[r.warp])
    /\ UNCHANGED <<ctas, warp, barrier, ldst, m_ibuffer, m_done_exit, m_inst_in_pipeline, m_stores_outstanding,
                   m_n_atomic, m_last_warp_fetched, reg_table, alu>>

\* The scan over warps from the one after m_last_warp_fetched: warps that have
\* finished are reclaimed on the way to the first that can fetch.
Turn(k) == (m_last_warp_fetched + k) % Cardinality(Warps)
Fetches(k)  == CanFetch(Turn(k)) /\ \A j \in 1..(k - 1) : ~CanFetch(Turn(j))
Scanned ==
    LET turns == 1..Cardinality(Warps)
    IN  {Turn(k) : k \in {j \in turns : \A f \in 1..(j - 1) : ~CanFetch(Turn(f))}}

Fetch ==
    /\ m_inst_fetch_buffer = None
    /\ LET exits == {w \in Scanned : Reclaimable(w)}
       IN  /\ RegisterExits(exits)
           /\ \/ /\ exits # {} /\ \A w \in Warps : ~CanFetch(w)
                 /\ UNCHANGED <<m_last_warp_fetched, m_imiss_pending, m_inst_fetch_buffer, l1i>>
              \/ \E k \in 1..Cardinality(Warps) :
                 /\ Fetches(k)
                 /\ LET w == Turn(k)
                    IN  /\ m_last_warp_fetched' = w
                        /\ \/ /\ l1i' = l1i \cup {FetchBuffer(w, m_next_pc[w])}
                              /\ m_imiss_pending' = [m_imiss_pending EXCEPT ![w] = TRUE]
                              /\ UNCHANGED m_inst_fetch_buffer
                           \/ /\ m_inst_fetch_buffer' = FetchBuffer(w, m_next_pc[w])
                              /\ UNCHANGED <<l1i, m_imiss_pending>>
                           \/ UNCHANGED <<l1i, m_imiss_pending, m_inst_fetch_buffer>>
    /\ UNCHANGED <<program, issued_cta, warp, m_ibuffer, ldst, m_inst_in_pipeline, m_stores_outstanding,
                   m_n_atomic, reg_table, alu, arrivals>>

\* One or two instructions into the warp's buffer; past the end a NULL one.
Decode ==
    /\ m_inst_fetch_buffer # None
    /\ LET w    == m_inst_fetch_buffer.warp
           at   == m_inst_fetch_buffer.pc
           len  == Len(Text(w))
           fill == IF at > len THEN <<0>> ELSE IF at = len THEN <<at>> ELSE <<at, at + 1>>
       IN  /\ m_ibuffer' = [m_ibuffer EXCEPT ![w] = fill]
           /\ m_inst_in_pipeline' = [m_inst_in_pipeline EXCEPT ![w] = @ + Len(fill)]
    /\ m_inst_fetch_buffer' = None
    /\ UNCHANGED <<ctas, warp, barrier, ldst, m_imiss_pending, l1i, m_done_exit, m_stores_outstanding,
                   m_n_atomic, m_last_warp_fetched, reg_table, alu>>
-----------------------------------------------------------------------------
(* Barriers.                                                                *)

WarpReachesBarrier(w, inst) ==
    LET mates   == WarpsOf(SlotOf(w))
        at      == (m_bar_id_to_warps[inst.id] \cup {w}) \cap mates
        waiting == IF inst.op = "bar" THEN m_warp_at_barrier \cup {w} ELSE m_warp_at_barrier
        release == IF inst.n = 0 THEN at = mates \cap m_warp_active ELSE Cardinality(at) = inst.n
    IN  /\ m_bar_id_to_warps' = [m_bar_id_to_warps EXCEPT ![inst.id] = IF release THEN @ \ at ELSE @ \cup {w}]
        /\ m_warp_at_barrier' = IF release THEN waiting \ at ELSE waiting
        /\ arrivals' = [arrivals EXCEPT ![w][inst.id] = @ + 1]
        /\ UNCHANGED m_warp_active

\* A variant that releases the barriers whatever the others do.
WarpExitReleases(w) ==
    /\ m_warp_active' = m_warp_active \ {w}
    /\ m_warp_at_barrier' = m_warp_at_barrier \ WarpsOf(SlotOf(w))
    /\ m_bar_id_to_warps' = [b \in Barriers |-> m_bar_id_to_warps[b] \ WarpsOf(SlotOf(w))]
    /\ UNCHANGED arrivals

\* A variant that does not test the barriers.
WarpExitForgets(w) ==
    m_warp_active' = m_warp_active \ {w} /\ UNCHANGED <<m_bar_id_to_warps, m_warp_at_barrier, arrivals>>

\* A warp that exits releases each barrier all other active warps are at.
WarpExit(w) ==
    LET mates    == WarpsOf(SlotOf(w))
        active   == mates \cap (m_warp_active \ {w})
        At(b)    == mates \cap m_bar_id_to_warps[b]
        released == {b \in Barriers : At(b) = active}
    IN  /\ m_warp_active' = m_warp_active \ {w}
        /\ m_bar_id_to_warps' = [b \in Barriers |-> IF b \in released THEN m_bar_id_to_warps[b] \ mates
                                                    ELSE m_bar_id_to_warps[b]]
        /\ m_warp_at_barrier' = m_warp_at_barrier \ UNION {At(b) : b \in released}
        /\ UNCHANGED arrivals
-----------------------------------------------------------------------------
(* Issue: an iteration of scheduler_unit::cycle() for a warp.               *)

\* warp_waiting_at_mem_barrier clears the flag when nothing is reserved.
MembarDone(w) ==
    /\ m_membar[w] /\ reg_table[w] = {}
    /\ ~m_done_exit[w] /\ ~functional_done[w] /\ w \notin m_warp_at_barrier
    /\ m_membar' = [m_membar EXCEPT ![w] = FALSE]
    /\ UNCHANGED <<ctas, pc, functional_done, m_next_pc, frontend, barrier, ldst, m_done_exit, m_inst_in_pipeline,
                   m_stores_outstanding, m_n_atomic, m_last_warp_fetched, reg_table, alu>>

Waiting(w) ==
    functional_done[w] \/ w \in m_warp_at_barrier \/ m_membar[w] \/ m_n_atomic[w] > 0

\* The instruction at the head of the buffer, of a warp that may issue.
CanTest(w) == ~m_done_exit[w] /\ ~Waiting(w) /\ m_ibuffer[w] # <<>>

\* A NULL instruction, or one that is not the warp's next: fetch again.
ControlHazard(w) ==
    /\ CanTest(w) /\ Head(m_ibuffer[w]) # pc[w]
    /\ m_next_pc' = [m_next_pc EXCEPT ![w] = pc[w]]
    /\ m_ibuffer' = [m_ibuffer EXCEPT ![w] = <<>>]
    /\ m_inst_in_pipeline' = [m_inst_in_pipeline EXCEPT ![w] = @ - Len(m_ibuffer[w])]
    /\ UNCHANGED <<ctas, pc, functional_done, m_membar, m_imiss_pending, m_inst_fetch_buffer, l1i, barrier, ldst,
                   m_done_exit, m_stores_outstanding, m_n_atomic, m_last_warp_fetched, reg_table, alu>>

CheckCollision(w, inst) == (inst.out \cup inst.in) \cap reg_table[w] # {}

\* What warp w issues: m_uid tells it from all that is in flight.
Instance(w) ==
    LET at(uid) == [cta |-> cta_of[SlotOf(w)], warp |-> w, pc |-> pc[w], uid |-> uid]
    IN  at(CHOOSE uid \in 0..Cardinality(InFlight) : at(uid) \notin InFlight)

\* issue_warp: functional execution (which counts atomics and ends the warp),
\* barriers, SIMT stack, scoreboard, next pc.
IssueWarp(w) ==
    LET inst == Text(w)[pc[w]]
        i    == Instance(w)
        exit == inst.op = "exit"
    IN  /\ CanTest(w) /\ Head(m_ibuffer[w]) = pc[w]
        /\ ~CheckCollision(w, inst)
        /\ \/ inst.op \in MemOps /\ Cardinality(oc) < MemWidth /\ oc' = oc \cup {i} /\ UNCHANGED alu
           \/ inst.op \notin MemOps /\ Cardinality(alu) < AluWidth /\ alu' = alu \cup {i} /\ UNCHANGED oc
        /\ m_ibuffer' = [m_ibuffer EXCEPT ![w] = IF exit THEN <<>> ELSE Tail(@)]
        /\ m_inst_in_pipeline' = IF exit THEN [m_inst_in_pipeline EXCEPT ![w] = @ - (Len(m_ibuffer[w]) - 1)]
                                 ELSE m_inst_in_pipeline
        /\ functional_done' = [functional_done EXCEPT ![w] = exit]
        /\ m_n_atomic' = [m_n_atomic EXCEPT ![w] = IF inst.op = "atom" THEN @ + inst.n ELSE @]
        /\ CASE inst.op \in {"bar", "arrive"} -> WarpReachesBarrier(w, inst)
             [] exit                          -> WarpExit(w)
             [] OTHER                         -> UNCHANGED barrier
        /\ m_membar' = [m_membar EXCEPT ![w] = @ \/ inst.op = "membar"]
        /\ pc' = [pc EXCEPT ![w] = IF inst.op = "bra" THEN inst.n ELSE @ + 1]
        /\ reg_table' = [reg_table EXCEPT ![w] = @ \cup inst.out]
        /\ m_next_pc' = [m_next_pc EXCEPT ![w] = pc[w] + 1]
        /\ UNCHANGED <<ctas, m_imiss_pending, m_inst_fetch_buffer, l1i, m_dispatch_reg, accessq, smem,
                       l1_latency_queue, mem, m_next_wb, m_pending_writes, m_done_exit, m_stores_outstanding,
                       m_last_warp_fetched>>
-----------------------------------------------------------------------------
(* Execution and write-back.                                                *)

ReleaseRegisters(w, regs) == reg_table' = [reg_table EXCEPT ![w] = @ \ regs]
DecInstInPipeline(w) == m_inst_in_pipeline' = [m_inst_in_pipeline EXCEPT ![w] = @ - 1]
Pending(i, n) ==
    [m_pending_writes EXCEPT ![i.warp] =
        [r \in Regs |-> IF r \in Code(i).out THEN @[r] + n ELSE @[r]]]

\* shader_core_ctx::writeback of an instruction the ALU pipelines are done with.
Writeback ==
    \E i \in alu :
        /\ alu' = alu \ {i}
        /\ ReleaseRegisters(i.warp, Code(i).out)
        /\ DecInstInPipeline(i.warp)
        /\ UNCHANGED <<ctas, warp, frontend, barrier, ldst, m_done_exit, m_stores_outstanding, m_n_atomic,
                       m_last_warp_fetched>>

\* ldst_unit::issue counts the replies a load's registers wait for.
LdstIssue ==
    /\ m_dispatch_reg = None
    /\ \E i \in oc :
        /\ oc' = oc \ {i} /\ m_dispatch_reg' = i
        /\ accessq' = IF Code(i).op \in {"load", "store", "atom"} THEN Code(i).n ELSE 0
        /\ m_pending_writes' = IF IsLoad(i) THEN Pending(i, Code(i).n) ELSE m_pending_writes
    /\ UNCHANGED <<ctas, warp, frontend, barrier, smem, l1_latency_queue, mem, m_next_wb, m_done_exit,
                   m_inst_in_pipeline, m_stores_outstanding, m_n_atomic, m_last_warp_fetched, reg_table, alu>>

One(i) == SetToBag({i})
IncStoreReq(i) == m_stores_outstanding' =
    [m_stores_outstanding EXCEPT ![i.warp] = IF Code(i).op = "store" THEN @ + 1 ELSE @]

\* The end of ldst_unit::cycle for an instruction without accesses left: pend
\* is what m_pending_writes is by then.
Dispatched(i, pend) ==
    /\ m_dispatch_reg' = None
    /\ IF Code(i).op = "shared"
       THEN smem' = i /\ UNCHANGED <<reg_table, m_inst_in_pipeline>>
       ELSE /\ DecInstInPipeline(i.warp)
            /\ IF IsLoad(i) /\ \A r \in Code(i).out : pend[i.warp][r] = 0
               THEN ReleaseRegisters(i.warp, Code(i).out)
               ELSE UNCHANGED reg_table
            /\ UNCHANGED smem

\* memory_cycle sends an access of i: past the L1, into the latency queue, or
\* to the L1 at once, where a load may hit and a local store stay.
SendAccess(i) ==
    \/ /\ Code(i).route = "bypass"
       /\ mem' = mem (+) One(i) /\ IncStoreReq(i)
       /\ UNCHANGED <<l1_latency_queue, m_pending_writes>>
    \/ /\ Code(i).route = "queue"
       /\ l1_latency_queue' = l1_latency_queue (+) One(i) /\ IncStoreReq(i)
       /\ UNCHANGED <<mem, m_pending_writes>>
    \/ /\ Code(i).route = "L1"
       /\ \/ mem' = mem (+) One(i) /\ IncStoreReq(i) /\ UNCHANGED m_pending_writes
          \/ /\ m_pending_writes' = IF IsLoad(i) THEN Pending(i, -1) ELSE m_pending_writes
             /\ UNCHANGED <<mem, m_stores_outstanding>>
       /\ UNCHANGED l1_latency_queue

\* An access is sent, and the instruction leaves with its last.
MemoryCycle ==
    /\ m_dispatch_reg # None
    /\ LET i == m_dispatch_reg
       IN  /\ IF accessq > 0
              THEN SendAccess(i) /\ accessq' = accessq - 1
              ELSE UNCHANGED <<mem, l1_latency_queue, m_pending_writes, m_stores_outstanding, accessq>>
           /\ IF accessq <= 1
              THEN (Code(i).op = "shared" => smem = None) /\ Dispatched(i, m_pending_writes')
              ELSE UNCHANGED <<m_dispatch_reg, smem, reg_table, m_inst_in_pipeline>>
    /\ UNCHANGED <<ctas, warp, frontend, barrier, oc, m_next_wb, m_done_exit, m_n_atomic, m_last_warp_fetched, alu>>

\* A variant that releases the registers with the first reply.
ReplyWrittenEarly(i) ==
    m_pending_writes' = Pending(i, -1) /\ ReleaseRegisters(i.warp, Code(i).out)

\* A reply for a load: its registers are released with the last.
ReplyWritten(i) ==
    /\ m_pending_writes' = Pending(i, -1)
    /\ ReleaseRegisters(i.warp, {r \in Code(i).out : m_pending_writes[i.warp][r] = 1})

\* L1_latency_queue_cycle: a load hits or misses; a store goes below or ends here.
L1LatencyQueueCycle ==
    /\ \E i \in BagToSet(l1_latency_queue) :
        /\ l1_latency_queue' = l1_latency_queue (-) One(i)
        /\ \/ mem' = mem (+) One(i) /\ UNCHANGED <<m_pending_writes, reg_table, m_stores_outstanding>>
           \/ IsLoad(i) /\ ReplyWritten(i) /\ UNCHANGED <<mem, m_stores_outstanding>>
           \/ /\ Code(i).op = "store"
              /\ m_stores_outstanding' = [m_stores_outstanding EXCEPT ![i.warp] = @ - 1]
              /\ UNCHANGED <<mem, m_pending_writes, reg_table>>
    /\ UNCHANGED <<ctas, warp, frontend, barrier, oc, m_dispatch_reg, accessq, smem, m_next_wb, m_done_exit,
                   m_inst_in_pipeline, m_n_atomic, m_last_warp_fetched, alu>>

\* The acknowledgement of a store.
StoreAck ==
    /\ \E i \in BagToSet(mem) :
        /\ Code(i).op = "store"
        /\ mem' = mem (-) One(i)
        /\ m_stores_outstanding' = [m_stores_outstanding EXCEPT ![i.warp] = @ - 1]
    /\ UNCHANGED <<ctas, warp, frontend, barrier, oc, m_dispatch_reg, accessq, smem, l1_latency_queue, m_next_wb,
                   m_pending_writes, m_done_exit, m_inst_in_pipeline, m_n_atomic, m_last_warp_fetched, reg_table, alu>>

\* ldst_unit::writeback takes a reply, or what the shared-memory pipeline holds.
WritebackClient ==
    /\ m_next_wb = None
    /\ \/ \E i \in BagToSet(mem) :
            /\ IsLoad(i)
            /\ mem' = mem (-) One(i) /\ m_next_wb' = i
            /\ m_n_atomic' = [m_n_atomic EXCEPT ![i.warp] = IF Code(i).op = "atom" THEN @ - 1 ELSE @]
            /\ UNCHANGED <<smem, m_inst_in_pipeline>>
       \/ /\ smem # None /\ m_next_wb' = smem /\ smem' = None
          /\ DecInstInPipeline(smem.warp)
          /\ UNCHANGED <<mem, m_n_atomic>>
    /\ UNCHANGED <<ctas, warp, frontend, barrier, oc, m_dispatch_reg, accessq, l1_latency_queue, m_pending_writes,
                   m_done_exit, m_stores_outstanding, m_last_warp_fetched, reg_table, alu>>

\* ldst_unit::writeback writes the one it has taken.
LdstWriteback ==
    /\ m_next_wb # None
    /\ IF Code(m_next_wb).op = "shared"
       THEN ReleaseRegisters(m_next_wb.warp, Code(m_next_wb).out) /\ UNCHANGED m_pending_writes
       ELSE ReplyWritten(m_next_wb)
    /\ m_next_wb' = None
    /\ UNCHANGED <<ctas, warp, frontend, barrier, oc, m_dispatch_reg, accessq, smem, l1_latency_queue, mem,
                   m_done_exit, m_inst_in_pipeline, m_stores_outstanding, m_n_atomic, m_last_warp_fetched, alu>>
-----------------------------------------------------------------------------
Next ==
    \/ IssueBlock2Core \/ FetchReply \/ Fetch \/ Decode
    \/ \E w \in Warps : MembarDone(w) \/ ControlHazard(w) \/ IssueWarp(w)
    \/ Writeback \/ LdstIssue \/ MemoryCycle \/ L1LatencyQueueCycle \/ StoreAck \/ WritebackClient \/ LdstWriteback

Spec == Init /\ [][Next]_vars

\* The core is clocked, the memory answers, and the L1I does not refuse every
\* access: something else than the turn of the fetch scan changes.
work == <<ctas, warp, frontend, barrier, ldst, m_done_exit, m_inst_in_pipeline, m_stores_outstanding, m_n_atomic,
          reg_table, alu>>
FairSpec == Spec /\ WF_work(Next)
-----------------------------------------------------------------------------
(* Properties.                                                              *)

Instances == [cta : Ctas, warp : Warps, pc : Nat, uid : Nat]

\* Every variable stays in its domain; no counter falls below zero.
TypeOK ==
    /\ program \in Programs /\ issued_cta \in 0..Len(program)
    /\ cta_of \in [SlotIds -> 0..Len(program)] /\ m_cta_status \in [SlotIds -> 0..NWarps]
    /\ pc \in [Warps -> Nat] /\ m_next_pc \in [Warps -> Nat]
    /\ functional_done \in [Warps -> BOOLEAN] /\ m_done_exit \in [Warps -> BOOLEAN]
    /\ m_ibuffer \in [Warps -> Seq(Nat)] /\ m_imiss_pending \in [Warps -> BOOLEAN]
    /\ m_inst_in_pipeline \in [Warps -> Nat] /\ m_stores_outstanding \in [Warps -> Nat]
    /\ m_n_atomic \in [Warps -> Nat] /\ m_membar \in [Warps -> BOOLEAN]
    /\ m_inst_fetch_buffer \in [warp : Warps, pc : Nat] \cup {None}
    /\ m_last_warp_fetched \in Warps /\ l1i \subseteq [warp : Warps, pc : Nat]
    /\ m_warp_active \subseteq Warps /\ m_warp_at_barrier \subseteq Warps
    /\ m_bar_id_to_warps \in [Barriers -> SUBSET Warps]
    /\ reg_table \in [Warps -> SUBSET Regs] /\ m_pending_writes \in [Warps -> [Regs -> Nat]]
    /\ alu \subseteq Instances /\ oc \subseteq Instances
    /\ m_dispatch_reg \in Instances \cup {None} /\ accessq \in Nat
    /\ smem \in Instances \cup {None} /\ m_next_wb \in Instances \cup {None}
    /\ IsABag(l1_latency_queue) /\ BagToSet(l1_latency_queue) \subseteq Instances
    /\ IsABag(mem) /\ BagToSet(mem) \subseteq Instances
    /\ arrivals \in [Warps -> [Barriers -> Nat]]

\* The scoreboard holds exactly the outputs of the instructions in flight: a
\* register is released with the last of a load's replies, in whatever order
\* hits, misses and other instructions' replies come (scoreboard.cc:58-117,
\* shader.cc:1945-1960, 2434-2456, 2700-2722), and never kept.
ScoreboardExact ==
    \A w \in Warps : reg_table[w] = UNION {Code(i).out : i \in {j \in InFlight : j.warp = w}}

\* How many of the copies in a bag are of a set.
Copies(bag, set) == Cardinality(UNION {{i} \X (1..bag[i]) : i \in BagToSet(bag) \cap set})
One01(b) == IF b THEN 1 ELSE 0

\* What the assertions on shd_warp_t's counters rely on (shader.h:100-101,
\* 200-227, shader.cc:3771): what is in flight is of the CTA now in the context
\* and of a warp whose exit is not registered, and the counters of instructions,
\* stores, atomics and pending writes are the numbers of what is in flight.
InFlightAccounted ==
    /\ \A i \in InFlight :
          Code(i).out # {} \/ i # m_next_wb => cta_of[SlotOf(i.warp)] = i.cta /\ ~m_done_exit[i.warp]
    /\ \A w \in Warps :
       LET mine == {i \in InFlight : i.warp = w}
           Of(op) == {i \in mine : Code(i).op = op}
           AllOf(set) == Copies(l1_latency_queue, set) + Copies(mem, set)
       IN  /\ m_inst_in_pipeline[w] = Len(m_ibuffer[w]) + Cardinality(mine \cap InPipeline)
           /\ m_stores_outstanding[w] = AllOf(Of("store"))
           /\ \A r \in Regs :
                LET loads == {i \in mine : IsLoad(i) /\ r \in Code(i).out}
                IN  m_pending_writes[w][r] = AllOf(loads) + One01(m_next_wb \in loads)
                                             + (IF m_dispatch_reg \in loads THEN accessq ELSE 0)
           /\ LET waiting == {i \in oc \cap Of("atom") : Code(i).n > 0}
              IN  m_n_atomic[w] = Copies(mem, Of("atom"))
                                  + (IF m_dispatch_reg \in Of("atom") /\ accessq > 0 THEN accessq
                                     ELSE IF waiting # {} THEN Code(CHOOSE i \in waiting : TRUE).n ELSE 0)

\* The reply to an instruction miss is the one the warp still waits for: its pc
\* cannot have moved meanwhile (assert at shader.cc:894-897).
FetchMatchesPc ==
    /\ \A r \in l1i : m_imiss_pending[r.warp] /\ r.pc = m_next_pc[r.warp] /\ ~functional_done[r.warp]
    /\ \A r, q \in l1i : r.warp = q.warp => r = q

\* A warp that has passed a CTA-wide barrier n times has seen every warp of its
\* CTA that has not exited arrive there n times, whether the others arrive or
\* exit (shader.cc:3608-3680).
Passed(w, b) == IF w \in m_warp_at_barrier \cap m_bar_id_to_warps[b] THEN arrivals[w][b] - 1 ELSE arrivals[w][b]
CtaWide == {b \in Barriers : \A c \in Ctas, k \in 1..WarpsPerCta : \A j \in 1..Len(program[c][k]) :
    LET inst == program[c][k][j]
    IN  inst.op \in {"bar", "arrive"} /\ inst.id = b => inst.op = "bar" /\ inst.n = 0}
BarrierHolds ==
    \A w, v \in Warps : \A b \in CtaWide :
        SlotOf(w) = SlotOf(v) /\ ~functional_done[w] /\ ~functional_done[v] => Passed(w, b) <= arrivals[v][b]

\* Every CTA of a kernel whose barriers match completes and leaves its context,
\* whatever waits for replies, atomics, barriers or exits meanwhile.
CtasComplete == <>(issued_cta = Len(program) /\ \A s \in SlotIds : cta_of[s] = 0)
=============================================================================
