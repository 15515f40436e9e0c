-------------------------- MODULE MemoryPartition --------------------------
(***************************************************************************)
(* A memory partition: its sub-partitions with their queues, the credits   *)
(* by which they share one DRAM channel, the FR-FCFS scheduler with or     *)
(* without a separate queue of writes, and the way back                    *)
(* (memory_partition_unit and memory_sub_partition in l2cache.cc, dram_t   *)
(* in dram.cc, frfcfs_scheduler in dram_sched.cc, and the memory part of   *)
(* gpgpu_sim::cycle in gpu-sim.cc).                                        *)
(*                                                                         *)
(* The L2 cache is disabled or passed by (-gpgpu_cache:dl2 none, or        *)
(* -gpgpu_cache:dl2_texture_only with requests that are not textures). A   *)
(* request is one burst of the DRAM.                                       *)
(* The clocks of the interconnect, the L2 and the DRAM are independent;    *)
(* latencies and DRAM timings only decide how long a step may be put off.  *)
(***************************************************************************)
EXTENDS Integers, Sequences, FiniteSets

CONSTANTS
    NRequests,       \* requests the cores may send, in the order of their numbers
    SubOf,           \* [Requests -> SubPartitions]
    Kind,            \* [Requests -> Kinds]
    BankOf, RowOf,   \* address of a request
    NSub,            \* m_n_sub_partition_per_memory_channel
    Banks, Rows, FirstRow,  \* FirstRow: the row calloc leaves in a bank
    None,
    IcntL2Size, L2DramSize, DramL2Size, L2IcntSize,  \* -gpgpu_dram_partition_queues
    SchedSize,       \* -gpgpu_frfcfs_dram_sched_queue_size, 0 for no limit
    ReturnSize,      \* -gpgpu_dram_return_queue_size, 0 for no limit
    WriteSize, HighWatermark, LowWatermark,          \* -dram_write_queue_size
    RwqSize,         \* entries of the DRAM data pipeline
    Simple,          \* values of -gpgpu_simple_dram_model to check
    Separate         \* values of -dram_seperate_write_queue_enable to check

Requests == 1..NRequests
SubPartitions == 0..(NSub - 1)
Kinds == {"read", "texture", "write", "writeback"}
SECTOR_CHUNCK_SIZE == 4

ASSUME MemoryPartitionAssumption ==
    /\ NRequests \in Nat /\ NSub \in Nat \ {0}
    /\ SubOf \in [Requests -> SubPartitions] /\ Kind \in [Requests -> Kinds]
    /\ BankOf \in [Requests -> Banks] /\ RowOf \in [Requests -> Rows]
    /\ None \notin Requests \cup Rows /\ FirstRow \in Rows
    \* A smaller queue never has room for the sectors of a request.
    /\ IcntL2Size \in Nat /\ IcntL2Size >= SECTOR_CHUNCK_SIZE
    /\ {L2DramSize, DramL2Size, L2IcntSize, RwqSize} \subseteq Nat \ {0}
    /\ SchedSize \in Nat /\ ReturnSize \in Nat /\ WriteSize \in Nat
    /\ SchedSize = 0 \/ ReturnSize = 0 \/ SchedSize + ReturnSize >= NSub - 1
    /\ 0 < LowWatermark /\ LowWatermark <= HighWatermark /\ HighWatermark <= WriteSize
    /\ Simple \subseteq BOOLEAN /\ Separate \subseteq BOOLEAN

VARIABLES
    simple_dram_model, seperate_write_queue_enabled, \* the configuration
    sent,              \* requests the cores have sent
    answered,          \* replies the cores have got, and write-backs done
    m_request_tracker, \* requests each sub-partition knows of
    m_rop, m_icnt_L2_queue, m_L2_dram_queue, m_dram_L2_queue, m_L2_icnt_queue,
    m_private_credit, m_shared_credit, m_last_borrower,
    m_dram_latency_queue,
    mrqq,              \* requests pushed to the DRAM, not yet in its scheduler
    m_queue,           \* pending requests of the scheduler, oldest first, by mode
    m_last_row,        \* the row each mode is serving in each bank
    m_mode,
    mrq, curr_row,     \* the request and the open row of each bank
    rwq, returnq,
    phase              \* control point of the DRAM cycle

config    == <<simple_dram_model, seperate_write_queue_enabled>>
traffic   == <<sent, answered, m_request_tracker>>
queues    == <<m_rop, m_icnt_L2_queue, m_L2_dram_queue, m_dram_L2_queue, m_L2_icnt_queue>>
credits   == <<m_private_credit, m_shared_credit, m_last_borrower>>
scheduler == <<m_queue, m_last_row, m_mode>>
dram      == <<mrqq, scheduler, mrq, curr_row, rwq, returnq>>
vars      == <<config, traffic, queues, credits, m_dram_latency_queue, dram, phase>>

Modes == {"read", "write"}

Init ==
    /\ simple_dram_model \in Simple /\ seperate_write_queue_enabled \in Separate
    /\ sent = {} /\ answered = {}
    /\ m_request_tracker = [s \in SubPartitions |-> {}]
    /\ LET empty == [s \in SubPartitions |-> <<>>]
       IN  /\ m_rop = empty /\ m_icnt_L2_queue = empty /\ m_L2_dram_queue = empty
           /\ m_dram_L2_queue = empty /\ m_L2_icnt_queue = empty
    /\ m_private_credit = [s \in SubPartitions |-> 0]
    /\ m_shared_credit = 0 /\ m_last_borrower = NSub - 1
    /\ m_dram_latency_queue = <<>> /\ mrqq = <<>>
    /\ m_queue = [m \in Modes |-> <<>>]
    /\ m_last_row = [m \in Modes |-> [b \in Banks |-> None]] /\ m_mode = "read"
    /\ mrq = [b \in Banks |-> None] /\ curr_row = [b \in Banks |-> FirstRow]
    /\ rwq = <<>> /\ returnq = <<>>
    /\ phase = "idle"
-----------------------------------------------------------------------------
(* Credits: arbitration_metadata.                                           *)

m_private_credit_limit == 1
m_shared_credit_limit ==
    IF SchedSize = 0 \/ ReturnSize = 0 THEN 0
    ELSE SchedSize + ReturnSize - (NSub - 1)
         + (IF seperate_write_queue_enabled THEN WriteSize ELSE 0)

HasCredits(s) ==
    \/ m_private_credit[s] < m_private_credit_limit
    \/ m_shared_credit_limit = 0
    \/ m_shared_credit < m_shared_credit_limit

BorrowCredit(s) ==
    /\ IF m_private_credit[s] < m_private_credit_limit
       THEN /\ m_private_credit' = [m_private_credit EXCEPT ![s] = @ + 1]
            /\ UNCHANGED m_shared_credit
       ELSE /\ m_shared_credit' = m_shared_credit + 1
            /\ UNCHANGED m_private_credit
    /\ m_last_borrower' = s

\* A variant that returns to the shared credits first.
ReturnShared(s) ==
    /\ m_shared_credit' = m_shared_credit - 1
    /\ UNCHANGED <<m_private_credit, m_last_borrower>>

ReturnCredit(s) ==
    /\ IF m_private_credit[s] > 0
       THEN /\ m_private_credit' = [m_private_credit EXCEPT ![s] = @ - 1]
            /\ UNCHANGED m_shared_credit
       ELSE /\ m_shared_credit' = m_shared_credit - 1
            /\ UNCHANGED m_private_credit
    /\ UNCHANGED m_last_borrower
-----------------------------------------------------------------------------
(* A sub-partition in its two clock domains.                                *)

SetOf(q) == {q[i] : i \in 1..Len(q)}

\* The request that leaves the front of q if there is room for it, as a
\* sequence, and what then is left of q.
Leaves(q, room) == IF room /\ q # <<>> THEN <<Head(q)>> ELSE <<>>
Rest(q, out)    == SubSeq(q, Len(out) + 1, Len(q))

\* The request the network has for s.
NextFrom(s) ==
    LET coming == {r \in Requests \ sent : SubOf[r] = s}
    IN  {r \in coming : \A x \in coming : r <= x}

\* The L2 clock: a request comes from the interconnect if there is room,
\* textures past m_rop, then cache_cycle() moves one reply up, one request down
\* and one out of m_rop.
L2Cycle(s) ==
    /\ phase = "idle"
    /\ \E come \in {<<>>} \cup {<<r>> : r \in NextFrom(s)}, ready \in BOOLEAN :
          LET room  == Len(m_icnt_L2_queue[s]) + SECTOR_CHUNCK_SIZE - 1 < IcntL2Size
              past  == come # <<>> /\ Kind[Head(come)] = "texture"
              rop   == m_rop[s] \o (IF past THEN <<>> ELSE come)
              icnt  == m_icnt_L2_queue[s] \o (IF past THEN come ELSE <<>>)
              reply == Leaves(m_dram_L2_queue[s], Len(m_L2_icnt_queue[s]) < L2IcntSize)
              down  == Leaves(icnt, Len(m_L2_dram_queue[s]) < L2DramSize)
              left  == Rest(icnt, down)
              enter == Leaves(rop, ready /\ Len(left) < IcntL2Size)
          IN  /\ come = <<>> \/ room
              /\ sent' = sent \cup SetOf(come)
              /\ m_request_tracker' = [m_request_tracker EXCEPT ![s] = @ \cup SetOf(come)]
              /\ m_rop' = [m_rop EXCEPT ![s] = Rest(rop, enter)]
              /\ m_icnt_L2_queue' = [m_icnt_L2_queue EXCEPT ![s] = left \o enter]
              /\ m_L2_dram_queue' = [m_L2_dram_queue EXCEPT ![s] = @ \o down]
              /\ m_dram_L2_queue' = [m_dram_L2_queue EXCEPT ![s] = Rest(@, reply)]
              /\ m_L2_icnt_queue' = [m_L2_icnt_queue EXCEPT ![s] = @ \o reply]
    /\ UNCHANGED <<config, answered, credits, m_dram_latency_queue, dram, phase>>

\* The interconnect clock: a reply leaves when the network has room for it.
IcntCycle(s) ==
    /\ phase = "idle" /\ m_L2_icnt_queue[s] # <<>>
    /\ LET mf == Head(m_L2_icnt_queue[s])
       IN  /\ answered' = answered \cup {mf}
           /\ m_request_tracker' = [m_request_tracker EXCEPT ![s] = @ \ {mf}]
    /\ m_L2_icnt_queue' = [m_L2_icnt_queue EXCEPT ![s] = Tail(@)]
    /\ UNCHANGED <<config, sent, m_rop, m_icnt_L2_queue, m_L2_dram_queue, m_dram_L2_queue,
                   credits, m_dram_latency_queue, dram, phase>>
-----------------------------------------------------------------------------
(* The DRAM clock: dram_cycle() and simple_dram_model_cycle().              *)

\* A finished request goes to its sub-partition.
DeliverTo(s, mf) ==
    /\ m_dram_L2_queue' = [m_dram_L2_queue EXCEPT ![s] = Append(@, mf)]
    /\ ReturnCredit(s)
    /\ UNCHANGED <<m_rop, m_icnt_L2_queue, m_L2_dram_queue, m_L2_icnt_queue, traffic>>

\* A variant that leaves the request with the tracker.
SetDoneKeepsTrack(mf) ==
    /\ answered' = answered \cup {mf}
    /\ ReturnCredit(SubOf[mf])
    /\ UNCHANGED <<sent, m_request_tracker, queues>>

\* memory_partition_unit::set_done(), for write-backs, which get no reply.
SetDone(mf) ==
    /\ answered' = answered \cup {mf}
    /\ m_request_tracker' = [m_request_tracker EXCEPT ![SubOf[mf]] = @ \ {mf}]
    /\ ReturnCredit(SubOf[mf])
    /\ UNCHANGED <<sent, queues>>

\* The return queue's front goes up if its sub-partition has room.
DramReturn ==
    /\ phase = "idle" /\ ~simple_dram_model
    /\ IF returnq # <<>> /\ Len(m_dram_L2_queue[SubOf[Head(returnq)]]) < DramL2Size
       THEN DeliverTo(SubOf[Head(returnq)], Head(returnq)) /\ returnq' = Tail(returnq)
       ELSE UNCHANGED <<traffic, queues, credits, returnq>>
    /\ phase' = "data"
    /\ UNCHANGED <<config, m_dram_latency_queue, mrqq, scheduler, mrq, curr_row, rwq>>

ReturnFull == Len(returnq) >= (IF ReturnSize = 0 THEN 1024 ELSE ReturnSize)

\* Data at the end of the pipeline, if the return queue has room.
DramData ==
    /\ phase = "data"
    /\ \/ /\ ~ReturnFull /\ rwq # <<>>
          /\ rwq' = Tail(rwq)
          /\ IF Kind[Head(rwq)] = "writeback"
             THEN SetDone(Head(rwq)) /\ UNCHANGED returnq
             ELSE /\ returnq' = Append(returnq, Head(rwq))
                  /\ UNCHANGED <<traffic, queues, credits>>
       \/ UNCHANGED <<rwq, returnq, traffic, queues, credits>>
    /\ phase' = "schedule"
    /\ UNCHANGED <<config, m_dram_latency_queue, mrqq, scheduler, mrq, curr_row>>

\* add_req(): the queue a request joins.
QueueOf(mf) ==
    IF seperate_write_queue_enabled /\ Kind[mf] \in {"write", "writeback"} THEN "write" ELSE "read"

\* A request that has reached the channel joins the scheduler.
AddReq ==
    /\ phase = "schedule" /\ mrqq # <<>>
    /\ m_queue' = [m_queue EXCEPT ![QueueOf(Head(mrqq))] = Append(@, Head(mrqq))]
    /\ mrqq' = Tail(mrqq)
    /\ UNCHANGED <<config, traffic, queues, credits, m_dram_latency_queue, m_last_row, m_mode,
                   mrq, curr_row, rwq, returnq, phase>>

\* A variant that never turns to the writes.
ModeStays == m_mode

\* The test at the start of schedule().
ModeFor ==
    CASE seperate_write_queue_enabled /\ m_mode = "read"  /\ Len(m_queue["write"]) >= HighWatermark -> "write"
      [] seperate_write_queue_enabled /\ m_mode = "write" /\ Len(m_queue["write"]) < LowWatermark   -> "read"
      [] OTHER -> m_mode

\* The places in q of the requests for a bank, and for a row of it.
OfBank(q, b)     == {i \in 1..Len(q) : BankOf[q[i]] = b}
OfRow(q, b, row) == {i \in OfBank(q, b) : RowOf[q[i]] = row}

\* A variant that takes the wrong end of the bin of a row.
Newest(I) == CHOOSE i \in I : \A j \in I : j <= i

Oldest(I) == CHOOSE i \in I : \A j \in I : i <= j

\* The row schedule() serves: the one it is serving, else the open row, else
\* that of the oldest request.
Row(q, b, m) ==
    IF m_last_row[m][b] # None THEN m_last_row[m][b]
    ELSE IF OfRow(q, b, curr_row[b]) # {} THEN curr_row[b]
    ELSE RowOf[q[Oldest(OfBank(q, b))]]

Erase(q, i) == [j \in 1..(Len(q) - 1) |-> IF j < i THEN q[j] ELSE q[j + 1]]

\* The rest of scheduler_frfcfs(): one free bank for which it finds a request
\* gets it.
DramSchedule ==
    /\ phase = "schedule" /\ mrqq = <<>>
    /\ LET free == {b \in Banks : mrq[b] = None}
           m    == IF free = {} THEN m_mode ELSE ModeFor
           q    == m_queue[m]
           some == {b \in free : OfBank(q, b) # {}}
       IN  /\ m_mode' = m
           /\ IF some = {}
              THEN UNCHANGED <<m_queue, m_last_row, mrq>>
              ELSE \E b \in some :
                     LET bin == OfRow(q, b, Row(q, b, m))
                         i   == Oldest(bin)
                     IN  /\ mrq' = [mrq EXCEPT ![b] = q[i]]
                         /\ m_queue' = [m_queue EXCEPT ![m] = Erase(q, i)]
                         /\ m_last_row' = [m_last_row EXCEPT ![m][b] =
                                              IF bin = {i} THEN None ELSE RowOf[q[i]]]
    /\ phase' = "command"
    /\ UNCHANGED <<config, traffic, queues, credits, m_dram_latency_queue, mrqq, curr_row, rwq, returnq>>

\* issue_row_command() and issue_col_command(): a bank opens the row of its
\* request in time and hands the request to the pipeline.
DramCommand ==
    /\ phase = "command"
    /\ \/ /\ Len(rwq) < RwqSize
          /\ \E b \in {x \in Banks : mrq[x] # None} :
                /\ rwq' = Append(rwq, mrq[b])
                /\ curr_row' = [curr_row EXCEPT ![b] = RowOf[mrq[b]]]
                /\ mrq' = [mrq EXCEPT ![b] = None]
       \/ UNCHANGED <<rwq, curr_row, mrq>>
    /\ phase' = "arbitrate"
    /\ UNCHANGED <<config, traffic, queues, credits, m_dram_latency_queue, mrqq, scheduler, returnq>>

\* A variant that looks at the other queue.
DramFullSwapped(mf) ==
    /\ SchedSize # 0
    /\ IF QueueOf(mf) = "read" THEN Len(m_queue["write"]) >= WriteSize
       ELSE Len(m_queue["read"]) >= SchedSize

Room(m) == IF m = "write" THEN WriteSize ELSE SchedSize

\* dram_t::full().
DramFull(mf) == SchedSize # 0 /\ Len(m_queue[QueueOf(mf)]) >= Room(QueueOf(mf))

\* A variant that does not look at the credits.
CanIssueUnlimited(s) == Len(m_dram_L2_queue[s]) < DramL2Size

CanIssueToDram(s) == HasCredits(s) /\ Len(m_dram_L2_queue[s]) < DramL2Size

\* The sub-partition the arbiter stops at, in turn after the last borrower.
InTurn(p) == (p + m_last_borrower + 1) % NSub
Candidate(s) == m_L2_dram_queue[s] # <<>> /\ CanIssueToDram(s)
Chosen == {InTurn(p) : p \in {x \in SubPartitions : /\ Candidate(InTurn(x))
                                                    /\ \A y \in 0..(x - 1) : ~Candidate(InTurn(y))}}

\* One request from the sub-partitions to the latency queue.
Arbitrate ==
    /\ phase = "arbitrate"
    /\ IF \E s \in Chosen : ~DramFull(Head(m_L2_dram_queue[s]))
       THEN \E s \in Chosen :
              /\ m_L2_dram_queue' = [m_L2_dram_queue EXCEPT ![s] = Tail(@)]
              /\ m_dram_latency_queue' = Append(m_dram_latency_queue, Head(m_L2_dram_queue[s]))
              /\ BorrowCredit(s)
       ELSE UNCHANGED <<m_L2_dram_queue, m_dram_latency_queue, credits>>
    /\ phase' = IF simple_dram_model THEN "idle" ELSE "latency"
    /\ UNCHANGED <<config, traffic, m_rop, m_icnt_L2_queue, m_dram_L2_queue, m_L2_icnt_queue, dram>>

\* The front of the latency queue, when its time has come.
DramLatency ==
    /\ phase = "latency"
    /\ \/ /\ m_dram_latency_queue # <<>> /\ ~DramFull(Head(m_dram_latency_queue))
          /\ mrqq' = Append(mrqq, Head(m_dram_latency_queue))
          /\ m_dram_latency_queue' = Tail(m_dram_latency_queue)
       \/ UNCHANGED <<mrqq, m_dram_latency_queue>>
    /\ phase' = "idle"
    /\ UNCHANGED <<config, traffic, queues, credits, scheduler, mrq, curr_row, rwq, returnq>>

\* The simple model: the latency queue is all there is of the DRAM.
SimpleReturn ==
    /\ phase = "idle" /\ simple_dram_model
    /\ \/ /\ m_dram_latency_queue # <<>>
          /\ LET mf == Head(m_dram_latency_queue)
             IN  \/ Kind[mf] = "writeback" /\ SetDone(mf)
                 \/ /\ Kind[mf] # "writeback" /\ Len(m_dram_L2_queue[SubOf[mf]]) < DramL2Size
                    /\ DeliverTo(SubOf[mf], mf)
          /\ m_dram_latency_queue' = Tail(m_dram_latency_queue)
       \/ UNCHANGED <<m_dram_latency_queue, traffic, queues, credits>>
    /\ phase' = "arbitrate"
    /\ UNCHANGED <<config, dram>>

DramStep ==
    \/ DramReturn \/ DramData \/ AddReq \/ DramSchedule \/ DramCommand
    \/ Arbitrate \/ DramLatency \/ SimpleReturn

Next == DramStep \/ \E s \in SubPartitions : L2Cycle(s) \/ IcntCycle(s)

Spec == Init /\ [][Next]_vars

\* A step that moves a request on.
Moving ==
    \/ \E s \in SubPartitions : (L2Cycle(s) /\ sent' = sent) \/ IcntCycle(s)
    \/ DramStep /\ <<m_dram_latency_queue, mrqq, rwq>>' # <<m_dram_latency_queue, mrqq, rwq>>

\* Every clock keeps ticking, latencies and DRAM timings expire, and the network
\* takes a reply again and again; the cores need not send anything. The steps
\* that move a request are finitely many, so that fairness of them together is
\* fairness of each.
Fairness == WF_vars(DramStep) /\ SF_vars(Moving)

FairSpec == Spec /\ Fairness
-----------------------------------------------------------------------------
(* Properties.                                                              *)

\* The requests that hold a credit: from the arbiter to the way back.
InDram ==
    SetOf(m_dram_latency_queue) \cup SetOf(mrqq) \cup SetOf(m_queue["read"]) \cup SetOf(m_queue["write"])
    \cup ({mrq[b] : b \in Banks} \ {None}) \cup SetOf(rwq) \cup SetOf(returnq)

\* The requests a sub-partition holds itself.
InSubPartition(s) ==
    SetOf(m_rop[s]) \cup SetOf(m_icnt_L2_queue[s]) \cup SetOf(m_L2_dram_queue[s])
    \cup SetOf(m_dram_L2_queue[s]) \cup SetOf(m_L2_icnt_queue[s])

\* Every variable stays in its domain.
TypeOK ==
    /\ simple_dram_model \in BOOLEAN /\ seperate_write_queue_enabled \in BOOLEAN
    /\ sent \subseteq Requests /\ answered \subseteq Requests
    /\ m_request_tracker \in [SubPartitions -> SUBSET Requests]
    /\ \A q \in {m_rop, m_icnt_L2_queue, m_L2_dram_queue, m_dram_L2_queue, m_L2_icnt_queue} :
          q \in [SubPartitions -> Seq(Requests)]
    /\ m_private_credit \in [SubPartitions -> 0..m_private_credit_limit]
    /\ m_shared_credit \in Nat /\ m_last_borrower \in SubPartitions
    /\ m_dram_latency_queue \in Seq(Requests) /\ mrqq \in Seq(Requests)
    /\ m_queue \in [Modes -> Seq(Requests)] /\ m_mode \in Modes
    /\ m_last_row \in [Modes -> [Banks -> Rows \cup {None}]]
    /\ mrq \in [Banks -> Requests \cup {None}] /\ curr_row \in [Banks -> Rows]
    /\ rwq \in Seq(Requests) /\ returnq \in Seq(Requests)
    /\ phase \in {"idle", "data", "schedule", "command", "arbitrate", "latency"}

\* Each request between arbitration and its return holds exactly one credit,
\* private or shared, although return_credit() does not know which one it
\* borrowed: the shared credits are never returned twice (the assertion of
\* l2cache.cc:160) and never exceed their limit.
CreditsMatch ==
    /\ m_shared_credit + Cardinality({s \in SubPartitions : m_private_credit[s] = 1}) = Cardinality(InDram)
    /\ \A s \in SubPartitions : m_private_credit[s] = 1 => \E mf \in InDram : SubOf[mf] = s
    /\ m_shared_credit_limit # 0 => m_shared_credit <= m_shared_credit_limit

\* A sub-partition is busy exactly while a request of its own is somewhere in
\* the partition: memory_sub_partition::busy(), which gpgpu_sim::active() and
\* the end of a simulation trust, neither loses a request nor keeps an
\* answered one.
BusyCoversRequests ==
    \A s \in SubPartitions :
        /\ m_request_tracker[s] = InSubPartition(s) \cup {mf \in InDram : SubOf[mf] = s}
        /\ m_request_tracker[s] = {mf \in sent \ answered : SubOf[mf] = s}

\* Requests join the scheduler only within the limit of its queue: the
\* assertions of frfcfs_scheduler::add_req(), though room is tested a cycle
\* before a request arrives, and by dram_t::full() for two queues.
SchedulerHasRoom ==
    mrqq # <<>> => Len(m_queue[QueueOf(Head(mrqq))]) < Room(QueueOf(Head(mrqq)))

\* First-ready scheduling reorders rows, never the accesses to one row: of two
\* that a sub-partition sends through m_rop, to one row and one queue of the
\* scheduler, the cores get the replies in the order they sent the requests.
SameRowInOrder ==
    \A x, y \in {r \in Requests : Kind[r] \in {"read", "write"}} :
        /\ x < y /\ y \in answered /\ QueueOf(x) = QueueOf(y) /\ SubOf[x] = SubOf[y]
        /\ BankOf[x] = BankOf[y] /\ RowOf[x] = RowOf[y]
        => x \in answered

\* A write that waits for the write queue to reach its high watermark: the
\* scheduler serves only reads before, even when there are none.
Parked(mf) ==
    /\ seperate_write_queue_enabled /\ m_mode = "read"
    /\ mf \in SetOf(m_queue["write"]) /\ Len(m_queue["write"]) < HighWatermark

\* Every request sent is answered in the end, whatever the sizes of the queues
\* and whoever shares the channel, unless it is a parked write.
RequestsAnswered == <>[](\A mf \in sent \ answered : Parked(mf))
=============================================================================
