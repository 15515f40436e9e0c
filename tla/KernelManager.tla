--------------------------- MODULE KernelManager ---------------------------
(***************************************************************************)
(* The life of a kernel on the simulated GPU: launched from a stream into  *)
(* the table of running kernels, bound to cores, issued CTA by CTA, done,  *)
(* registered and retired from its stream, with the kernels it launches    *)
(* itself (CUDA dynamic parallelism) and with the limits that end a        *)
(* simulation (gpgpu_sim in gpu-sim.cc, simt_core_cluster and              *)
(* shader_core_ctx in shader.cc, kernel_info_t in                          *)
(* abstract_hardware_model.cc, cuda_device_runtime.cc,                     *)
(* register_finished_kernel and stop_all_running_kernels in                *)
(* stream_manager.cc).                                                     *)
(*                                                                         *)
(* Streams hold kernels only, and which ready stream is served is left     *)
(* open: StreamManager models them.  A CTA occupies one context of a core  *)
(* from issue to exit; its instructions are not modelled.                  *)
(***************************************************************************)
EXTENDS Naturals, Sequences, FiniteSets

CONSTANTS
    Kernels,          \* the grids a program launches
    None,
    Parent,           \* [Kernels -> Kernels \cup {None}]: None for a grid the host launches
    Streams,
    StreamOf,         \* [Kernels -> Streams]
    NumCtas,          \* [Kernels -> Nat]: CTAs of a grid
    MaxCta,           \* [Kernels -> Nat]: shader_core_config::max_cta
    TBLatency,        \* m_kernel_TB_latency of a new kernel
    NClusters, CoresPerCluster, MaxCtaPerCore,
    MaxConcurrent,    \* -gpgpu_max_concurrent_kernel
    ConcurrentSm,     \* -gpgpu_concurrent_kernel_sm
    CycleLimit,       \* whether -gpgpu_max_cycle or -gpgpu_max_insn is set
    MaxCtaOpt,        \* -gpgpu_max_cta, 0 for no limit
    MaxCompletedOpt   \* -gpgpu_max_completed_cta, 0 for no limit

ASSUME KernelManagerAssumption ==
    /\ None \notin Kernels
    /\ Parent \in [Kernels -> Kernels \cup {None}]
    /\ StreamOf \in [Kernels -> Streams]
    \* A stream a kernel created is used by the kernels it launches.
    /\ \A j, k \in Kernels : StreamOf[j] = StreamOf[k] => Parent[j] = Parent[k]
    /\ NumCtas \in [Kernels -> Nat \ {0}] /\ MaxCta \in [Kernels -> Nat \ {0}]
    /\ NClusters \in Nat \ {0} /\ CoresPerCluster \in Nat \ {0}
    /\ MaxCtaPerCore \in Nat \ {0} /\ \A k \in Kernels : MaxCta[k] <= MaxCtaPerCore
    /\ MaxConcurrent \in Nat \ {0}
    /\ TBLatency \in Nat /\ MaxCtaOpt \in Nat /\ MaxCompletedOpt \in Nat
    /\ ConcurrentSm \in BOOLEAN /\ CycleLimit \in BOOLEAN

Clusters == 0..(NClusters - 1)
Cores    == Clusters \X (0..(CoresPerCluster - 1))
Contexts == 1..MaxCtaPerCore
Slots    == 0..(MaxConcurrent - 1)

VARIABLES
    m_operations, m_pending,     \* the kernels of each stream; the front is in progress
    m_grid_id_to_stream,
    m_lock,                      \* stop_all_running_kernels holds the manager's mutex
    launched,                    \* kernel_info_t constructed
    retiring,                    \* popped and the parent notified, but not deleted yet
    deleted,                     \* kernel_info_t deleted
    m_next_cta, m_num_cores_running, m_kernel_TB_latency,
    m_child_kernels, m_cta_streams,
    device_launch_op,            \* g_cuda_device_launch_op
    m_running_kernels, m_last_issued_kernel, m_executed_kernel_uids,
    m_finished_kernel,
    m_kernel,                    \* the kernel each core is bound to
    m_cta_status,                \* the kernel in each context of each core
    m_last_cluster_issue, m_cta_issue_next_core,
    gpu_tot_issued_cta, m_total_cta_launched, gpu_completed_cta,
    limit,                       \* the cycle or instruction limit is reached
    spc, turn, check, subject,   \* control of the simulation thread
    g_sim_done,
    reached                      \* history: some limit was reached

streams == <<m_operations, m_pending, m_grid_id_to_stream>>
objects == <<launched, retiring, deleted, m_next_cta, m_num_cores_running, m_kernel_TB_latency,
             m_child_kernels, m_cta_streams, device_launch_op>>
table   == <<m_running_kernels, m_last_issued_kernel, m_executed_kernel_uids, m_finished_kernel>>
cores   == <<m_kernel, m_cta_status, m_last_cluster_issue, m_cta_issue_next_core>>
counts  == <<gpu_tot_issued_cta, m_total_cta_launched, gpu_completed_cta, limit, reached>>
control == <<spc, turn, check, subject, g_sim_done>>
vars    == <<streams, m_lock, objects, table, cores, counts, control>>

NoTurn == [cluster |-> 0, core |-> 0, last |-> 0]

Init ==
    /\ m_operations = [s \in Streams |-> <<>>] /\ m_pending = [s \in Streams |-> FALSE]
    /\ m_grid_id_to_stream = <<>> /\ m_lock = FALSE
    /\ launched = {} /\ retiring = {} /\ deleted = {}
    /\ m_next_cta = [k \in Kernels |-> 0] /\ m_num_cores_running = [k \in Kernels |-> 0]
    /\ m_kernel_TB_latency = [k \in Kernels |-> TBLatency]
    /\ m_child_kernels = [k \in Kernels |-> {}] /\ m_cta_streams = [k \in Kernels |-> {}]
    /\ device_launch_op = <<>>
    /\ m_running_kernels = [n \in Slots |-> None] /\ m_last_issued_kernel = 0
    /\ m_executed_kernel_uids = {} /\ m_finished_kernel = <<>>
    /\ m_kernel = [c \in Cores |-> None]
    /\ m_cta_status = [c \in Cores |-> [i \in Contexts |-> None]]
    /\ m_last_cluster_issue = NClusters - 1
    /\ m_cta_issue_next_core = [x \in Clusters |-> CoresPerCluster - 1]
    /\ gpu_tot_issued_cta = 0 /\ m_total_cta_launched = 0 /\ gpu_completed_cta = 0
    /\ limit = FALSE
    /\ spc = "detect" /\ turn = NoTurn /\ check = FALSE /\ subject = None
    /\ g_sim_done = FALSE /\ reached = FALSE
-----------------------------------------------------------------------------
(* What the code asks of its state.                                         *)

\* cycle_insn_cta_max_hit(), with which push drops an operation and active()
\* is false.
MaxHit ==
    \/ limit
    \/ MaxCtaOpt > 0 /\ gpu_tot_issued_cta >= MaxCtaOpt
    \/ MaxCompletedOpt > 0 /\ gpu_completed_cta >= MaxCompletedOpt

\* hit_max_cta_count(): the CTAs of the round under way count here.
HitMaxCta == MaxCtaOpt > 0 /\ gpu_tot_issued_cta + m_total_cta_launched >= MaxCtaOpt

NoMoreCtas(k) == m_next_cta[k] >= NumCtas[k]
Done(k)       == NoMoreCtas(k) /\ m_num_cores_running[k] = 0

\* A variant that does not wait for the children.
IsFinishedAlone(k) == Done(k)

IsFinished(k) == Done(k) /\ m_child_kernels[k] = {}

KernelMoreCtaLeft(k) == ~HitMaxCta /\ k # None /\ ~NoMoreCtas(k)
GetMoreCtaLeft       == \E n \in Slots : KernelMoreCtaLeft(m_running_kernels[n])

Occupied(c)   == {i \in Contexts : m_cta_status[c][i] # None}
NActiveCta(c) == Cardinality(Occupied(c))

\* active(): CTAs on the cores, or CTAs to issue.  Memory traffic that is left
\* after the last CTA only delays what follows.
GpuActive == ~MaxHit /\ ((\E c \in Cores : Occupied(c) # {}) \/ GetMoreCtaLeft)

AllEmpty == \A s \in Streams : m_operations[s] = <<>>
Alive    == spc \notin {"dead", "crash"}
-----------------------------------------------------------------------------
(* Launches.                                                                *)

Accept(k) == m_operations' = IF MaxHit THEN m_operations
                             ELSE [m_operations EXCEPT ![StreamOf[k]] = Append(@, k)]

HostLaunch(k) ==
    /\ Alive /\ Parent[k] = None /\ k \notin launched /\ ~m_lock
    /\ launched' = launched \cup {k}
    /\ Accept(k)
    /\ UNCHANGED <<m_pending, m_grid_id_to_stream, m_lock, retiring, deleted, m_next_cta,
                   m_num_cores_running, m_kernel_TB_latency, m_child_kernels, m_cta_streams, device_launch_op,
                   table, cores, counts, control>>

\* while (empty_protected()), then init().
DetectWork ==
    /\ spc = "detect" /\ ~AllEmpty
    /\ m_total_cta_launched' = 0 /\ gpu_completed_cta' = 0
    /\ spc' = "check"
    /\ UNCHANGED <<streams, m_lock, objects, table, cores, gpu_tot_issued_cta, limit, reached,
                   turn, check, subject, g_sim_done>>

FreeSlots == {n \in Slots : m_running_kernels[n] = None \/ Done(m_running_kernels[n])}
FirstOf(S) == CHOOSE n \in S : \A x \in S : n <= x

\* operation() after check_finished_kernel(): a ready stream's kernel starts
\* when can_start_kernel(), in the slot launch() finds.
Operate ==
    /\ spc = "operate"
    /\ LET ready == {s \in Streams : m_operations[s] # <<>> /\ ~m_pending[s]}
       IN  IF ready = {} \/ FreeSlots = {}
           THEN UNCHANGED <<m_running_kernels, streams>>
           ELSE \E s \in ready :
                  LET k == Head(m_operations[s]) IN
                  /\ m_running_kernels' = [m_running_kernels EXCEPT ![FirstOf(FreeSlots)] = k]
                  /\ m_pending' = [m_pending EXCEPT ![s] = TRUE]
                  /\ m_grid_id_to_stream' = [x \in DOMAIN m_grid_id_to_stream \cup {k} |->
                                                IF x = k THEN s ELSE m_grid_id_to_stream[x]]
                  /\ UNCHANGED m_operations
    /\ UNCHANGED <<m_lock, objects, m_last_issued_kernel, m_executed_kernel_uids, m_finished_kernel,
                   cores, counts, turn, check, subject, g_sim_done>>
    /\ spc' = IF check /\ ~GpuActive' THEN "stop" ELSE "simulate"
-----------------------------------------------------------------------------
(* One cycle(): the cores execute, then CTAs are issued.                    *)

StartCycle ==
    /\ spc = "simulate" /\ GpuActive
    /\ spc' = "cores"
    /\ UNCHANGED <<streams, m_lock, objects, table, cores, counts, turn, check, subject, g_sim_done>>

\* A variant that tells the parent of neither the child nor the stream.
LaunchDeviceUnlinked(k) ==
    LET p == Parent[k] IN
    /\ spc = "cores" /\ p # None /\ k \notin launched
    /\ \E c \in Cores : \E i \in Contexts : m_cta_status[c][i] = p
    /\ launched' = launched \cup {k}
    /\ device_launch_op' = Append(device_launch_op, k)
    /\ UNCHANGED <<streams, m_lock, retiring, deleted, m_next_cta, m_num_cores_running, m_kernel_TB_latency,
                   m_child_kernels, m_cta_streams, table, cores, counts, control>>

\* cudaLaunchDevice in a CTA of the parent: the child is made, its stream too
\* if it is the first in it.
LaunchDevice(k) ==
    LET p == Parent[k] IN
    /\ spc = "cores" /\ p # None /\ k \notin launched
    /\ \E c \in Cores : \E i \in Contexts : m_cta_status[c][i] = p
    /\ launched' = launched \cup {k}
    /\ m_child_kernels' = [m_child_kernels EXCEPT ![p] = @ \cup {k}]
    /\ m_cta_streams' = [m_cta_streams EXCEPT ![p] = @ \cup {StreamOf[k]}]
    /\ device_launch_op' = Append(device_launch_op, k)
    /\ UNCHANGED <<streams, m_lock, retiring, deleted, m_next_cta, m_num_cores_running, m_kernel_TB_latency,
                   table, cores, counts, control>>

\* A variant that leaves the kernel in the table.
SetKernelDoneKeepsSlot(k) ==
    /\ m_finished_kernel' = Append(m_finished_kernel, k)
    /\ UNCHANGED m_running_kernels

\* set_kernel_done().
SetKernelDone(k) ==
    /\ m_finished_kernel' = Append(m_finished_kernel, k)
    /\ m_running_kernels' = [n \in Slots |-> IF m_running_kernels[n] = k THEN None ELSE m_running_kernels[n]]

\* Variants of the test that k is done: while its CTAs run, and before
\* dec_running().
OverWhileRunning(k)    == ~KernelMoreCtaLeft(k)
OverBeforeDecrement(k) == ~KernelMoreCtaLeft(k) /\ m_num_cores_running[k] = 0

\* The CTA of k that exits is its last one.
Over(k) == ~KernelMoreCtaLeft(k) /\ m_num_cores_running[k] = 1

\* The last thread of the CTA in context i of core c exits:
\* register_cta_thread_exit().
CtaExit(c, i) ==
    LET k     == m_cta_status[c][i]
        empty == Occupied(c) = {i}
    IN
    /\ spc = "cores" /\ k # None
    /\ m_cta_status' = [m_cta_status EXCEPT ![c] = [@ EXCEPT ![i] = None]]
    /\ gpu_completed_cta' = gpu_completed_cta + 1
    /\ m_num_cores_running' = [m_num_cores_running EXCEPT ![k] = @ - 1]
    /\ m_kernel' = [m_kernel EXCEPT ![c] = IF empty \/ (Over(k) /\ @ = k) THEN None ELSE @]
    /\ IF Over(k) THEN SetKernelDone(k) ELSE UNCHANGED <<m_finished_kernel, m_running_kernels>>
    /\ UNCHANGED <<streams, m_lock, launched, retiring, deleted, m_next_cta, m_kernel_TB_latency,
                   m_child_kernels, m_cta_streams, device_launch_op,
                   m_last_issued_kernel, m_executed_kernel_uids,
                   m_last_cluster_issue, m_cta_issue_next_core,
                   gpu_tot_issued_cta, m_total_cta_launched, limit, control>>
    /\ reached' = (reached \/ MaxHit')

\* gpu_sim_cycle++, which may reach a limit; issue_block2core() starts.
CoresDone ==
    /\ spc = "cores"
    /\ limit' \in {limit, CycleLimit}
    /\ turn' = [cluster |-> 0, core |-> 0, last |-> m_last_cluster_issue]
    /\ spc' = "issue"
    /\ UNCHANGED <<streams, m_lock, objects, table, cores, gpu_tot_issued_cta, m_total_cta_launched,
                   gpu_completed_cta, check, subject, g_sim_done>>
    /\ reached' = (reached \/ MaxHit')

\* select_kernel(): the kernel selected last while it has CTAs, even past the
\* limit; else the next slot in turn.
Last == m_running_kernels[m_last_issued_kernel]

\* A variant that turns to the next kernel every time.
KeepsNone == FALSE

KeepsLast == Last # None /\ ~NoMoreCtas(Last) /\ m_kernel_TB_latency[Last] = 0
InTurn(n)   == (n + m_last_issued_kernel + 1) % MaxConcurrent
Selectable(slot) == /\ KernelMoreCtaLeft(m_running_kernels[slot])
                    /\ m_kernel_TB_latency[m_running_kernels[slot]] = 0
Selected ==
    IF KeepsLast THEN {m_last_issued_kernel}
    ELSE {InTurn(n) : n \in {x \in Slots : /\ Selectable(InTurn(x))
                                           /\ \A y \in 0..(x - 1) : ~Selectable(InTurn(y))}}

\* can_issue_1block(), and the contexts issue_block2core() searches.
ContextsFor(k)   == IF ConcurrentSm THEN Contexts ELSE 1..MaxCta[k]
CanIssue1Block(c, k) == NActiveCta(c) < Cardinality(ContextsFor(k))
FreeContexts(c, k)   == {i \in ContextsFor(k) : m_cta_status[c][i] = None}

\* The core whose turn it is: <<cluster, core>>.
TurnCluster == (turn.cluster + turn.last + 1) % NClusters
TurnCore    == <<TurnCluster, (turn.core + m_cta_issue_next_core[TurnCluster] + 1) % CoresPerCluster>>

NextCluster == [turn EXCEPT !.cluster = @ + 1, !.core = 0]

\* A variant that visits one core too many.
NextCoreLate == IF turn.core = CoresPerCluster THEN NextCluster ELSE [turn EXCEPT !.core = @ + 1]

NextCore == IF turn.core + 1 = CoresPerCluster THEN NextCluster ELSE [turn EXCEPT !.core = @ + 1]

\* A variant that does not wait for the core to drain.
NeedsKernelEarly(c) == ConcurrentSm \/ ~KernelMoreCtaLeft(m_kernel[c])

\* A new kernel is sought for a core that shares, or is done with its own.
NeedsKernel(c) == ConcurrentSm \/ (~KernelMoreCtaLeft(m_kernel[c]) /\ NActiveCta(c) = 0)
KernelFor(c) ==
    IF ~NeedsKernel(c) THEN m_kernel[c]
    ELSE IF Selected = {} THEN None ELSE m_running_kernels[FirstOf(Selected)]

\* One core of simt_core_cluster::issue_block2core().
IssueBlock2Core ==
    /\ spc = "issue" /\ turn.cluster < NClusters
    /\ LET c == TurnCore
           k == KernelFor(c)
       IN  /\ IF NeedsKernel(c) /\ Selected # {}
              THEN /\ m_last_issued_kernel' = FirstOf(Selected)
                   /\ m_executed_kernel_uids' = m_executed_kernel_uids \cup {k}
                   /\ m_kernel' = IF ConcurrentSm THEN m_kernel ELSE [m_kernel EXCEPT ![c] = k]
              ELSE UNCHANGED <<m_last_issued_kernel, m_executed_kernel_uids, m_kernel>>
           /\ IF KernelMoreCtaLeft(k) /\ CanIssue1Block(c, k)
              THEN /\ m_cta_status' = [m_cta_status EXCEPT ![c] = [@ EXCEPT ![FirstOf(FreeContexts(c, k))] = k]]
                   /\ m_num_cores_running' = [m_num_cores_running EXCEPT ![k] = @ + 1]
                   /\ m_next_cta' = [m_next_cta EXCEPT ![k] = @ + 1]
                   /\ m_total_cta_launched' = m_total_cta_launched + 1
                   /\ m_cta_issue_next_core' = [m_cta_issue_next_core EXCEPT ![c[1]] = c[2]]
                   /\ m_last_cluster_issue' = c[1]
                   /\ turn' = NextCluster
              ELSE /\ turn' = NextCore
                   /\ UNCHANGED <<m_cta_status, m_num_cores_running, m_next_cta, m_total_cta_launched,
                                  m_cta_issue_next_core, m_last_cluster_issue>>
    /\ UNCHANGED <<streams, m_lock, launched, retiring, deleted, m_kernel_TB_latency, m_child_kernels,
                   m_cta_streams, device_launch_op, m_running_kernels, m_finished_kernel,
                   gpu_tot_issued_cta, gpu_completed_cta, limit, reached, spc, check, subject, g_sim_done>>

\* decrement_kernel_latency() and launch_one_device_kernel().
EndCycle ==
    /\ spc = "issue" /\ turn.cluster = NClusters
    /\ m_kernel_TB_latency' = [k \in Kernels |->
            IF m_kernel_TB_latency[k] > 0 /\ \E n \in Slots : m_running_kernels[n] = k
            THEN m_kernel_TB_latency[k] - 1 ELSE m_kernel_TB_latency[k]]
    /\ IF device_launch_op = <<>>
       THEN UNCHANGED <<m_operations, device_launch_op>>
       ELSE Accept(Head(device_launch_op)) /\ device_launch_op' = Tail(device_launch_op)
    /\ spc' = "loop" /\ turn' = NoTurn
    /\ UNCHANGED <<m_pending, m_grid_id_to_stream, m_lock, launched, retiring, deleted, m_next_cta,
                   m_num_cores_running, m_child_kernels, m_cta_streams, table, cores, counts,
                   check, subject, g_sim_done>>
-----------------------------------------------------------------------------
(* Retirement.                                                              *)

\* check_finished_kernel() takes a grid from the queue.
CheckFinishedKernel ==
    /\ spc \in {"check", "stopping"}
    /\ check' = FALSE
    /\ IF m_finished_kernel = <<>>
       THEN /\ spc' = IF m_lock THEN "stopped" ELSE "operate"
            /\ UNCHANGED <<subject, m_finished_kernel>>
       ELSE /\ subject' = Head(m_finished_kernel)
            /\ m_finished_kernel' = Tail(m_finished_kernel)
            /\ spc' = "register"
    /\ UNCHANGED <<streams, m_lock, objects, m_running_kernels, m_last_issued_kernel,
                   m_executed_kernel_uids, cores, counts, turn, g_sim_done>>

\* What follows check_finished_kernel() when it has returned b.
Registered(b) == IF ~m_lock THEN "operate" ELSE IF b THEN "stopping" ELSE "stopped"

\* The grid has no entry: operator[] makes a NULL one and front() reads it.
RegisterUnknown ==
    /\ spc = "register" /\ subject \notin DOMAIN m_grid_id_to_stream
    /\ spc' = "crash"
    /\ UNCHANGED <<streams, m_lock, objects, table, cores, counts, turn, check, subject, g_sim_done>>

\* It has finished all its CTAs, or was stopped, but is not is_finished().  When
\* a child asked, the child is deleted next.
RegisterUnfinished ==
    /\ spc = "register" /\ subject \in DOMAIN m_grid_id_to_stream /\ ~IsFinished(subject)
    /\ spc' = IF retiring = {} THEN Registered(check) ELSE "delete"
    /\ subject' = None
    /\ UNCHANGED <<streams, m_lock, objects, table, cores, counts, turn, check, g_sim_done>>

\* It is retired from its stream and tells its parent, which is registered in
\* its turn, and may be deleted, before it is itself.
RegisterFinished ==
    LET k == subject
        s == m_grid_id_to_stream[k]
        p == Parent[k]
    IN
    /\ spc = "register" /\ k \in DOMAIN m_grid_id_to_stream /\ IsFinished(k)
    /\ m_operations' = [m_operations EXCEPT ![s] = Tail(@)]
    /\ m_pending' = [m_pending EXCEPT ![s] = FALSE]
    /\ m_grid_id_to_stream' = [x \in DOMAIN m_grid_id_to_stream \ {k} |-> m_grid_id_to_stream[x]]
    /\ m_child_kernels' = IF p = None THEN m_child_kernels
                          ELSE [m_child_kernels EXCEPT ![p] = @ \ {k}]
    /\ retiring' = retiring \cup {k}
    /\ check' = TRUE /\ subject' = p
    /\ spc' = IF p = None THEN "delete" ELSE "register"
    /\ UNCHANGED <<m_lock, launched, deleted, m_next_cta, m_num_cores_running, m_kernel_TB_latency,
                   m_cta_streams, device_launch_op, table, cores, counts, turn, g_sim_done>>

\* Whether destroy_cta_streams() of k waits: destroy_stream takes m_lock and
\* waits for the stream to be empty, and nobody will release or empty it if
\* this thread waits here.
DestroyWaits(k) ==
    /\ m_cta_streams[k] # {}
    /\ m_lock \/ \E x \in m_cta_streams[k] : m_operations[x] # <<>>

\* The innermost registration under way ends: its kernel is deleted with the
\* streams it created.
DeleteKernel(k) ==
    /\ spc = "delete" /\ k \in retiring /\ Parent[k] \notin retiring
    /\ IF DestroyWaits(k)
       THEN spc' = "stuck" /\ UNCHANGED <<retiring, deleted, m_cta_streams>>
       ELSE /\ retiring' = retiring \ {k} /\ deleted' = deleted \cup {k}
            /\ m_cta_streams' = [m_cta_streams EXCEPT ![k] = {}]
            /\ spc' = IF retiring = {k} THEN Registered(TRUE) ELSE "delete"
    /\ UNCHANGED <<streams, m_lock, launched, m_next_cta, m_num_cores_running, m_kernel_TB_latency,
                   m_child_kernels, device_launch_op, table, cores, counts, turn, check, subject, g_sim_done>>
-----------------------------------------------------------------------------
(* The rest of the simulation loop.                                         *)

NoCycle ==
    /\ spc = "simulate" /\ ~GpuActive /\ ~MaxHit
    /\ spc' = "loop"
    /\ UNCHANGED <<streams, m_lock, objects, table, cores, counts, turn, check, subject, g_sim_done>>

\* stream_manager::stop_all_running_kernels() takes the mutex.
StopAllRunningKernels ==
    /\ spc = "simulate" /\ ~GpuActive /\ MaxHit
    /\ m_lock' = TRUE
    /\ spc' = "halting"
    /\ UNCHANGED <<streams, objects, table, cores, counts, turn, check, subject, g_sim_done>>

\* gpgpu_sim::stop_all_running_kernels(), the table's next kernel: then the
\* loop over check_finished_kernel().
StopRunningKernel ==
    LET left == {n \in Slots : m_running_kernels[n] # None} IN
    /\ spc = "halting"
    /\ IF left = {}
       THEN spc' = "stopping" /\ UNCHANGED <<m_finished_kernel, m_running_kernels>>
       ELSE SetKernelDone(m_running_kernels[FirstOf(left)]) /\ UNCHANGED spc
    /\ UNCHANGED <<streams, m_lock, objects, m_last_issued_kernel, m_executed_kernel_uids, cores, counts,
                   turn, check, subject, g_sim_done>>

\* A variant that does not end the simulation.
StoppedGoesOn ==
    /\ spc = "stopped"
    /\ m_lock' = FALSE
    /\ spc' = "loop"
    /\ UNCHANGED <<streams, objects, table, cores, counts, turn, check, subject, g_sim_done>>

Stopped ==
    /\ spc = "stopped"
    /\ m_lock' = FALSE /\ g_sim_done' = TRUE
    /\ spc' = "loop"
    /\ UNCHANGED <<streams, objects, table, cores, counts, turn, check, subject>>

LoopTest ==
    /\ spc = "loop"
    /\ spc' = IF (GpuActive \/ ~AllEmpty) /\ ~g_sim_done THEN "check" ELSE "stop"
    /\ UNCHANGED <<streams, m_lock, objects, table, cores, counts, turn, check, subject, g_sim_done>>

\* print_stats(), update_stats() and the outer loop; exit(1) after a limit.
UpdateStats ==
    /\ spc = "stop"
    /\ m_executed_kernel_uids' = {}
    /\ gpu_tot_issued_cta' = gpu_tot_issued_cta + m_total_cta_launched
    /\ m_total_cta_launched' = 0 /\ gpu_completed_cta' = 0
    /\ spc' = IF g_sim_done THEN "dead" ELSE "detect"
    /\ UNCHANGED <<streams, m_lock, objects, m_running_kernels, m_last_issued_kernel, m_finished_kernel,
                   cores, limit, turn, check, subject, g_sim_done>>
    /\ reached' = (reached \/ MaxHit')

Cycle == StartCycle \/ CoresDone \/ IssueBlock2Core \/ EndCycle

Retire == \/ CheckFinishedKernel \/ RegisterUnknown \/ RegisterUnfinished \/ RegisterFinished
          \/ \E k \in Kernels : DeleteKernel(k)

SimStep ==
    \/ DetectWork \/ Operate \/ Cycle \/ Retire \/ NoCycle
    \/ StopAllRunningKernels \/ StopRunningKernel \/ Stopped \/ LoopTest \/ UpdateStats

SomeCtaExits == \E c \in Cores : \E i \in Contexts : CtaExit(c, i)

Next == (\E k \in Kernels : HostLaunch(k) \/ LaunchDevice(k)) \/ SomeCtaExits \/ SimStep

Spec == Init /\ [][Next]_vars

\* The simulation thread is not preempted forever, and CTAs that are clocked
\* again and again end: one of them, at least.
Fairness ==
    /\ WF_vars(SimStep)
    /\ SF_vars(SomeCtaExits)

FairSpec == Spec /\ Fairness
-----------------------------------------------------------------------------
(* Properties.                                                              *)

Running  == {m_running_kernels[n] : n \in Slots} \ {None}
Finished == {m_finished_kernel[i] : i \in 1..Len(m_finished_kernel)}
OnCores  == UNION {{m_cta_status[c][i] : i \in Occupied(c)} : c \in Cores}

\* Every variable stays in its domain.
TypeOK ==
    /\ m_operations \in [Streams -> Seq(Kernels)] /\ m_pending \in [Streams -> BOOLEAN]
    /\ DOMAIN m_grid_id_to_stream \subseteq Kernels
    /\ \A k \in DOMAIN m_grid_id_to_stream : m_grid_id_to_stream[k] \in Streams
    /\ m_lock \in BOOLEAN
    /\ launched \subseteq Kernels /\ retiring \subseteq Kernels /\ deleted \subseteq Kernels
    /\ m_next_cta \in [Kernels -> Nat] /\ m_num_cores_running \in [Kernels -> Nat]
    /\ m_kernel_TB_latency \in [Kernels -> Nat]
    /\ m_child_kernels \in [Kernels -> SUBSET Kernels] /\ m_cta_streams \in [Kernels -> SUBSET Streams]
    /\ device_launch_op \in Seq(Kernels)
    /\ m_running_kernels \in [Slots -> Kernels \cup {None}] /\ m_last_issued_kernel \in Slots
    /\ m_executed_kernel_uids \subseteq Kernels /\ m_finished_kernel \in Seq(Kernels)
    /\ m_kernel \in [Cores -> Kernels \cup {None}]
    /\ m_cta_status \in [Cores -> [Contexts -> Kernels \cup {None}]]
    /\ m_last_cluster_issue \in Clusters
    /\ m_cta_issue_next_core \in [Clusters -> 0..(CoresPerCluster - 1)]
    /\ gpu_tot_issued_cta \in Nat /\ m_total_cta_launched \in Nat /\ gpu_completed_cta \in Nat
    /\ limit \in BOOLEAN /\ reached \in BOOLEAN
    /\ spc \in {"detect", "check", "register", "delete", "operate", "simulate", "cores", "issue", "loop",
                "halting", "stopping", "stopped", "stop", "dead", "crash", "stuck"}
    /\ turn \in [cluster : 0..NClusters, core : 0..(CoresPerCluster - 1), last : Clusters]
    /\ check \in BOOLEAN /\ subject \in Kernels \cup {None} /\ g_sim_done \in BOOLEAN

\* Unless cores are shared, the CTAs on a core belong to the kernel it is bound
\* to: the core takes another kernel only when it is empty, whichever kernels
\* finish, are stopped or are replaced in the table meanwhile.  The hardware
\* threads of a CTA are computed from its context's number and its kernel's CTA
\* size (gpu-sim.cc:1740-1742), so two kernels would overlap.
OneKernelPerCore ==
    ~ConcurrentSm => \A c \in Cores : \A i \in Occupied(c) : m_cta_status[c][i] = m_kernel[c]

\* A kernel with a CTA on a core, and one a core is bound to, is in the table of
\* running kernels until a limit stops it and is never deleted: cores keep
\* plain pointers to it (shader.cc:2685-2738).
CoresHoldLiveKernels ==
    LET held == OnCores \cup ({m_kernel[c] : c \in Cores} \ {None})
    IN  held \cap deleted = {} /\ (held \subseteq Running \/ reached \/ HitMaxCta)

\* select_kernel() leaves a kernel only when all its CTAs are issued: a kernel
\* it turns to was not selected before (the assertion of gpu-sim.cc:833-835).
SelectsUnexecuted ==
    (spc = "issue" /\ ~KeepsLast /\ Selected # {})
        => m_running_kernels[FirstOf(Selected)] \notin m_executed_kernel_uids

\* No kernel in the table is done: launch() may overwrite such a slot, and its
\* kernel would never be queued as finished (gpu-sim.cc:757-763).
TableHoldsNoDone == \A k \in Running : ~Done(k)

\* Until a child has notified it, a parent is neither deleted nor about to be:
\* it stays registered as running, though its CTAs may all have exited, and
\* keeps the stream the child waits or runs in.  register_finished_kernel() and
\* notify_parent_finished() follow plain pointers to both
\* (stream_manager.cc:271-289, abstract_hardware_model.cc:849-857).  The child's
\* own kernel_info_t goes after its parent's, and no kernel is deleted twice.
ParentsAwaitChildren ==
    /\ \A k \in launched \ (retiring \cup deleted) : Parent[k] # None =>
          /\ Parent[k] \notin retiring \cup deleted
          /\ Parent[k] \in DOMAIN m_grid_id_to_stream
          /\ StreamOf[k] \in m_cta_streams[Parent[k]]
    /\ retiring \cap deleted = {}

\* The grid a uid in the queue of finished grids names has an entry
\* (stream_manager.cc:270-272).
FinishedGridsKnown == spc # "crash"

\* The simulation thread never waits for a stream that only it can empty, or
\* for the mutex it holds.
NeverWaitsForItself == spc # "stuck"

\* A kernel that was accepted is retired, however CTAs of several kernels
\* interleave on the cores, unless the simulation ends.
AcceptedKernelsRetire ==
    \A k \in Kernels :
        (\E s \in Streams : \E i \in 1..Len(m_operations[s]) : m_operations[s][i] = k)
            ~> (k \in deleted \/ ~Alive)

\* Once a limit that "terminates gpu simulation early" is reached
\* (gpu-sim.cc:614-622), no further cycle is simulated.
NoCycleAfterLimit == [][reached => ~(spc = "simulate" /\ spc' = "cores")]_vars

\* A limit ends the simulation, or what it left undone is nothing.
LimitEndsSimulation == (HitMaxCta \/ MaxHit) ~> (spc = "dead" \/ AllEmpty)
=============================================================================
