--------------------------- MODULE StreamManager ---------------------------
(***************************************************************************)
(* The CUDA front end of GPGPU-Sim: host threads that make CUDA runtime    *)
(* calls (libcuda/cuda_runtime_api.cc), the stream manager their           *)
(* operations queue in (src/stream_manager.cc), and the simulation thread  *)
(* that takes operations from the queues and clocks the GPU                *)
(* (gpgpu_sim_thread_concurrent, src/gpgpusim_entrypoint.cc).              *)
(*                                                                         *)
(* The GPU is abstracted to its running-kernel table, its queue of         *)
(* finished kernels and active(); module KernelManager opens it.  What a   *)
(* pthread mutex protects is one step; the code that walks the list of     *)
(* streams without m_lock takes one step per stream.                       *)
(***************************************************************************)
EXTENDS Naturals, Sequences, FiniteSets

CONSTANTS
    Hosts,          \* host threads of the CUDA program
    Streams,        \* handles cudaStreamCreate can return
    Zero,           \* m_stream_zero
    None,           \* a NULL stream, no event, the end() of m_streams
    Events,         \* handles cudaEventCreate returned
    StreamsOf,      \* [Hosts -> SUBSET Streams]: the streams a host creates and uses
    RecordedOn,     \* [Events -> SUBSET (Streams \cup {None})]: where records of an event go
    Calls,          \* the runtime calls the hosts make
    MaxCalls,       \* bound: how many operations the hosts ask for
    MaxRunning,     \* -gpgpu_max_concurrent_kernel
    LaunchLatency,  \* m_launch_latency of a new kernel
    LaunchBlocking, \* CUDA_LAUNCH_BLOCKING
    Limits          \* whether -gpgpu_max_cycle or -gpgpu_max_insn is set

ASSUME StreamManagerAssumption ==
    /\ None \notin Streams \cup Events /\ Zero \notin Streams \cup {None}
    /\ StreamsOf \in [Hosts -> SUBSET Streams]
    /\ RecordedOn \in [Events -> SUBSET (Streams \cup {None})]
    /\ MaxCalls \in Nat /\ LaunchLatency \in Nat
    /\ MaxRunning \in Nat \ {0}
    /\ LaunchBlocking \in BOOLEAN /\ Limits \in BOOLEAN

VARIABLES
    m_streams,     \* list of created streams, in order of creation
    m_last_stream, \* iterator into m_streams; None is end()
    m_operations,  \* the operations of each stream
    m_pending,     \* the front operation of a stream has started
    m_grid_id_to_stream, \* map from grid uid to stream
    m_lock,        \* holder of the manager's mutex across steps, or None
    created,       \* streams ever created
    running,       \* grids in m_running_kernels
    m_finished_kernel,   \* grid uids set_kernel_done has queued
    draining,      \* memory traffic is left after the last kernel
    limit_hit,     \* cycle_insn_cta_max_hit()
    issued,        \* m_issued of each event
    updates,       \* m_updates of each event
    spc,           \* control point of the simulation thread
    check,         \* what check_finished_kernel returned in operation()
    g_sim_active, g_sim_done, break_limit,
    g_sim_signal_exit,   \* the semaphore, 0 or 1
    hpc,           \* control point of each host
    arg,           \* the operation and stream of a host's call
    walk,          \* iterator of a host's empty()
    walkall,       \* iterator of pushCudaStreamWaitEventToAllStreams
    nops,          \* operations accepted so far; numbers them
    ncalls,        \* calls that push made so far
    recorded,      \* history: which records of an event have executed
    due            \* history: operations a blocking call must wait for

manager == <<m_streams, m_last_stream, m_pending, m_grid_id_to_stream, m_lock, created>>
gpu     == <<running, m_finished_kernel, draining, limit_hit>>
events  == <<issued, updates, recorded>>
sim     == <<spc, check, g_sim_active, g_sim_done, break_limit, g_sim_signal_exit>>
host    == <<hpc, arg, walk, walkall, ncalls, due>>
vars    == <<manager, m_operations, nops, gpu, events, sim, host>>

AllStreams == Streams \cup {Zero}
Live       == {m_streams[i] : i \in 1..Len(m_streams)}

\* An operation: id is the kernel's uid (any number for the other types,
\* a uid is only ever compared for equality), event and cnt are m_event and
\* m_cnt (for a record, which issue of the event it is), latency is
\* m_kernel->m_launch_latency.
Op(type, event, cnt) ==
    [id |-> 0, type |-> type, event |-> event, cnt |-> cnt,
     latency |-> IF type = "kernel" THEN LaunchLatency ELSE 0]
Call(op, s) == [op |-> op, stream |-> s]
NoOp  == Op("noop", None, 0)
NoArg == Call(NoOp, None)

\* The same operation with another uid or latency.
Stamp(op, id, latency) ==
    [id |-> id, type |-> op.type, event |-> op.event, cnt |-> op.cnt, latency |-> latency]

Outstanding == UNION {{m_operations[s][i].id : i \in 1..Len(m_operations[s])} : s \in AllStreams}

Init ==
    /\ m_streams = <<>> /\ m_last_stream = None
    /\ m_operations = [s \in AllStreams |-> <<>>]
    /\ m_pending = [s \in AllStreams |-> FALSE]
    /\ m_grid_id_to_stream = <<>> /\ m_lock = None /\ created = {}
    /\ running = {} /\ m_finished_kernel = <<>>
    /\ draining = FALSE /\ limit_hit = FALSE
    /\ issued = [e \in Events |-> 0] /\ updates = [e \in Events |-> 0]
    /\ recorded = [e \in Events |-> {}]
    /\ spc = "detect" /\ check = FALSE
    /\ g_sim_active = FALSE /\ g_sim_done = FALSE
    /\ break_limit = FALSE /\ g_sim_signal_exit = 0
    /\ hpc = [h \in Hosts |-> "idle"] /\ arg = [h \in Hosts |-> NoArg]
    /\ walk = [h \in Hosts |-> Zero] /\ walkall = [h \in Hosts |-> None]
    /\ nops = 0 /\ ncalls = 0 /\ due = [h \in Hosts |-> {}]

-----------------------------------------------------------------------------
(* Walking m_streams: concurrent_streams_empty(), then m_stream_zero.       *)

First == IF m_streams = <<>> THEN Zero ELSE Head(m_streams)

\* Where ++s may lead.  An iterator to an element that destroy_stream has
\* erased since is dangling: the walk goes on anywhere.
After(s) ==
    IF s \in Live
    THEN {IF m_streams[Len(m_streams)] = s THEN Zero
          ELSE m_streams[(CHOOSE i \in 1..Len(m_streams) : m_streams[i] = s) + 1]}
    ELSE Live \cup {Zero}

ConcurrentStreamsEmpty == \A s \in Live : m_operations[s] = <<>>
AllEmpty == ConcurrentStreamsEmpty /\ m_operations[Zero] = <<>>

LockFree    == m_lock = None
\* synchronize() holds g_sim_lock while it walks the streams.
SimLockFree == \A h \in Hosts : hpc[h] # "syncwalk"
Alive       == spc # "dead"
-----------------------------------------------------------------------------
(* Host threads.                                                            *)

Idle(h, call) == Alive /\ hpc[h] = "idle" /\ call \in Calls

StreamCreate(h) ==
    /\ Idle(h, "create") /\ LockFree
    /\ \E s \in StreamsOf[h] \ created :
          /\ created' = created \cup {s}
          /\ m_streams' = Append(m_streams, s)
    /\ UNCHANGED <<m_last_stream, m_pending, m_grid_id_to_stream, m_lock,
                   m_operations, nops, gpu, events, sim, host>>

\* push(op) is entered: with a NULL stream, or when launches block, the host
\* first waits for the concurrent streams.
Blocks(s) == s = None \/ LaunchBlocking
Push(h, s, op) ==
    /\ arg' = [arg EXCEPT ![h] = Call(op, s)]
    /\ hpc' = [hpc EXCEPT ![h] = IF Blocks(s) THEN "block" ELSE "enqueue"]

\* The streams host h may name: its own live streams and the NULL stream.
Targets(h) == (StreamsOf[h] \cap Live) \cup {None}

\* cudaMemcpy*, cudaMemcpy*Async and cudaLaunch*.
LaunchOrCopy(h, type) ==
    /\ Idle(h, type) /\ ncalls < MaxCalls
    /\ \E s \in Targets(h) : Push(h, s, Op(type, None, 0))
    /\ ncalls' = ncalls + 1
    /\ UNCHANGED <<manager, m_operations, nops, gpu, events, sim, walk, walkall, due>>

EventRecord(h) ==
    /\ Idle(h, "record") /\ ncalls < MaxCalls
    /\ \E e \in Events : \E s \in Targets(h) \cap RecordedOn[e] :
          /\ issued' = [issued EXCEPT ![e] = @ + 1]
          /\ Push(h, s, Op("event", e, issued[e] + 1))
    /\ ncalls' = ncalls + 1
    /\ UNCHANGED <<manager, m_operations, nops, gpu, updates, recorded, sim, walk, walkall, due>>

StreamWaitEvent(h) ==
    /\ Idle(h, "wait") /\ ncalls < MaxCalls
    /\ \E e \in {x \in Events : issued[x] > 0} :
          \E s \in Targets(h) \ {None} : Push(h, s, Op("wait", e, issued[e]))
    /\ ncalls' = ncalls + 1
    /\ UNCHANGED <<manager, m_operations, nops, gpu, events, sim, walk, walkall, due>>

\* cudaStreamWaitEvent(NULL, e): pushCudaStreamWaitEventToAllStreams, which
\* walks m_streams without m_lock and builds one operation per stream.
WaitAll(h) ==
    /\ Idle(h, "waitall") /\ ncalls < MaxCalls
    /\ \E e \in {x \in Events : issued[x] > 0} :
          arg' = [arg EXCEPT ![h] = Call(Op("wait", e, issued[e]), None)]
    /\ hpc' = [hpc EXCEPT ![h] = "pushall"]
    /\ walkall' = [walkall EXCEPT ![h] = First]
    /\ ncalls' = ncalls + 1
    /\ UNCHANGED <<manager, m_operations, nops, gpu, events, sim, walk, due>>

PushAllStep(h) ==
    /\ Alive /\ hpc[h] = "pushall"
    /\ IF walkall[h] = Zero
       THEN /\ hpc' = [hpc EXCEPT ![h] = "idle"]
            /\ arg' = [arg EXCEPT ![h] = NoArg]
            /\ walkall' = [walkall EXCEPT ![h] = None]
       ELSE /\ LET e == arg[h].op.event
               IN  Push(h, walkall[h], Op("wait", e, issued[e]))
            /\ UNCHANGED walkall
    /\ UNCHANGED <<manager, m_operations, nops, gpu, events, sim, walk, ncalls, due>>

\* A variant that does not look at the concurrent streams.
BlockEndsAtOnce(h) ==
    /\ Alive /\ hpc[h] = "block" /\ LockFree
    /\ hpc' = [hpc EXCEPT ![h] = "enqueue"]
    /\ UNCHANGED <<manager, m_operations, nops, gpu, events, sim, arg, walk, walkall, ncalls, due>>

BlockEnds(h) ==
    /\ Alive /\ hpc[h] = "block" /\ LockFree /\ ConcurrentStreamsEmpty
    /\ hpc' = [hpc EXCEPT ![h] = "enqueue"]
    /\ UNCHANGED <<manager, m_operations, nops, gpu, events, sim, arg, walk, walkall, ncalls, due>>

\* push returns to the caller: to the loop over all streams, or to the program.
Returns(h) ==
    \/ /\ walkall[h] = None
       /\ hpc' = [hpc EXCEPT ![h] = "idle"]
       /\ arg' = [arg EXCEPT ![h] = NoArg]
       /\ UNCHANGED walkall
    \/ /\ walkall[h] # None
       /\ hpc' = [hpc EXCEPT ![h] = "pushall"]
       /\ \E s \in After(walkall[h]) : walkall' = [walkall EXCEPT ![h] = s]
       /\ UNCHANGED arg

\* The queue push appends to, and the operation as it is queued.
Queue(h)  == IF Blocks(arg[h].stream) THEN Zero ELSE arg[h].stream
Queued(h) == Stamp(arg[h].op, nops + 1, arg[h].op.latency)

Enqueue(h) ==
    /\ Alive /\ hpc[h] = "enqueue" /\ LockFree
    /\ IF limit_hit
       THEN UNCHANGED <<m_operations, nops>>
       ELSE /\ m_operations' = [m_operations EXCEPT ![Queue(h)] = Append(@, Queued(h))]
            /\ nops' = nops + 1
    /\ IF Blocks(arg[h].stream)
       THEN /\ hpc' = [hpc EXCEPT ![h] = "drain"]
            /\ walk' = [walk EXCEPT ![h] = First]
            /\ due' = [due EXCEPT ![h] = Outstanding']
            /\ UNCHANGED <<arg, walkall>>
       ELSE Returns(h) /\ UNCHANGED <<walk, due>>
    /\ UNCHANGED <<manager, gpu, events, sim, ncalls>>

\* while (!empty()) usleep(..): one stream of the walk.
Drain(h) ==
    /\ Alive /\ hpc[h] = "drain"
    /\ \/ /\ m_operations[walk[h]] # <<>>
          /\ walk' = [walk EXCEPT ![h] = First]
          /\ UNCHANGED <<hpc, arg, walkall, due>>
       \/ /\ m_operations[walk[h]] = <<>> /\ walk[h] # Zero
          /\ \E s \in After(walk[h]) : walk' = [walk EXCEPT ![h] = s]
          /\ UNCHANGED <<hpc, arg, walkall, due>>
       \/ /\ m_operations[walk[h]] = <<>> /\ walk[h] = Zero
          /\ due' = [due EXCEPT ![h] = {}]
          /\ Returns(h) /\ UNCHANGED walk
    /\ UNCHANGED <<manager, m_operations, nops, gpu, events, sim, ncalls>>

\* cudaDeviceSynchronize, cudaThreadSynchronize, cudaStreamSynchronize(NULL).
Synchronize(h) ==
    /\ Idle(h, "sync")
    /\ hpc' = [hpc EXCEPT ![h] = "sync"]
    /\ due' = [due EXCEPT ![h] = Outstanding]
    /\ UNCHANGED <<manager, m_operations, nops, gpu, events, sim, arg, walk, walkall, ncalls>>

SyncLock(h) ==
    /\ Alive /\ hpc[h] = "sync" /\ SimLockFree
    /\ hpc' = [hpc EXCEPT ![h] = "syncwalk"]
    /\ walk' = [walk EXCEPT ![h] = First]
    /\ UNCHANGED <<manager, m_operations, nops, gpu, events, sim, arg, walkall, ncalls, due>>

\* A variant that forgets stream zero.
SyncWalkWithoutZero(h) ==
    /\ Alive /\ hpc[h] = "syncwalk"
    /\ LET found == walk[h] # Zero /\ m_operations[walk[h]] # <<>>
           done  == (~found /\ ~g_sim_active) \/ g_sim_done
       IN  \/ /\ ~found /\ walk[h] # Zero
              /\ \E s \in After(walk[h]) : walk' = [walk EXCEPT ![h] = s]
              /\ UNCHANGED <<hpc, due>>
           \/ /\ found \/ walk[h] = Zero
              /\ hpc' = [hpc EXCEPT ![h] = IF done THEN "idle" ELSE "sync"]
              /\ due' = [due EXCEPT ![h] = IF done THEN {} ELSE @]
              /\ UNCHANGED walk
    /\ UNCHANGED <<manager, m_operations, nops, gpu, events, sim, arg, walkall, ncalls>>

\* A variant whose empty() looks at the first stream only.
SyncWalkFirstOnly(h) ==
    /\ Alive /\ hpc[h] = "syncwalk"
    /\ LET done == (m_operations[walk[h]] = <<>> /\ ~g_sim_active) \/ g_sim_done
       IN  /\ hpc' = [hpc EXCEPT ![h] = IF done THEN "idle" ELSE "sync"]
           /\ due' = [due EXCEPT ![h] = IF done THEN {} ELSE @]
    /\ UNCHANGED <<manager, m_operations, nops, gpu, events, sim, arg, walk, walkall, ncalls>>

\* One stream of empty(), and after the last one the rest of the condition.
SyncWalk(h) ==
    /\ Alive /\ hpc[h] = "syncwalk"
    /\ LET found == m_operations[walk[h]] # <<>>
           done  == (~found /\ ~g_sim_active) \/ g_sim_done
       IN  \/ /\ ~found /\ walk[h] # Zero
              /\ \E s \in After(walk[h]) : walk' = [walk EXCEPT ![h] = s]
              /\ UNCHANGED <<hpc, due>>
           \/ /\ found \/ walk[h] = Zero
              /\ hpc' = [hpc EXCEPT ![h] = IF done THEN "idle" ELSE "sync"]
              /\ due' = [due EXCEPT ![h] = IF done THEN {} ELSE @]
              /\ UNCHANGED walk
    /\ UNCHANGED <<manager, m_operations, nops, gpu, events, sim, arg, walkall, ncalls>>

EventSynchronize(h) ==
    /\ Idle(h, "eventsync")
    /\ \E e \in Events : arg' = [arg EXCEPT ![h] = Call(Op("noop", e, 0), None)]
    /\ hpc' = [hpc EXCEPT ![h] = "eventsync"]
    /\ UNCHANGED <<manager, m_operations, nops, gpu, events, sim, walk, walkall, ncalls, due>>

EventDone(h) ==
    /\ Alive /\ hpc[h] = "eventsync"
    /\ updates[arg[h].op.event] = issued[arg[h].op.event]
    /\ hpc' = [hpc EXCEPT ![h] = "idle"]
    /\ arg' = [arg EXCEPT ![h] = NoArg]
    /\ UNCHANGED <<manager, m_operations, nops, gpu, events, sim, walk, walkall, ncalls, due>>

\* cudaStreamSynchronize of a created stream returns success where it stands:
\* the call of stream->synchronize() comes after the return.
SynchronizeStream(h) ==
    /\ Idle(h, "syncstream")
    /\ \E s \in StreamsOf[h] \cap Live :
          due' = [due EXCEPT ![h] = {m_operations[s][i].id : i \in 1..Len(m_operations[s])}]
    /\ hpc' = [hpc EXCEPT ![h] = "streamreturn"]
    /\ UNCHANGED <<manager, m_operations, nops, gpu, events, sim, arg, walk, walkall, ncalls>>

StreamReturn(h) ==
    /\ Alive /\ hpc[h] = "streamreturn"
    /\ hpc' = [hpc EXCEPT ![h] = "idle"]
    /\ due' = [due EXCEPT ![h] = {}]
    /\ UNCHANGED <<manager, m_operations, nops, gpu, events, sim, arg, walk, walkall, ncalls>>

\* cudaStreamDestroy: stream->synchronize(), then destroy_stream, which takes
\* m_lock, spins until the stream is empty, and erases it.
StreamDestroy(h) ==
    /\ Idle(h, "destroy")
    /\ \E s \in StreamsOf[h] \cap Live : arg' = [arg EXCEPT ![h] = Call(NoOp, s)]
    /\ hpc' = [hpc EXCEPT ![h] = "streamsync"]
    /\ UNCHANGED <<manager, m_operations, nops, gpu, events, sim, walk, walkall, ncalls, due>>

\* A variant of cudaStreamDestroy without stream->synchronize().
StreamNotSynchronized(h) ==
    /\ Alive /\ hpc[h] = "streamsync"
    /\ hpc' = [hpc EXCEPT ![h] = "destroy"]
    /\ UNCHANGED <<manager, m_operations, nops, gpu, events, sim, arg, walk, walkall, ncalls, due>>

StreamSynchronized(h) ==
    /\ Alive /\ hpc[h] = "streamsync" /\ m_operations[arg[h].stream] = <<>>
    /\ hpc' = [hpc EXCEPT ![h] = "destroy"]
    /\ UNCHANGED <<manager, m_operations, nops, gpu, events, sim, arg, walk, walkall, ncalls, due>>

DestroyLock(h) ==
    /\ Alive /\ hpc[h] = "destroy" /\ LockFree
    /\ m_lock' = h
    /\ hpc' = [hpc EXCEPT ![h] = "spin"]
    /\ UNCHANGED <<m_streams, m_last_stream, m_pending, m_grid_id_to_stream, created,
                   m_operations, nops, gpu, events, sim, arg, walk, walkall, ncalls, due>>

Erase(s) ==
    \E i \in 1..Len(m_streams) :
       /\ m_streams[i] = s
       /\ m_streams' = SubSeq(m_streams, 1, i - 1) \o SubSeq(m_streams, i + 1, Len(m_streams))

\* A variant that does not reset m_last_stream.
DestroyEraseKeepsIterator(h) ==
    /\ Alive /\ hpc[h] = "spin" /\ m_operations[arg[h].stream] = <<>>
    /\ Erase(arg[h].stream)
    /\ m_lock' = None
    /\ hpc' = [hpc EXCEPT ![h] = "idle"]
    /\ arg' = [arg EXCEPT ![h] = NoArg]
    /\ UNCHANGED <<m_last_stream, m_pending, m_grid_id_to_stream, created, m_operations, nops,
                   gpu, events, sim, walk, walkall, ncalls, due>>

DestroyErase(h) ==
    /\ Alive /\ hpc[h] = "spin" /\ m_operations[arg[h].stream] = <<>>
    /\ Erase(arg[h].stream)
    /\ m_last_stream' = IF m_streams' = <<>> THEN None ELSE Head(m_streams')
    /\ m_lock' = None
    /\ hpc' = [hpc EXCEPT ![h] = "idle"]
    /\ arg' = [arg EXCEPT ![h] = NoArg]
    /\ UNCHANGED <<m_pending, m_grid_id_to_stream, created, m_operations, nops,
                   gpu, events, sim, walk, walkall, ncalls, due>>

\* cudaThreadExit: exit_simulation().  The model's host makes no call after it.
ThreadExit(h) ==
    /\ Idle(h, "exit")
    /\ g_sim_done' = TRUE
    /\ hpc' = [hpc EXCEPT ![h] = "waitexit"]
    /\ UNCHANGED <<manager, m_operations, nops, gpu, events, arg, walk, walkall, ncalls, due,
                   spc, check, g_sim_active, break_limit, g_sim_signal_exit>>

ExitSignaled(h) ==
    /\ Alive /\ hpc[h] = "waitexit" /\ g_sim_signal_exit > 0
    /\ g_sim_signal_exit' = g_sim_signal_exit - 1
    /\ hpc' = [hpc EXCEPT ![h] = "gone"]
    /\ UNCHANGED <<manager, m_operations, nops, gpu, events, arg, walk, walkall, ncalls, due,
                   spc, check, g_sim_active, g_sim_done, break_limit>>
-----------------------------------------------------------------------------
(* The GPU as the simulation thread sees it.                                *)

GpuActive == ~limit_hit /\ (running # {} \/ draining)

\* set_kernel_done for the kernels that complete in this cycle, in the order
\* the cores report them.
Orders(D) == {q \in [1..Cardinality(D) -> D] : \A i, j \in 1..Cardinality(D) : q[i] = q[j] => i = j}

-----------------------------------------------------------------------------
(* The simulation thread.                                                   *)

\* while (empty_protected() && !g_sim_done);
DetectWork ==
    /\ spc = "detect"
    /\ g_sim_done \/ (LockFree /\ ~AllEmpty)
    /\ spc' = "activate"
    /\ UNCHANGED <<manager, m_operations, nops, gpu, events, host,
                   check, g_sim_active, g_sim_done, break_limit, g_sim_signal_exit>>

Activate ==
    /\ spc = "activate" /\ SimLockFree
    /\ g_sim_active' = TRUE
    /\ spc' = "check"
    /\ UNCHANGED <<manager, m_operations, nops, gpu, events, host,
                   check, g_sim_done, break_limit, g_sim_signal_exit>>

RemoveGrid(k) == [x \in DOMAIN m_grid_id_to_stream \ {k} |-> m_grid_id_to_stream[x]]

\* operation() starts with check_finished_kernel(), which does not take m_lock.
CheckFinishedKernel ==
    /\ spc = "check"
    /\ check' = (m_finished_kernel # <<>>)
    /\ IF m_finished_kernel = <<>>
       THEN UNCHANGED <<m_operations, m_pending, m_grid_id_to_stream, m_finished_kernel>>
       ELSE LET k == Head(m_finished_kernel)
                s == m_grid_id_to_stream[k]
            IN  /\ m_operations' = [m_operations EXCEPT ![s] = Tail(@)]
                /\ m_pending' = [m_pending EXCEPT ![s] = FALSE]
                /\ m_grid_id_to_stream' = RemoveGrid(k)
                /\ m_finished_kernel' = Tail(m_finished_kernel)
    /\ spc' = "operate"
    /\ UNCHANGED <<m_streams, m_last_stream, m_lock, created, nops, running, draining, limit_hit,
                   events, host, g_sim_active, g_sim_done, break_limit, g_sim_signal_exit>>

\* The order in which front() looks at the concurrent streams.
Rotation ==
    LET n    == Len(m_streams)
        last == IF \E i \in 1..n : m_streams[i] = m_last_stream
                THEN CHOOSE i \in 1..n : m_streams[i] = m_last_stream ELSE 0
    IN  [i \in 1..n |-> m_streams[((last + i - 1) % n) + 1]]

\* A variant of the test of front() that forgets busy().
ReadyThoughBusy(s) == m_operations[s] # <<>>

Ready(s) == m_operations[s] # <<>> /\ ~m_pending[s]

\* front() returns the front operation of s.
Selects(s) ==
    IF Ready(Zero) THEN s = Zero
    ELSE \E i \in 1..Len(Rotation) :
            /\ s = Rotation[i] /\ Ready(s)
            /\ \A j \in 1..(i - 1) : ~Ready(Rotation[j])

NothingReady == \A s \in Live \cup {Zero} : ~Ready(s)

\* A variant of record_next_done that pops the wrong end.
PopBack(s) == m_operations' = [m_operations EXCEPT ![s] = SubSeq(@, 1, Len(@) - 1)]

PopFront(s) == m_operations' = [m_operations EXCEPT ![s] = Tail(@)]

\* do_operation() on the front operation of s.  When it returns FALSE,
\* operation() cancels: m_pending and the map are as before front().
DoCopy(s) ==
    /\ Head(m_operations[s]).type = "memcpy"
    /\ PopFront(s)
    /\ UNCHANGED <<m_pending, m_grid_id_to_stream, running, events>>

DoEvent(s) ==
    /\ Head(m_operations[s]).type = "event"
    /\ PopFront(s)
    /\ LET op == Head(m_operations[s])
       IN  /\ updates' = [updates EXCEPT ![op.event] = @ + 1]
           /\ recorded' = [recorded EXCEPT ![op.event] = @ \cup {op.cnt}]
    /\ UNCHANGED <<m_pending, m_grid_id_to_stream, running, issued>>

\* Variants with the comparison off by one, either way.
DoWaitEarly(s) ==
    /\ Head(m_operations[s]).type = "wait"
    /\ LET op == Head(m_operations[s])
       IN  IF updates[op.event] + 1 >= op.cnt THEN PopFront(s) ELSE UNCHANGED m_operations
    /\ UNCHANGED <<m_pending, m_grid_id_to_stream, running, events>>
DoWaitLate(s) ==
    /\ Head(m_operations[s]).type = "wait"
    /\ LET op == Head(m_operations[s])
       IN  IF updates[op.event] > op.cnt THEN PopFront(s) ELSE UNCHANGED m_operations
    /\ UNCHANGED <<m_pending, m_grid_id_to_stream, running, events>>

DoWait(s) ==
    /\ Head(m_operations[s]).type = "wait"
    /\ LET op == Head(m_operations[s])
       IN  IF updates[op.event] >= op.cnt THEN PopFront(s) ELSE UNCHANGED m_operations
    /\ UNCHANGED <<m_pending, m_grid_id_to_stream, running, events>>

CanStartKernel == Cardinality(running) < MaxRunning

\* A variant that decrements the launch latency without looking at it.
DoKernelDecrements(s) ==
    LET op == Head(m_operations[s]) IN
    /\ op.type = "kernel"
    /\ IF CanStartKernel /\ op.latency = 0
       THEN /\ running' = running \cup {op.id}
            /\ m_pending' = [m_pending EXCEPT ![s] = TRUE]
            /\ m_grid_id_to_stream' =
                  [x \in DOMAIN m_grid_id_to_stream \cup {op.id} |->
                      IF x = op.id THEN s ELSE m_grid_id_to_stream[x]]
            /\ UNCHANGED m_operations
       ELSE /\ m_operations' = [m_operations EXCEPT ![s] = <<Stamp(op, op.id, op.latency - 1)>> \o Tail(@)]
            /\ UNCHANGED <<running, m_pending, m_grid_id_to_stream>>
    /\ UNCHANGED events

DoKernel(s) ==
    LET op == Head(m_operations[s]) IN
    /\ op.type = "kernel"
    /\ IF CanStartKernel /\ op.latency = 0
       THEN /\ running' = running \cup {op.id}
            /\ m_pending' = [m_pending EXCEPT ![s] = TRUE]
            /\ m_grid_id_to_stream' =
                  [x \in DOMAIN m_grid_id_to_stream \cup {op.id} |->
                      IF x = op.id THEN s ELSE m_grid_id_to_stream[x]]
            /\ UNCHANGED m_operations
       ELSE /\ m_operations' = IF op.latency > 0
                               THEN [m_operations EXCEPT ![s] = <<Stamp(op, op.id, op.latency - 1)>> \o Tail(@)]
                               ELSE m_operations
            /\ UNCHANGED <<running, m_pending, m_grid_id_to_stream>>
    /\ UNCHANGED events

DoOperation(s) == DoCopy(s) \/ DoEvent(s) \/ DoWait(s) \/ DoKernel(s)

\* The rest of operation(), under m_lock, and the break that follows it.
Operate ==
    /\ spc = "operate" /\ LockFree
    /\ \/ \E s \in Live \cup {Zero} :
             /\ Selects(s)
             /\ DoOperation(s)
             /\ m_last_stream' = IF s = Zero THEN m_last_stream ELSE s
       \/ /\ NothingReady
          /\ m_last_stream' = IF m_streams = <<>> THEN m_last_stream ELSE Rotation[Len(m_streams)]
          /\ UNCHANGED <<m_operations, m_pending, m_grid_id_to_stream, running, events>>
    /\ UNCHANGED <<m_streams, m_lock, created, nops, m_finished_kernel, draining, limit_hit, host,
                   check, g_sim_active, g_sim_done, break_limit, g_sim_signal_exit>>
    /\ spc' = IF check /\ ~GpuActive' THEN "stop" ELSE "simulate"

\* cycle(): kernels may complete, leave traffic behind, and reach a limit.
GpuCycle ==
    /\ spc = "simulate" /\ GpuActive
    /\ \E D \in SUBSET running :
          /\ running' = running \ D
          /\ \E q \in Orders(D) : m_finished_kernel' = m_finished_kernel \o q
          /\ draining' \in {FALSE, D # {} /\ D = running}
    /\ limit_hit' \in {FALSE, Limits}
    /\ spc' = "loop"
    /\ UNCHANGED <<manager, m_operations, nops, events, host,
                   check, g_sim_active, g_sim_done, break_limit, g_sim_signal_exit>>

NoCycle ==
    /\ spc = "simulate" /\ ~GpuActive /\ ~limit_hit
    /\ spc' = "loop"
    /\ UNCHANGED <<manager, m_operations, nops, gpu, events, host,
                   check, g_sim_active, g_sim_done, break_limit, g_sim_signal_exit>>

\* stop_all_running_kernels() retires the kernels that have finished; the
\* first stopped one is not finished and ends the loop.  Then g_sim_done.
StopAllRunningKernels ==
    /\ spc = "simulate" /\ ~GpuActive /\ limit_hit /\ LockFree
    /\ LET done == {m_finished_kernel[i] : i \in 1..Len(m_finished_kernel)}
           over == {m_grid_id_to_stream[k] : k \in done}
       IN  /\ m_operations' = [s \in AllStreams |-> IF s \in over THEN Tail(m_operations[s]) ELSE m_operations[s]]
           /\ m_pending' = [s \in AllStreams |-> m_pending[s] /\ s \notin over]
           /\ m_grid_id_to_stream' = [k \in DOMAIN m_grid_id_to_stream \ done |-> m_grid_id_to_stream[k]]
    /\ \E q \in Orders(running) : m_finished_kernel' = IF q = <<>> THEN <<>> ELSE Tail(q)
    /\ running' = {}
    /\ g_sim_done' = TRUE /\ break_limit' = TRUE
    /\ spc' = "loop"
    /\ UNCHANGED <<m_streams, m_last_stream, m_lock, created, nops, draining, limit_hit, events, host,
                   check, g_sim_active, g_sim_signal_exit>>

\* active = gpu->active() || !empty_protected(); while (active && !g_sim_done)
LoopTest ==
    /\ spc = "loop"
    /\ GpuActive \/ LockFree
    /\ spc' = IF (GpuActive \/ ~AllEmpty) /\ ~g_sim_done THEN "check" ELSE "stop"
    /\ UNCHANGED <<manager, m_operations, nops, gpu, events, host,
                   check, g_sim_active, g_sim_done, break_limit, g_sim_signal_exit>>

Deactivate ==
    /\ spc = "stop" /\ SimLockFree
    /\ g_sim_active' = FALSE
    /\ spc' = "outer"
    /\ UNCHANGED <<manager, m_operations, nops, gpu, events, host,
                   check, g_sim_done, break_limit, g_sim_signal_exit>>

\* while (!g_sim_done), then exit(1) or sem_post.
\* A variant that forgets sem_post.
OuterTestSilent ==
    /\ spc = "outer"
    /\ spc' = IF ~g_sim_done THEN "detect" ELSE IF break_limit THEN "dead" ELSE "returned"
    /\ UNCHANGED <<manager, m_operations, nops, gpu, events, host,
                   check, g_sim_active, g_sim_done, break_limit, g_sim_signal_exit>>

OuterTest ==
    /\ spc = "outer"
    /\ spc' = IF ~g_sim_done THEN "detect" ELSE IF break_limit THEN "dead" ELSE "returned"
    /\ g_sim_signal_exit' = IF spc' = "returned" THEN g_sim_signal_exit + 1 ELSE g_sim_signal_exit
    /\ UNCHANGED <<manager, m_operations, nops, gpu, events, host,
                   check, g_sim_active, g_sim_done, break_limit>>
-----------------------------------------------------------------------------
\* A call the program decides to make, and the steps a call then takes.
HostCall(h) ==
    \/ StreamCreate(h) \/ LaunchOrCopy(h, "memcpy") \/ LaunchOrCopy(h, "kernel")
    \/ EventRecord(h) \/ StreamWaitEvent(h) \/ WaitAll(h)
    \/ Synchronize(h) \/ EventSynchronize(h) \/ StreamDestroy(h) \/ ThreadExit(h)
    \/ SynchronizeStream(h)

HostStep(h) ==
    \/ PushAllStep(h) \/ BlockEnds(h) \/ Enqueue(h) \/ Drain(h)
    \/ SyncLock(h) \/ SyncWalk(h) \/ EventDone(h)
    \/ StreamSynchronized(h) \/ DestroyLock(h) \/ DestroyErase(h) \/ ExitSignaled(h)
    \/ StreamReturn(h)

SimStep ==
    \/ DetectWork \/ Activate \/ CheckFinishedKernel \/ Operate
    \/ GpuCycle \/ NoCycle \/ StopAllRunningKernels
    \/ LoopTest \/ Deactivate \/ OuterTest

Next == SimStep \/ \E h \in Hosts : HostCall(h) \/ HostStep(h)

Spec == Init /\ [][Next]_vars

\* Some running kernel completes in this cycle.
KernelCompletes == GpuCycle /\ running' # running

\* No thread is preempted forever; the simulation thread is not kept out of
\* g_sim_lock forever by a host that polls it in synchronize(); a kernel that
\* is clocked again and again completes.
Fairness ==
    /\ SF_vars(SimStep)
    /\ \A h \in Hosts : WF_vars(HostStep(h))
    /\ SF_vars(KernelCompletes)

FairSpec == Spec /\ Fairness
-----------------------------------------------------------------------------
(* Properties.                                                              *)

Operations ==
    [id : Nat, type : {"noop", "memcpy", "kernel", "event", "wait"},
     event : Events \cup {None}, cnt : Nat, latency : Nat]

HostPC == {"idle", "block", "enqueue", "drain", "pushall", "sync", "syncwalk",
           "eventsync", "streamsync", "destroy", "spin", "waitexit", "gone", "streamreturn"}
SimPC  == {"detect", "activate", "check", "operate", "simulate", "loop",
           "stop", "outer", "returned", "dead"}
Args   == [op : Operations, stream : Streams \cup {None, Zero}]

\* Every variable stays in its domain; in particular no step reads a map entry
\* or a queue that is not there.
TypeOK ==
    /\ m_streams \in Seq(Streams) /\ created \subseteq Streams
    /\ m_last_stream \in Streams \cup {None}
    /\ m_operations \in [AllStreams -> Seq(Operations)]
    /\ m_pending \in [AllStreams -> BOOLEAN]
    /\ DOMAIN m_grid_id_to_stream \subseteq Nat
    /\ \A k \in DOMAIN m_grid_id_to_stream : m_grid_id_to_stream[k] \in AllStreams
    /\ m_lock \in Hosts \cup {None}
    /\ running \subseteq Nat /\ m_finished_kernel \in Seq(Nat)
    /\ draining \in BOOLEAN /\ limit_hit \in BOOLEAN
    /\ issued \in [Events -> Nat] /\ updates \in [Events -> Nat]
    /\ recorded \in [Events -> SUBSET Nat]
    /\ spc \in SimPC
    /\ check \in BOOLEAN /\ g_sim_active \in BOOLEAN /\ g_sim_done \in BOOLEAN
    /\ break_limit \in BOOLEAN /\ g_sim_signal_exit \in Nat
    /\ hpc \in [Hosts -> HostPC] /\ arg \in [Hosts -> Args]
    /\ walk \in [Hosts -> AllStreams] /\ walkall \in [Hosts -> AllStreams \cup {None}]
    /\ nops \in Nat /\ ncalls \in Nat /\ due \in [Hosts -> SUBSET Nat]

Finished == {m_finished_kernel[i] : i \in 1..Len(m_finished_kernel)}

\* A grid that is on the GPU, or finished and not yet retired, has a map entry
\* to a stream whose front operation is that grid's launch and is in progress:
\* what register_finished_kernel relies on when it looks the stream up, asserts
\* the uid of its front and pops it (stream_manager.cc:270-272), although hosts
\* push, streams come and go and operation() cancels in between.
KernelBookkeeping ==
    /\ running \cap Finished = {}
    /\ \A k \in running \cup Finished :
          /\ k \in DOMAIN m_grid_id_to_stream
          /\ LET s == m_grid_id_to_stream[k]
             IN  /\ m_operations[s] # <<>> /\ m_pending[s]
                 /\ Head(m_operations[s]).id = k
                 /\ Head(m_operations[s]).type = "kernel"

\* The round-robin iterator of front() points into the list or is end(), also
\* after streams are destroyed (stream_manager.cc:336-346, 380).
LastStreamValid == m_last_stream \in Live \cup {None}

\* An operation of stream zero is never queued together with one of a
\* concurrent stream: what push() blocks for (stream_manager.cc:434-443).
DefaultStreamExclusive == m_operations[Zero] # <<>> => ConcurrentStreamsEmpty

\* destroy_stream holds m_lock, which the simulation thread needs to empty any
\* stream, while it spins for an empty stream.  cudaStreamDestroy synchronizes
\* first "to avoid the stream_manager from spinning forever to destroy non-empty
\* streams" (cuda_runtime_api.cc:2018-2022).
DestroyFindsStreamEmpty ==
    \A h \in Hosts : hpc[h] = "spin" => m_operations[arg[h].stream] = <<>>

\* A wait leaves its stream only when the record it was issued after has
\* executed: do_operation compares two counters (stream_manager.cc:184-194).
WaitSeesItsRecord ==
    [][\A s \in AllStreams :
          LET op == Head(m_operations[s])
          IN  (/\ m_operations[s] # <<>> /\ op.type = "wait"
               /\ Len(m_operations'[s]) < Len(m_operations[s]))
              => op.cnt \in recorded[op.event]]_vars

\* The queues as StreamOrder has them: without the latency, which counts down.
Accepted == [s \in AllStreams |-> [i \in 1..Len(m_operations[s]) |->
                Stamp(m_operations[s][i], m_operations[s][i].id, 0)]]
Order == INSTANCE StreamOrder WITH queue <- Accepted, executed <- recorded

\* The stream manager keeps the order CUDA promises a program with one host
\* thread, within a stream, around the default stream and across events,
\* although it keeps no order between streams but their emptiness and a counter.
ImplementsStreamOrder == Order!Spec

\* push() with a NULL stream and cudaDeviceSynchronize return only when every
\* operation they wait for, outstanding when they were called, has completed,
\* although they look at the streams one after the other and without m_lock
\* (stream_manager.cc:409-429, gpgpusim_entrypoint.cc:170-186).  Only the end
\* of the simulation ends a cudaDeviceSynchronize early.
\* cudaStreamSynchronize of a created stream waits for nothing: its return
\* precedes the call that waits (cuda_runtime_api.cc:2042).
BlockingCallsWait ==
    [][\A h \in Hosts :
          (hpc[h] \in {"drain", "syncwalk"} /\ hpc'[h] \in {"idle", "pushall"})
          => (due[h] \cap Outstanding = {} \/ (g_sim_done /\ hpc[h] = "syncwalk"))]_vars

\* cudaStreamSynchronize returns only after what its stream held at the call
\* (cuda_runtime_api.cc:2041-2044, cuda_api.h:9974).
StreamSynchronizeWaits ==
    [][\A h \in Hosts :
          (hpc[h] = "streamreturn" /\ hpc'[h] = "idle") => due[h] \cap Outstanding = {}]_vars

\* Every accepted operation completes, unless the simulation ends: the loop of
\* the simulation thread breaks, goes idle and restarts around operations that
\* arrive meanwhile (gpgpusim_entrypoint.cc:86-154).  MaxCalls bounds how many
\* are accepted, so each completes when the queues end up empty for good.
OperationsComplete == <>[](Outstanding = {} \/ g_sim_done)

\* Every call returns, unless the simulation ends or a limit drops operations
\* that the caller then waits for (stream_manager.cc:446-452).
CallsReturn ==
    \A h \in Hosts : []<>(hpc[h] \in {"idle", "gone"} \/ limit_hit \/ ~Alive)
=============================================================================
