# A TLA+ verification of GPUCalorie's simulator

GPUCalorie couples GPGPU-Sim (a cycle-level simulator of a CUDA GPU,
`src/gpgpu-sim`) with GPUWattch (power) and HotSpot (temperature,
`src/HotSpot`). This directory holds TLA+ specifications of the simulator's
control, the TLC runs that check them on small instances, and theorems checked
by TLAPS. All paths below are relative to `src/gpgpu-sim/` unless they start
with `HotSpot/`.

Contents

1. The system and its parts
2. What is modelled, and how it corresponds to the code
3. Runs: what each one asks, its bounds, what it shows
4. Fairness
5. Disagreements between the code and what is said of it
6. Theorems
7. Abstractions, and what is not modelled
8. Plan
9. How to run it

## 1. The system and its parts

A CUDA program is linked against `libcuda`, whose runtime calls execute in the
program's own threads (the *host threads*). They put operations into streams.
A second thread, the *simulation thread*, takes operations out, executes copies
and events at once, launches kernels on the simulated GPU and clocks that GPU.
Everything below the kernel table (cores, caches, network, DRAM) is clocked by
the simulation thread alone, one component after the other inside
`gpgpu_sim::cycle()`. So the real concurrency is between host threads and the
simulation thread; inside the GPU the hard part is *ordering*: which reply,
exit, fill or release comes first, and what has been cached about it.

| Component | State it keeps | Operations | Talks to |
|---|---|---|---|
| CUDA runtime calls (`libcuda/cuda_runtime_api.cc`) | events' `m_issued`/`m_updates`, stream handles | launch, copy, create/destroy stream, record/wait event, synchronize, exit | stream manager (`push`, `destroy_stream`), entry point (`synchronize`, `exit_simulation`) |
| Stream manager (`src/stream_manager.*`) | list of streams, per stream a FIFO and a pending flag, round-robin iterator, grid uid -> stream, one mutex | `push`, `operation`, `front`, `register_finished_kernel`, `stop_all_running_kernels`, `empty`, `add_stream`, `destroy_stream` | GPU (`launch`, `finished_kernel`), host threads, simulation thread |
| Simulation thread (`src/gpgpusim_entrypoint.cc`) | `g_sim_active`, `g_sim_done`, `break_limit`, a mutex, a semaphore | wait for work, run, stop, exit | both of the above, `gpgpu_sim` |
| Kernel management (`src/gpgpu-sim/gpu-sim.*`) | table of running kernels, queue of finished ones, CTA counters and limits, which kernel was selected last | `launch`, `select_kernel`, `issue_block2core`, `set_kernel_done`, `cycle`, `init`, `update_stats`, `stop_all_running_kernels` | cores, stream manager |
| Kernel objects, device runtime (`src/abstract_hardware_model.*`, `src/cuda-sim/cuda_device_runtime.cc`) | next CTA, cores running it, launch latencies, parent, children, streams of its CTAs; list of device launches | create, `inc_running`/`dec_running`, `is_finished`, `notify_parent_finished`, device launch | stream manager (a kernel's destructor destroys streams), cores |
| Shader cores and clusters (`src/gpgpu-sim/shader.*`) | bound kernel, CTA contexts, warps, instruction buffers, barriers, pipelines, load/store unit | issue a CTA, fetch, issue, execute, write back, CTA exit, barrier arrival | kernel management, caches, network |
| Scoreboard (`src/gpgpu-sim/scoreboard.cc`) | registers reserved per warp, and those waiting for memory | reserve, release, collision check | core pipeline |
| SIMT stack (`src/abstract_hardware_model.cc`) | stack of (pc, reconvergence pc, mask) per warp | `update` | core pipeline |
| Caches, MSHRs (`src/gpgpu-sim/gpu-cache.*`) | tag array with line states, MSHR table, miss queue, outstanding fills | access, fill, cycle, evict | core or L2 partition, network |
| L2 partition, DRAM (`src/gpgpu-sim/l2cache.*`, `dram*.cc`) | queues, arbitration credits, delay queue, bank state machines | `dram_cycle`, `cache_cycle`, push/pop, scheduling | network, caches |
| Network (`src/gpgpu-sim/local_interconnect.*`, `icnt_wrapper.cc`, `src/intersim2`) | buffers, arbiter pointers | push, pop, advance | cores, partitions |
| Power, temperature, DTM (`src/gpucalorie`, `src/gpgpu-sim/power_*`, `src/gpuwattch`, `HotSpot/`) | counters, sampled power, block temperatures, clock setting | sample, compute, switch clocks | `gpgpu_sim::cycle` |
| PTX functional simulator (`src/cuda-sim`) | registers, memory, PCs of threads | execute one instruction | cores |
| OpenCL front end (`libopencl`) | as CUDA's, without streams | enqueue | sequential simulation thread |
| Tools (`aerialvision`, scripts) | none at run time | offline | statistics files |

### Hard behaviour and what makes each part correct

* **Streams.** Two mutexes, four flags, and walks over a list that take no lock.
  Correct when: operations of a stream complete in order; the NULL stream is
  ordered with every other stream; a wait is released by *its* record; a
  synchronizing call returns only after what it waits for; every accepted
  operation completes; a uid in the queue of finished grids always finds its
  stream; nobody waits for himself.
* **Kernels.** CTAs of several kernels finish in any order on many cores, the
  kernel object is deleted by the stream manager while cores keep pointers to
  it, kernels launch kernels, limits stop the GPU at any cycle. Correct when: a
  kernel is reported done once, after its last CTA; a core drains before it
  changes kernel; parents await their children; nothing live points to a deleted
  kernel; a limit ends the simulation.
* **Core pipeline.** Registers are released by replies in any order and on three
  paths; barriers race with warps that exit; a fetch returns after the warp has moved; a
  warp's CTA is replaced. Correct when: the scoreboard holds the outputs of what is in
  flight and nothing else; nothing in flight outlives its warp; a fetch that returns is
  the one waited for; a barrier lets nobody pass early; every CTA completes.
* **SIMT stack.** One program counter for a warp whose threads have one each. Correct
  when: the threads an entry names are where it says; threads that diverge meet again at
  the branch's reconvergence point.
* **L2 partition and DRAM channel.** Sub-partitions share a channel by credits,
  borrowed per request and returned per reply or finished write-back; finite
  queues in both directions; a scheduler that reorders, with a queue of writes it
  may put off. Correct when: each credit is returned once; the queues never take
  more than they hold; what the tracker says is outstanding is; accesses to one row
  keep their order; everything is answered.
* **Caches.** Lines are reserved by one access, filled by another, written, evicted and
  merged into by more in between. Correct when: a hit finds its data; what is dirty is
  written back; each miss is requested once and each waiting access answered once.
* **Network.** Arbiters move packets between queues with pointers that move on some
  grants. Correct when: packets between two nodes are neither lost, doubled nor reordered;
  no node is passed over forever.
* **DTM.** Clock settings are changed by a sampling interval and reset by each `init()`:
  numeric, not modelled (section 7).

Every hazard found is in `PROJECT.json` under `hazards`, at its line, with the
properties that cover it or a note saying why none does.

## 2. What is modelled, and how it corresponds to the code

### `StreamManager.tla`

The host threads, the stream manager and the simulation thread. The GPU is what
the simulation thread sees of it: which grids run, the queue of finished
uids, `active()`, and whether a limit is hit.

*Atomicity.* A critical section of `m_lock` is one step. Code that holds no
lock, or that releases one and takes it again, is several steps:

* `push(op)` is `Push` (entry), `BlockEnds` (the loop that waits for the
  concurrent streams ends: it holds the mutex while it looks, then releases it),
  `Enqueue` (the second critical section) and `Drain` (one step per stream of
  `empty()`, which takes no lock), then `Returns`;
* `pushCudaStreamWaitEventToAllStreams` is `WaitAll` and one `PushAllStep` per
  stream; its iterator lives across those pushes;
* `synchronize()` is `SyncLock` and one `SyncWalk` per stream, holding
  `g_sim_lock` as the code does;
* `destroy_stream` is `DestroyLock`, a spin with the mutex held (the guard of
  `DestroyErase`), and the erasure;
* the simulation thread is one control variable, `spc`, whose values are the
  places where it can be overtaken: waiting for work, activating, retiring a
  finished grid, operating, clocking, testing the loop, deactivating, testing the
  outer loop.

`m_lock` records only a holder across steps (a destroyer); `g_sim_lock` is held
exactly by a host in `syncwalk` (`SimLockFree`).

*Dangling iterators.* A walk whose current element has been erased continues
anywhere (`After`).

*`operation()`*: `CheckFinishedKernel` is its first half, which takes no lock;
`Operate` is `front()` and `do_operation()`. When `do_operation` fails the code
undoes what `front()` did (pending flag, uid map); the model leaves both
untouched, because this all happens inside one critical section. The rotation of
the iterator `m_last_stream` is *not* undone, and the model keeps that.
A kernel with launch latency left decrements it, and one without a free slot waits.

*Operations* carry the number of their acceptance as `id`. For kernels this is
the uid; the code numbers kernels when they are constructed, which for two hosts
may be a different order, but uids are only ever compared for equality.

*History variables*: `recorded` (which records of each event executed) and
`due` (what was outstanding when a blocking call was made) exist only for
properties.

### `StreamOrder.tla`

The abstract specification: what streams promise, without locks, flags, rotation
or counters. A stream completes in order; NULL-stream operations complete after
everything accepted before them and before everything accepted after; a wait
completes after the very record it was issued after. `StreamManager` with one
host implements it under the mapping `queue <- Accepted` (the queues without
launch latency) and `executed <- recorded`: property `ImplementsStreamOrder`.

### `KernelManager.tla`

Opens the GPU to the level of CTAs: `HostLaunch`, `Operate` (`launch`), the
cycle (`StartCycle`, `LaunchDevice`, `CtaExit`, `CoresDone`, one `IssueBlock2Core`
per core visited, `EndCycle`), retirement (`CheckFinishedKernel`,
`RegisterUnknown`, `RegisterUnfinished`, `RegisterFinished`, `DeleteKernel`),
`StopAllRunningKernels` (takes the mutex), `StopRunningKernel` (one turn of its loop),
`Stopped`, and `UpdateStats`.

* The order inside a cycle is the code's: cores execute (CTAs exit, kernels
  launch kernels), then CTAs are issued cluster by cluster starting after the
  one that issued last, one CTA per cluster at most, then latencies decrease
  and one device launch is pushed.
* `turn` is the position in the two nested loops of `issue_block2core`, with the
  starting core as it was when the loop began.
* `register_finished_kernel` is recursive: `notify_parent_finished` registers the parent
  inside the child's registration, and only when it returns is the child deleted.
  `RegisterFinished` and `RegisterUnfinished` are the way in, one step for each kernel from the
  child to the outermost ancestor that is finished (`subject`; `retiring` holds those that
  are popped and not deleted), `DeleteKernel` the way out: the outermost is deleted first, with
  the streams it created.
* `spc = "crash"` is the NULL stream dereferenced for a uid without an entry;
  `spc = "stuck"` is the simulation thread waiting for a mutex it holds, or for
  a stream only it can empty.
* Two counters of CTAs are kept apart as in the code: those of finished rounds
  (`gpu_tot_issued_cta`), which end the simulation, and those of the round under
  way (`m_total_cta_launched`), which stop issue.

The streams here carry kernels only, and any ready stream may be served: the
choice, copies, events and the launch latency are `StreamManager`'s.

### `MemoryPartition.tla`

One `memory_partition_unit`: a DRAM channel and the sub-partitions that share it,
with the L2 cache disabled or passed by. The clocks of the network, the L2 and the
DRAM are independent, so their cycles interleave freely:

* `L2Cycle(s)` is a sub-partition's L2 cycle: `push()` of a request from the network
  if four entries are free, then `cache_cycle()`: a reply up, a request down, one out
  of the ROP delay queue, in this order, each if there is room;
* `IcntCycle(s)` is `top()`, the test for room in the network, and `pop()`;
* the DRAM cycle is `dram_cycle()` or `simple_dram_model_cycle()` in the order of the
  code, one step for each part (`phase`): `DramReturn`, `DramData` (data at the end
  of the pipeline), `AddReq` for each request of `mrqq` and then `DramSchedule`
  (`scheduler_frfcfs`), `DramCommand`, `Arbitrate`, `DramLatency`; or `SimpleReturn` and `Arbitrate`. Other cycles do not come between.

`m_queue` is the scheduler's queue of reads (all requests, without a separate write
queue) and that of writes, each over all banks, oldest first; a bank's list and
a row's bin are its subsequences. `m_last_row` holds the row whose bin the code points to.
Credits are as in the code, with the private one tried first when borrowing and returned
first whatever was borrowed. `sent` and `answered` exist for properties.

### `ShaderCore.tla`

One SIMT core from the CTA it is given to the CTA's exit. `shader_core_ctx::cycle()` runs
its stages from the last to the first; each may find nothing ready in a cycle because of
a latency, a port or a bank, so the model has one action for each instruction or access a
stage handles, and interleaves them freely:

* `IssueBlock2Core` (a free context, `init_warps`, `allocate_barrier`); `FetchReply`,
  `Fetch` (the scan over the warps from the last one fetched, which on its way gives up
  warps that are done), `Decode`;
* `ControlHazard` (the scheduler flushes an instruction buffer whose first entry is not at
  the warp's PC), `IssueWarp` (scoreboard, barriers, reservation, and the functional
  execution that happens at issue: branches and exits), `MembarDone`;
* `Writeback` of the ALU pipelines; `LdstIssue`, `MemoryCycle` (the accesses of one
  instruction, on one of three ways: around the L1, to it, or through its latency queue),
  `L1LatencyQueueCycle`, `StoreAck`, `WritebackClient`, `LdstWriteback`.

The scoreboard (`scoreboard.cc`) is `reg_table`, with `CheckCollision`, the reservation in
`IssueWarp` and `ReleaseRegisters`. `arrivals` is a history variable. A warp's threads run
together; the order in which instructions leave a pipeline is free, as units of different
latency write back in any order. `warp_inst_t::issue` gives each instruction a `m_uid` of its own;
`Instance` takes one that nothing in flight has, so the numbers stay small and two executions
of one instruction by one warp are still two.

Programs are those PTX can have: a load writes a register, stores and memory barriers write none,
and atomics, which the parser makes `.cg` (`cuda-sim.cc:1122-1123`), go around the L1.

### `DataCache.tla`

One set of a `data_cache`: tag array, LRU, MSHRs, miss queue, fills. `Access` is
`data_cache::access`, a disjunction over the handlers the code dispatches to
(`RdHitBase`, `RdMissBase`, `WrHitWb`, `WrHitWe`, `WrMissNoWa`, `WrMissWaNaive`,
`WrMissWaLazy`); an access that would be refused (`RESERVATION_FAIL`) is simply not
accepted. `Cycle` sends the head of the miss queue, `Fill` is a reply from below (`FillPart`
for the halves of a line that a sectored cache below answers in two), `NextAccess` the client
taking an answer, `Invalidate` and `Flush` the two ways to drop the contents, and
`ForceTagAccess` what a copy of the host does to the L2's tags. What a sector holds (`data`) and
what only the cache has (`unsaved`) are history variables; an address leaves `unsaved` only when
its data is sent below, and never because the code has lost it. `lru` ranks the
lines by their last access: what the code compares of the access times. `config` is
chosen at the start among the shapes of the shipped configurations. Three of its fields say
what may happen to the cache besides its accesses: `discards` (flush or invalidation), `copies`
(of the host), and `races` (a write, or an atomic, to a sector whose read has not been answered
to all). Each of the three makes the code lose data (section 5).

### `Crossbar.tla` and `Links.tla`

`Crossbar` is `LocalInterconnect` with its two `xbar_router`s: `Push`, `Pop` and `Advance`,
a cycle of both, in which the arbiter's loop takes one turn (`Step`) for each node (`RRAdvance`,
`ISLIPAdvance`). `Links` is what a network promises: a FIFO for each pair of nodes.
`ImplementsLinks` maps a link to the packets that have crossed followed by those
that have not (`Carried`: those of the pair in a queue); `Advance` must be a stutter of it.

### `SimtStack.tla`

The warp-level stack (`simt_stack::update`) with its two inputs: the reconvergence points
that `do_pdom` computes (`Successors`; `Postdominators`, by passes of `Refine`; `Immediate`;
`ReconvergencePoints`) and the threads' own program counters and call stacks. The kernel is
chosen at the start; `ExecuteWarp` executes the instruction at the top of the stack with any
outcome of its guard in each thread. The code analyses basic blocks; the model, instructions,
where the immediate postdominator of a branch is the first of the block the code finds.

`WellFormed` says what a program is: control leaves the kernel and the function by `exit` and
`ret` only, the exit can be reached from every instruction (`CanEnd`), and the forms that the
code gets wrong (section 5) are left out. `CanEnd` asks more than the code, which asserts that
each block but the exit has an immediate postdominator (`Assembles`). A kernel with an
endless loop of two or more blocks passes that assertion, since the blocks of the loop are
never taken off each other's sets, but the points it yields mean nothing.

### MC modules

`MCStreamManager`, `MCKernelManager` and `MCMemoryPartition` define the functions the
configurations give to constants (who owns which stream, which kernel is whose child, how
many CTAs each has, where a request comes from and goes to); `MCShaderCore` and
`MCSimtStack` the programs, `MCDataCache` the cache configurations, `MCCrossbar` the
arbiters and the pairs of nodes that talk.

### Variants

Operators commented "A variant ..." are not part of any specification: each is a definition
changed the way a bug would change it. `PROJECT.json` names for each property of each passing
run the variant with which TLC finds it violated.

### Proofs

`StreamManagerProofs` (types and the books of running kernels), `StreamOrderProofs` (the
order of operations and the refinement of `StreamOrder`; it extends the former),
`KernelManagerProofs`, `MemoryPartitionProofs`, `ShaderCoreProofs`, `DataCacheProofs`,
`CrossbarProofs` (the refinement of `Links`) and `SimtStackProofs`: section 6.

## 3. Runs

Deadlock is checked in `MPchannel`, `XBnet` and `SSstack`. It is not in the others, where
the system really stops: the program's hosts stop calling at some point (`MaxCalls`, or all
grids launched) and then the simulation thread waits forever, which is what it should do; a
core has run its CTAs; a cache has had its accesses. Being stuck when it should not be is
what `CallsReturn`, `OperationsComplete`, `AcceptedKernelsRetire`, `LimitEndsSimulation`,
`NeverWaitsForItself`, `CtasComplete` and `ReadsAnswered` ask.

| Run | Instance | Asks |
|---|---|---|
| `SMone` | one host, two streams, one event, three operations, every call but copies, two kernels at once, limits | books, iterator, exclusiveness of stream zero, safe destruction, waits, blocking calls, `ImplementsStreamOrder`, and under fairness `OperationsComplete`, `CallsReturn` |
| `SMtwo` | two hosts with a stream each, three operations, kernels with launch latency 1, one slot | type correctness and blocking calls, which survive two hosts |
| `SMzero` | two hosts | *violation* of `DefaultStreamExclusive` |
| `KMcdp` | parent, child, grandchild and a host kernel, two CTAs each, two clusters, two table slots | one kernel per core, live pointers, lineage, progress |
| `KMlimit` | three host kernels of 3, 2 and 1 CTAs, 2x2 shared cores, block latency 1, a cycle or instruction limit at any cycle | finished grids keep their streams when kernels are stopped, and the limit ends the simulation |
| `KMcrash` | two families on two clusters | *violation* of `FinishedGridsKnown` |
| `KMstop` | two families and a limit | *violation* of `NeverWaitsForItself` |
| `MPchannel` | five requests of all kinds from two sub-partitions, two banks, queues as short as they may be, with both DRAM models, with and without a separate write queue | credits, tracker, room in the scheduler, order within a row, every request answered |
| `SCcore` | four warps; five kernels of two or three warps per CTA, with loads, stores and atomics of several accesses on all routes, branches, barriers, counted barriers, a membar, and a CTA that takes over a context | scoreboard, accounting of what is in flight, fetches, barriers, completion of every CTA |
| `DCcache` | sets of two lines or of one line of two sectors, in four shapes (line and sector, L1 and L2, `ON_MISS` and `ON_FILL`), three blocks, four accesses, undisturbed; and three smaller caches with discards, copies and races | data of hits and dirty data where nothing takes sectors away, MSHRs against requests, every read answered |
| `XBnet` | two clusters, two partitions, round-robin, iSLIP with one and two grant cycles | links, and no starvation under iSLIP |
| `SSstack` | every kernel of four instructions and many of five (2651 programs), three threads, any outcome of each branch | threads in step with the stack, reconvergence |

### Bounds

* `MaxCalls` bounds the operations hosts ask for (it bounds `nops`, `ncalls`,
  `issued`, `updates`). Three is enough for: two records of an event and a wait
  between them; a NULL-stream operation with one before and one after it; a
  kernel behind a kernel in one stream while another runs. All other state is
  bounded by it. Calls that queue nothing (create, destroy, synchronize)
  are not counted: streams are created once each.
* `MaxRunning` 2 lets two kernels finish in one cycle in either order; 1 makes a
  ready kernel wait for a slot (`SMtwo`).
* `LaunchLatency` 1 gives both branches of the test (`SMtwo`); 0 skips it to keep `SMone`
  small.
* In `KernelManager` the number of grids bounds everything. Two clusters of one or
  two cores and two contexts give: a kernel on two cores at once, a core
  with CTAs of one kernel and room for another, cores visited without issuing, a slot
  freed and refilled, and a kernel of more CTAs than a core holds. Four grids
  in a chain give a parent that finishes before, with, and after its child.
* The model lets a limit be reached at any cycle (`limit_hit`, `limit`), so the
  values of `-gpgpu_max_cycle` and `-gpgpu_max_insn` need no bound.

* In `MemoryPartition` five requests bound everything. Queues of one entry (four from
  the network, the least that accepts anything; two in the scheduler, so that it has a
  choice) fill up in both directions; five requests exceed the four credits of the channel;
  two writes reach the high watermark, one does not.
* In `ShaderCore` programs have no unbounded loop and each CTA runs once: they bound
  everything. Pipelines hold two instructions. The kernels are chosen so that each hazard
  happens: a load of two accesses beside one of another route, a branch over what is
  already in the instruction buffer, a warp that exits while others wait at a barrier, a CTA
  of three warps of which one never reaches it, a third CTA in the first's context.
* In `DataCache` `MaxAccesses` bounds the accesses accepted: four are enough to reserve a
  line, merge into it, evict it and come back. Three blocks compete for one line of
  two sectors or two lines. There are two MSHRs of two accesses, and a miss queue of the least
  length with which every handler can proceed. The caches to which also discards, copies and
  races happen have one line, one MSHR and two kinds of accesses: what disturbs them takes lines
  away as well, and there only the MSHRs are in question.
* In `Crossbar` queues of two and of one packet fill up; two inputs compete for an output
  while one of them also sends elsewhere. Two payloads tell packets apart.
* In `SimtStack` loops run as long as the data wants, so behaviours are infinite and
  states finite. Three threads can part twice. Five instructions hold two branches, a call
  and a guarded exit in any nesting; functions are a branch or a loop. `AllKernels` leaves
  out dead code and kernels with an endless loop (`CanEnd`).

### What the passing runs show

With one host, the stream manager keeps the order CUDA promises although it
keeps no order between streams except their emptiness: `DefaultStreamExclusive`
is the reason. `BlockingCallsWait` holds for `push` and `synchronize` with two
hosts although they look at one stream after another without `m_lock`: what was
outstanding at the call only ever leaves the queues. `KernelBookkeeping` holds whatever
the hosts do (and is proved, section 6). Every accepted operation and every
call completes unless a limit drops operations or the simulation ends.

For kernels: a core never mixes kernels unless told to; no core points to a
deleted kernel; nothing done stays in the table; the assertion of `select_kernel`
(`gpu-sim.cc:833-835`) never fires; a parent keeps its entry and its streams until its
children have told it that they are finished; and a kernel is retired, in a chain of device
launches too.

For the memory channel: although `return_credit` does not know what was borrowed,
private and shared credits together always equal the requests in the channel;
room tested when a request leaves the delay queue is still there when it joins the
scheduler; replies of one sub-partition for one row keep their order; and no mix of
short queues, credits and watermarks stops a request, other than a write that waits for
the high watermark.

For a core: the scoreboard is exact at every moment although releases come from replies in
any order, so no instruction reads a register in flight and no warp waits for one that is
not; the context of a CTA is not given away while anything of it is in flight; whatever the
order of arrivals and exits, barriers neither leak nor hang.

For a cache: as long as it is not flushed, invalidated, copied into or written while it is being
read, a hit finds the data of its block, and what was written is written back (section 5 has what
happens otherwise). Whatever happens, there is one request for each address that is waited for,
and answers go to all who wait.

For the network: both arbiters keep the links; the shipped one starves nobody. For the SIMT
stack: threads and stack never part in the programs without the forms listed in
section 5.

Each property of each passing run has a mutant in `PROJECT.json`: a definition of
the model changed as a bug would (operators commented "A variant ..."), with which
TLC finds the property violated.

## 4. Fairness

`StreamManager`:

* `WF_vars(HostStep(h))` for each host: a thread inside a runtime call is not
  preempted forever. Whether it *makes* a call is up to the program (`HostCall` has no fairness).
* `SF_vars(SimStep)`: the simulation thread is not preempted forever, and it gets
  `g_sim_lock` although a host in `synchronize()` takes and releases it again and
  again. Weak fairness would not do: the thread's step is disabled whenever the
  host holds the lock. The code relies on the pthread mutex for this; a mutex
  that starves one thread forever breaks the simulator, too.
* `SF_vars(KernelCompletes)`: a kernel that is clocked again and again completes.
  That the user's kernel terminates is not the simulator's promise.

`KernelManager`: `WF_vars(SimStep)`, there is only the simulation thread; and
`SF_vars(SomeCtaExits)`: CTAs on the cores exit eventually, at least one of them
again and again. Nothing is assumed of which one, nor of launches.

`MemoryPartition`: `WF_vars(DramStep)`, the DRAM is clocked forever; and
`SF_vars(Moving)`: a step that moves a request (an L2 cycle, a reply taken by the
network, a latency that expires, a DRAM command whose timing is met) happens if it is
possible again and again. Latencies and timings are counters that run down, and the
cores take replies. Nothing is assumed of requests being sent.

`ShaderCore`: `WF_work(Next)`, where `work` is everything but the turn of the fetch scan:
the core is clocked, the memory answers, and the L1I does not refuse every access forever.
As every instance terminates, nothing is said of which stage comes first.

`DataCache`: `WF_vars(Cycle)`, `WF_vars(Fill)`, `WF_vars(NextAccess)`: the cache is clocked
and finds room in the queue below at some time, the memory answers what it was asked, and
the client takes answers (the load/store unit each cycle, the L2 partition when there is room in
its queue). Accesses are not required to come.

`Crossbar`: `WF_vars(Advance)` and `WF_vars(Pop(n))`: the network is clocked, and a node takes
what has come for it. Nodes need not send; `NobodyStarves` speaks of those that do.

`SimtStack` has safety properties only: that loops end is up to the data.

## 5. Disagreements between the code and what is said of it

Each of these three has a run that fails with a trace and an entry under `findings`.

1. **`push` and the NULL stream** (`SMzero`, `stream_manager.cc:434-452`). The
   mutex is released between seeing the concurrent streams empty and enqueuing
   in stream zero. With two host threads another may enqueue in between.
2. **Parent and child finishing in one cycle** (`KMcrash`,
   `stream_manager.cc:267-272`). With the child's uid queued first, its
   retirement retires the parent, whose uid is still queued and has no stream any
   more.
3. **Limits and device launches** (`KMstop`, `stream_manager.cc:300-316`).
   `stop_all_running_kernels` holds the mutex while it deletes kernels; deleting one that
   made device streams locks it again.

TLC finds these too; the runs to repeat are small changes of the ones kept.

* **A wait and its record** (`stream_manager.cc:184-192`). "Only allows next op to go if event is
  done" compares two counts. Records of one event in several streams execute in any order, so a
  later one may let go a wait whose own record has not executed. `SMone` and `SMtwo` record an
  event in one stream only (`OneStream`), where it cannot. `SMone` with three streams and
  `RecordedOn <- AnyStream` violates `WaitSeesItsRecord`.
* **`-gpgpu_max_cta`** (`gpu-sim.cc:775-799`). Issue stops by a count that includes the round
  under way, the end of the simulation is decided by one that does not. A kernel cut short is
  neither finished nor issued further: the thread loops without a cycle. `KMlimit` with
  `MaxCtaOpt = 1`, `CycleLimit = FALSE` violates `LimitEndsSimulation`.
* **`-gpgpu_max_completed_cta`** (`gpu-sim.cc:1176`). The counter is reset at the end of a round
  before the limit is acted on, and simulation goes on with the next kernel. `KMlimit` with
  `MaxCompletedOpt = 1`, `CycleLimit = FALSE` violates `NoCycleAfterLimit`.
* **`cudaStreamSynchronize` does not wait** (`cuda_runtime_api.cc:2041-2044`). `return`
  precedes `stream->synchronize()`. For the NULL stream it waits for everything. `SMone`
  with `StreamSynchronizeWaits` as the only property fails in four steps.
* **`-gpgpu_frfcfs_dram_sched_queue_size 0`** (`dram_sched.cc:81`). The option's text
  (`gpu-sim.cc:172`) says 0 is unlimited and the default; `dram_t::full` and the credits
  treat it so; the scheduler's `add_req` asserts that the pending requests are fewer than 0.
  Every shipped configuration sets a size. `MPchannel` with `SchedSize = 0` violates
  `SchedulerHasRoom`.
* **Divergent calls of a function with several returns.** The entry of the call stays at
  type `call`, is not popped, and runs past the caller's reconvergence point, contrary to the
  comment at `cuda-sim.cc:2840-2843`. With the kernel `<<bra 3 if p, call, op, ret>>`, the
  function `<<bra 7 if p, ret, ret>>` and three threads, `ThreadsInSync` fails.
* **A guarded exit inside a called function** leaves the thread that exited in the caller's
  mask; the assertion of `ptx_exec_inst` on exited threads would fail. Kernel
  `<<call, op, ret>>`, function `<<exit if p, op, ret>>`, two threads.
* **Starvation in the network.** With `NAIVE_RR`, and with iSLIP and more than one grant
  cycle, an input that competes with others in step with the pointer never wins:
  `NobodyStarves` without its condition on `arbiter` fails. The shipped configurations
  use iSLIP with one.

What follows is about the data of caches. Only timing and traffic are affected: the values come
from the functional simulator. `HitsHaveData` and `DirtyDataKept` speak of caches to which none
of it happens (`Settled`, `WritesBelow`). To repeat the runs, check `HitsWhole` and `DirtyHeld`,
which are these properties without conditions, on one configuration of `MCDataCache` with the
fields given.

* **`flush` loses dirty data** (`gpu-cache.cc:415-426`). Dirty sectors become `INVALID`, and
  nothing is sent below; three TODOs (there, `l2cache.cc:682`, `gpu-sim.cc:2035`) say that it
  should be. `L2Sector` with `discards |-> TRUE` violates `DirtyHeld` in three steps.
* **`invalidate` loses dirty data** of local writes in an L1 (`gpu-cache.cc:428-436`), at the end
  of a kernel and at each memory barrier (`shader.cc:3746-3753`); the shipped configurations set
  `-gpgpu_flush_l1_cache 1`. At a barrier loads of other warps are outstanding as well, and their
  fills go to lines that other blocks may have taken since. `L1Line` with `discards |-> TRUE`
  violates `DirtyHeld` and `HitsWhole` in seven steps each.
* **Dirty local data in the shipped Volta L1** (`gpu-cache.cc:392-408`). It is
  `LOCAL_WB_GLOBAL_WT` with `ON_FILL`, and the fill's `tag_array::fill` evicts dirty local lines
  without writing them back. `cache_config::init` (`gpu-cache.h:613-625`) rejects `ON_FILL` with
  write-back, where "an incoming cache-fill evicts a dirty line, generating a writeback request",
  and does not think of this policy. `L1Stream` as it is violates `DirtyHeld`.
* **A write to a reserved sector** in the shipped L2 (`LAZY_FETCH_ON_READ`,
  `gpu-cache.cc:1439-1489`) makes it `MODIFIED` before its fill has come. The line may then be
  evicted, and the fill, by the saved index (1054-1060), marks a sector of another block
  `VALID`: data of the wrong block ("stray"), or a newer dirty sector forgotten. `L2Sector` with
  `races |-> TRUE` violates `HitsWhole` and `DirtyHeld` in six steps each.
* **A late atomic.** An atomic merged into an MSHR entry whose data has come is too late for `fill()`
  to mark the line dirty: `L2Sector` with `races |-> TRUE` and reads and atomics only violates
  `DirtyHeld`.
* **Copies of the host** (`-gpgpu_perf_sim_memcpy 1`, as shipped). `force_tag_access`
  (`gpu-cache.h:1211-1218`, "a gapping hole") fills the L2's tags whatever the state of the sector: a
  dirty sector becomes `VALID`, a reserved one is filled before its data comes, and the line it
  takes is not written back. `L2Sector` and `L2Line` with `copies |-> TRUE` violate `HitsWhole` and
  `DirtyHeld`. If every line of the set is reserved, the index it fills is not initialised;
  `ForceTagAccess` leaves this case out.

Met while modelling, and not given a run of their own:

* `destroy_stream` spins with the mutex held (`stream_manager.cc:370`). With two
  hosts, `cudaStreamWaitEvent(NULL, e)` of one may fill the stream of another between
  its synchronization and the lock, and everything stops. `SMtwo` has no destruction.
* Parked writes (`dram_sched.cc:118-129`): with a separate write queue, writes below the
  high watermark wait until others come, however idle the channel: the condition on an
  empty read queue is commented out. `RequestsAnswered` exempts them (`Parked`). Without an
  L2 cache such a write is never acknowledged if no other follows.
* An `icnt-to-L2` queue shorter than four never accepts a request (`full(SECTOR_CHUNCK_SIZE)`,
  `gpu-sim.cc:1930`); `MemoryPartitionAssumption` excludes it.
* `l2cache.cc:112-122`: sizes that sum to the number of sub-partitions minus one make the
  shared limit 0, which means no limit.
* `cudaEventRecord` issues before it blocks (`cuda_runtime_api.cc:2203`): two hosts
  can build a cycle of waits with a record in the NULL stream.
* A memory barrier waits for the warp's reserved registers only (`shader.cc:3742-3758`); the
  comment at 3748-3751 says "wait for all pending writes till they are acked". Stores
  outstanding do not hold it.
* `bar.arrive` with `bar.sync`: when a barrier is released, `warp_reaches_barrier` and `warp_exit`
  (`shader.cc:3608-3680`) clear the flag "at a barrier" of every warp that came to it. A warp that
  only arrived there and waits at another barrier goes on too early. With the kernel
  `<<arrive 0, bar 1, exit>>, <<bar 0, bar 1, exit>>, <<bar 1, exit>>` TLC violates
  `BarrierHolds`; `BarriersHold` is for programs without `bar.arrive`.
* A counted barrier one of whose warps exits is never released (TODO at `shader.cc:3643`);
  the programs of `SCcore` have none.
* `reinit` divides with truncation (`shader.cc:490-491`): the last warp of a CTA whose size is no
  multiple of the warp size is not reset. `init_warps` sets what matters afterwards.
* A read merged into an MSHR entry whose data has come, after its line was evicted, reserves a
  sector that no request under way will fill: nothing can evict it until its block is asked for
  again after the entry is gone. `ReadsAnswered` still holds: the access itself is answered.
* `invalidate` and `flush` return at once if `is_used` is false, and `fill` does not set it
  (`gpu-cache.cc:416-436`): lines filled after an invalidation survive the next one if no
  access comes in between.
* `FETCH_ON_WRITE`: a full write to a reserved sector only sets `ignore_on_fill_status`
  (`gpu-cache.cc:1343-1346`), which nobody reads. Not shipped, not modelled.
* `-icnt_subnets 1`: `Pop` for a cluster reads `net[1]` (`local_interconnect.cc:346-349`), which
  does not exist.
* The return address below a kernel is 0 (`ptx_sim.h:199`), which is also the PC of the first
  function assembled; the model's addresses start at 1. Guarded calls and returns inside
  functions fail an assertion on the number of divergent paths (`simt_stack::update`).
* All clock domains start from `core_supported_clocks`: `-gpgpu_clock_domains` has no effect, and
  fewer than 18 entries leave the rest of the table uninitialised.

## 6. Theorems

The theorems hold for every value of the constants the modules' assumptions allow: any
sets of hosts, streams, events, grids, cores and requests, any sizes and bounds. The
assumptions say that marker values differ from the others, and give constants their
domains (a queue from the network holds at least four, without which it accepts nothing;
kernels are not empty, their CTAs have equal sizes that fit the core, code starts at 1, and
programs are those of PTX (section 2); a cache that allocates on fills is
neither write-back nor lazy, which `cache_config::init` rejects, and gets no atomics, which `fill`
asserts, and only an L2 is copied into; programs of the SIMT stack
are `WellFormed`, section 2).
A theorem that needs more says so in its statement, and section 5 or a run shows
what happens without it.

| Theorem | Property | Under |
|---|---|---|
| `StreamManagerProofs!TypeCorrect` | `TypeOK` | |
| `StreamManagerProofs!BooksKept` | `KernelBookkeeping` | |
| `StreamOrderProofs!IteratorValid` | `LastStreamValid` | |
| `StreamOrderProofs!BlockingCallsKept` | `BlockingCallsWait` | `KeptStreams` |
| `StreamOrderProofs!DefaultExclusive` | `DefaultStreamExclusive` | `SingleHost` |
| `StreamOrderProofs!DestroyNeverSpins` | `DestroyFindsStreamEmpty` | `SingleHost` |
| `StreamOrderProofs!WaitsInOrder` | `WaitSeesItsRecord` | `SingleHost`, `SingleRecorder` |
| `StreamOrderProofs!KeepsStreamOrder` | `ImplementsStreamOrder` | `SingleHost`, `SingleRecorder` |
| `KernelManagerProofs!TypeCorrect` | `TypeOK` | |
| `KernelManagerProofs!OneKernelAtATime` | `OneKernelPerCore` | |
| `KernelManagerProofs!NoDoneKernelInTable` | `TableHoldsNoDone` | |
| `KernelManagerProofs!CoresHoldLive` | `CoresHoldLiveKernels` | |
| `KernelManagerProofs!NeverSelectedTwice` | `SelectsUnexecuted` | |
| `KernelManagerProofs!ParentsAwait` | `ParentsAwaitChildren` | |
| `KernelManagerProofs!NeverWaits` | `NeverWaitsForItself` | `NoLimit` |
| `KernelManagerProofs!FinishedHaveEntries` | `FinishedGridsKnown` | `NoDeviceLaunch` |
| `MemoryPartitionProofs!TypeCorrect` | `TypeOK` | |
| `MemoryPartitionProofs!CreditsKept` | `CreditsMatch` | |
| `MemoryPartitionProofs!BusyCovers` | `BusyCoversRequests` | |
| `MemoryPartitionProofs!RowsInOrder` | `SameRowInOrder` | |
| `MemoryPartitionProofs!RoomWhenAdded` | `SchedulerHasRoom` | `SchedSize # 0` |
| `ShaderCoreProofs!FetchesMatch` | `FetchMatchesPc` | |
| `ShaderCoreProofs!BarriersHold` | `BarrierHolds` | `OnlySync` |
| `ShaderCoreProofs!ScoreboardKept` | `ScoreboardExact` | |
| `ShaderCoreProofs!CountersExact` | `InFlightAccounted` | |
| `ShaderCoreProofs!TypeCorrect` | (`TypeOK`) | |
| `ShaderCoreProofs!PendingWritesExact` | (`Waits`) | |
| `ShaderCoreProofs!WritersKeepContexts` | (`Owned`) | |
| `DataCacheProofs!HitsFindData` | `HitsHaveData` | |
| `DataCacheProofs!DirtyDataStays` | `DirtyDataKept` | |
| `DataCacheProofs!MshrMatches` | `MshrMatchesRequests` | |
| `DataCacheProofs!RequestsPinTheirLines` | (`Pinned`) | |
| `CrossbarProofs!CrossbarKeepsLinks` | `ImplementsLinks` | |
| `CrossbarProofs!QueuesSorted` | (`Sorted`) | |
| `SimtStackProofs!AlwaysAssembles` | (`Assembles`) | |
| `SimtStackProofs!StackInvariant` | (`IInv`) | |
| `SimtStackProofs!WarpsStayInSync` | `ThreadsInSync` | |
| `SimtStackProofs!StacksStayShort` | `Reconverges` | |

So each property that a passing run checks and that is not liveness is a theorem, with the
hypotheses of the last column. Those hypotheses are not for the
prover's convenience: the code breaks the property without them. The properties of the
data of caches have their conditions, `Settled` and `WritesBelow`, in themselves, as these are about
the configuration of one cache and not about all.

### `StreamManagerProofs`: types and bookkeeping

`TypeCorrect` has content because the code pops and looks up without testing:
`m_operations[s]` stays a sequence only if no step pops an empty one (`Tail(<<>>)`), and
a grid's stream is a stream only if it is in the map. `BooksKept` is what
`register_finished_kernel` asserts.

`KernelBookkeeping` is not inductive: nothing in it says that two running grids have
different streams, or that a finished uid is queued once, so retiring one could pop the
other's operation. Nor does it say that the number a new operation gets is unused. The
inductive invariant is `IInv == TypeOK /\ PushingAll /\ Bookkeeping`, where

* `PushingAll` says that a host walking all streams carries a wait, so that what it
  pushes is well typed;
* `Bookkeeping` is `KernelBookkeeping` with: ids are bounded by `nops` and differ
  within and between queues, no uid is queued twice as finished, and `running` is
  finite.

A host's push appends behind the front, so fronts persist; `Operate` starts a grid only in
a stream that is not pending, so its stream is nobody else's; `GpuCycle` moves uids from
`running` to the queue; `CheckFinishedKernel` pops one stream, which by distinctness
carries no other running grid; `StopAllRunningKernels` pops the streams of the finished
uids, whose grids differ. A destroyed stream is empty, so it carries none.

### `StreamOrderProofs`: the order of operations

The invariants are layers, each a strengthening of the one before it, so that a theorem
carries no hypothesis it does not need:

* `ListInv` (any hosts): `ListSound`, the list of streams holds no stream twice and only
  created ones, and the iterator points into it. It is enough for `IteratorValid`.
* `NamedInv` (`KeptStreams`: one host, or no stream is destroyed) adds `StreamsNamed`: a
  host that names or walks streams names live ones, and streams outside the list have no
  operations. With two hosts one may destroy the stream another walks.
* `HostInv` (`SingleHost`) adds `Exclusive`: once the loop of `push` has ended, the concurrent
  streams stay empty until the operation in stream zero is gone, because nobody else
  pushes. `SMzero` shows that two hosts break it. `DefaultExclusive` and
  `DestroyNeverSpins` follow.
* `WaitInv` (`KeptStreams`) adds `WalksBehind`: what was outstanding when a blocking call was
  made is in none of the streams it has passed. New operations have larger ids, so nothing
  that is waited for appears behind the walk. This is `BlockingCallsKept`, for any number
  of hosts as long as none destroys a stream under another's walk.
* `OrderInv` (`SingleHost` and `SingleRecorder`: the records of an event go to one stream) adds
  `RecordsInOrder`: the records of an event are queued without gaps and in the order of their
  numbers, each issued one is executed, queued or about to be pushed, and no wait is for a
  record that was not issued. So when the count of an event reaches that of a wait, it was
  the wait's own record: `WaitsInOrder`. With records in several streams
  it fails (`AnyStream`, section 5).

`KeepsStreamOrder` is the refinement. `Serves(S)` says what a step of the
simulation thread does to the queues: each stream of `S` loses its front, a wait only when
its event's count has got there, and the others are as they were but for launch
latency. Such a step maps to `StreamOrder`'s `Complete(S)`: that stream zero and the others
are not in progress together is `Exclusive`, that the right record released a wait is
`RecordsInOrder`. The step of a host that enqueues maps to `Accept`, every other step to a
stutter.

### `KernelManagerProofs`: grids, cores and retirement

None of the properties is inductive, and they need each other. `IInv` has seventeen
conjuncts, which relate what the code keeps in different places:

* `Counted`: `m_num_cores_running[k]` is the number of contexts with a CTA of `k`. With
  `EntriesCover` (a grid in the table or with CTAs has its entry; one that is popped is done and
  has none) it gives `CoresHoldLiveKernels`: a kernel is on its way to be deleted when its entry is removed,
  and that happens when the counter is 0 or when a limit has stopped it.
* `QueuedUntouched` and `WaitsOnce`: a grid not yet launched is waiting in one place and has left
  no trace, so a launch never finds a counter, a slot or an entry of an earlier life.
* `Books`: a grid with an entry is at the front of its stream, which is pending; retirement
  pops the right stream.
* `TableHoldsNoDone`, `OneKernelPerCore`, `Bound` (a core is bound to a kernel only when it does
  not share, and is released when it is empty), `CtasInTable` and `LimitsKnown` (what may differ
  once a limit is reached).
* `ExecutedLast`: an executed kernel that could still be selected is the last one selected,
  with no latency left. `select_kernel` tries that one first, so its assertion holds
  (`NeverSelectedTwice`).
* `ChildrenLinked`, `StreamsOfChildren`, `DeletedOnce`: until a child is popped its parent has it
  in its list and has an entry, so the parent cannot be popped, nor its streams be destroyed
  (`ParentsAwait`). Once the child is taken off the list, in the same step, nothing holds the
  parent, and it may be gone before the child's own object is.
* `SubjectKnown`, `Phases`: where the simulation thread is, against the mutex and the flag that
  ends the simulation.

`NeverWaits` and `FinishedHaveEntries` use two more invariants on top (`NeverStops`,
`FinishedKnown`). The first is under `NoLimit` (no cycle, instruction or CTA limit, which
is the default), as `KMstop` violates it with a limit; the second under `NoDeviceLaunch`,
as `KMcrash` violates it with a parent and a child.

### `MemoryPartitionProofs`: where each request is

`IInv == TypeOK /\ CreditsMatch /\ RowsServed /\ Phases` with: there is a function `place`
from requests to thirteen places, in the order in which they are passed, such that
`Located(place)`. That says that

* each queue holds the requests of its place, each once, and accesses to one row in the
  order in which they were sent; the tracker has those that are on their way;
* `NoneOvertakes`: of two accesses to one row, the later is in no later place.

Each action leaves `place` alone or moves requests on: one, in most actions; an L2 cycle one
from each of its queues; a write-back, which nobody waits for, to the end. Why
the strengthening is needed:

* `CreditsMatch` relates the credits of each sub-partition to the requests in the channel. It is
  kept if one request enters or leaves the channel whenever a credit is borrowed or
  returned, which takes distinctness across all queues. That the shared credit is at
  least 1 when a reply returns one, although `return_credit` does not know what was
  borrowed, is a count: each other sub-partition with a private credit out has a request
  of its own in the channel.
* `SameRowInOrder` needs order in every queue and between queues: the scheduler picks
  the oldest of the row it serves, and an access behind another cannot pass it by
  any other way.
* `RowsServed` (a row a bank is serving has a request waiting) is why there is an oldest.
* `Phases` (the channel holds at most one request for the scheduler, from the end of a cycle
  to the next) gives `SchedulerHasRoom`: `full()` is asked a cycle before the request
  is added, and nothing else has come since. A limit of 0 means "no limit" to `full()`
  only (section 5), so the theorem is for `SchedSize # 0`.

Two properties are consequences: `BusyCovers` reads the tracker off `place`, `RowsInOrder` reads
off `NoneOvertakes`.

### `ShaderCoreProofs`: fetches, barriers, registers and counters

Three invariants on top of `CoreInv`.

`CoreInv == Contexts /\ Fetching /\ FetchMatchesPc /\ Fetched`. A fetch is issued for a warp with
nothing in its instruction buffer, and comes back after any number of other steps. So the
property takes `Fetching`: a warp that waits for a miss, or whose fetch is in the fetch
buffer, has an empty buffer, has not ended and does not wait twice. Only then do `IssueWarp` and
`ControlHazard`, which move `m_next_pc`, leave it alone, as they need an entry to issue. And a
context must not go to another CTA while a fetch for it is out, which is
`Contexts`: it counts the warps that have not exited, and is free when none is left.

`BarrierInv` adds `AtBarriers` (a warp is in the set of at most one barrier, and then it is
marked as waiting) and `Together`: `Rounds(w, b)`, the times `w` has *passed* `b`, is the
same for all warps of a CTA that have not exited. `BarrierHolds` is a consequence: who waits at
`b` has arrived once more than it has passed. A release, by the last arrival or by an exit, raises
the rounds of all at once, because the set it empties is all of the live warps.
`AtBarriers` is what `bar.arrive` breaks: a warp could be in two sets with one flag (section 5), so
the theorem is under `OnlySync`.

`Flight == Staged /\ Separate /\ Reserved /\ Waits` is the scoreboard's:

* `Staged` says which instructions each stage may hold, and that each is code of the program.
* `Separate`: an instruction is in one stage. A load, store or atomic may be in the
  dispatch register with some accesses to go while others are already on their way or back, and
  not otherwise; one to shared memory has no access in flight. This is where `Instance`'s fresh
  uid is needed (`Fresh`), and that what is in flight is finite (`ScoreInv`), without which
  there might be none.
* `NoSharing` (in `Reserved`): two instructions in flight that write a register of one warp
  are the same. `CheckCollision` at issue gives it, from `ScoreboardExact` itself: an
  output in flight is reserved, so nothing that writes it issues.
* `Waits`: the counter of a register a load will write is the accesses that load has still to
  send, while it is in the dispatch register, and those on their way (`Awaited`). `LdstIssue` sets
  the counter to the number of accesses; each reply, and each hit, takes one off. So the register is
  released when it is 0, by the last reply of that load, and then nothing of the load is left in
  any stage. `PendingWritesExact` states it by itself; it is also why the assertions
  before each decrement hold (`shader.cc:1945-1960`, `2700-2722`).

`WritersKeepContexts` combines it with `CoreInv`: `fetch()` registers a warp's
exit only when its scoreboard is empty (`Reclaimable`, `shader.cc:911-913`), so what still writes a register belongs to the CTA in
the context.

`Accounts == PipelineCounted /\ StoresCounted /\ AtomicsCounted /\ Owned /\ Homed`, on top of
`ScoreInv`, gives `CountersExact` and the counters' half of `TypeCorrect`:

* `PipelineCounted`: `m_inst_in_pipeline` is what the instruction buffer and the pipelines hold
  of the warp. `decode()` counts what it fills in, NULL entries too; issue moves one from the
  buffer to a pipeline; flushes, by a jump or an exit, take off what they drop.
* `StoresCounted`: `m_stores_outstanding` is the stores' accesses in the latency queue and below.
  Several accesses of one store are equal elements of a bag, and `Copies` counts them as the
  cardinality of a set, so that no recursion is needed; `ChangesPut` and `ChangesTake` say what
  adding or taking one access does to the count of any set of instructions.
* `AtomicsCounted`: `m_n_atomic` is what one atomic of the warp has left, and there is one at most,
  as `waiting()` lets a warp issue nothing while its counter is not 0. No atomic is in the latency
  queue (`AtomsRouted`), whose hits would answer it without counting down.
* `Homed`: a warp with anything in a pipeline or on its way has not exited and has its context.
  Stores and ALU instructions without outputs are in no scoreboard, so this is not `Owned`. It
  needs all three terms of `Reclaimable` (`StillWorking`): a store's last access is only in
  `m_stores_outstanding`, an ALU instruction in `m_inst_in_pipeline`, a load whose accesses are
  on their way only in the scoreboard.

`TypeCorrect` has content because the code decrements without saturating: a counter stays a number
only because what it counts is there. `m_cta_status` does by `Contexts`. No run has `ShaderCore`'s
`TypeOK` among its properties, as `InFlightAccounted` says what could go wrong with the counters.

Each of them was checked by TLC on `SCcore`'s kernels and on kernels with loops (six million
states) before it was proved.

### `DataCacheProofs`: misses, fills and dirty data

`IInv` has six conjuncts that relate the tag array, the MSHRs and the reads on their way, which
the code keeps apart, and the two properties of the data, `HitsHaveData` and `DirtyDataKept`,
whose condition is `Settled`: no discards, copies or races. It is not for the prover: each of
the three breaks both (section 5). `HitsWhole` and `DirtyHeld` are what they say under it.

* `Typed`: lines, entries and requests have their shapes.
* `Matched`: an address has an entry exactly if it has a read below or a place among the ready
  entries, never both and never two. `SendReadRequest` merges into an entry or makes one with
  its read; `MarkReady` turns the read into a place when the last part has come;
  `NextAccess` takes the place away with the last access of the list. `MshrMatchesRequests`
  is this, counted, and holds whatever happens to the lines.
* `Pinned`, for caches that allocate on misses: the line whose index was saved with a request has
  the request's block, the sector still reserved (`RequestsPinTheirLines`). An eviction takes no
  line with a reserved sector; what else could take it is excluded by `Settled`. So `fill()` by index
  is right without looking at the tag.
* `FilledOnce`, for caches that allocate on fills: nothing is reserved, a block is in one line, and
  no line has the sectors that are still asked for. So `FillByAddress` finds a miss, and what
  it overwrites it did not have.
* `AtomicsKnown`: an entry with an atomic in its list is marked as having one, which is what makes the filled
  sector dirty before the atomic is answered.
* `Clean`: a cache that allocates on fills has nothing that is not below, if local writes do
  not come (`WritesBelow`). This is all there is to say of dirty data there, as a fill writes
  nothing back (section 5).

`HitsHaveData` follows step by step: a partial write makes a sector unreadable, so it is
fetched before it can be hit; a fill makes data whole, of the right block by `Pinned` or by
`FilledOnce`. For `DirtyDataKept`, allocating a dirty sector again sets `modified_on_fill`, so that
the fill makes it `MODIFIED`; an eviction removes from `unsaved` exactly what it sends below
(`WrittenBack`), so the other lines must have the rest; and a fill by index leaves a
sector dirty that was dirty before it was reserved.

TLC checked the conjuncts on the configurations of `DCcache` before they were proved.

### `CrossbarProofs`: links

`IInv` says that each router's queues are sequences of packets, pointers and arbiter state in
their ranges, and (`Sorted`) that an input queue holds only what its node sent and an output
queue only what goes to its node, on the subnet of that direction. The refinement needs the latter:
a link is read off one input and one output queue, and only so is every packet of a pair on
its link.

A cycle of an arbiter is a loop over the nodes; in a cycle as many packets move as there are grants,
and iSLIP does it several times. `Moved` is one transfer: the first packet of an input for an output
leaves one queue and is appended to the other. `SameLinks` says that a router state carries the same
packets on every link as another. Each turn of either loop either changes no queue or is one
`Moved`, which keeps `SameLinks`: the packet that leaves is the oldest of its link in the input
queue, because the arbiter takes the head. That the whole loop keeps it is by induction on the
number of turns (`Induction`, below). `Push` appends to a link, `Pop` takes the head of one.

### `SimtStackProofs`: postdominators and the stack

*The analysis.* `Postdominators` makes as many passes as the program has instructions.
`AnalysisStable` is that this is enough: for each `b`, the nodes `b` still seems to postdominate
become fewer with each pass that changes anything, and once a pass changes nothing none does.
So the result is a fixed point, and by induction over passes it is above any other. `CanEnd`
gives each instruction a distance to the exit, along which postdominators are antisymmetric,
and the postdominators of one instruction are ordered. So there is a nearest one:
`AlwaysAssembles`. For the stack it matters that what an instruction's successor does not reach
without passing `j` the instruction does not either, which is the fixed point, and that no branch
has itself, or an instruction outside its kernel or function, as reconvergence point.

*The stack.* `ThreadsInSync` says nothing of what waits below the top, so it is not
inductive. `IInv` says of each entry `e` (`Joins`) that it is `Under` one below it:

* `e` runs some of the threads of that entry and no entry between them has any of these;
* `e` is to end where that entry waits, is not there yet, and that instruction postdominates the
  one at which `e` is. So a step of the top either keeps the postdominator or arrives; or
  `e` is a call, directly above the entry that called and with the same threads;
* there is one call at most and all above it belongs to it (functions call no other), the lowest
  entry ends nowhere, and each further entry has fewer threads, which bounds the height.

`Where` ties this to the threads: the call stack of a thread in the function holds the address after
the call of the entry below the call. `DoneOut`: an exited thread is in no entry, but for the
lowest when that is at the exit, where a branch reconverges that some threads leave the kernel by.

A step is one of five kinds (all exit; call; return; one target; two targets). The
last is the hard one: the top waits at the reconvergence point, if it does not reconverge there itself, and up to two
groups are pushed (`Parting`); which are left out because they are already at a
reconvergence point decides where their threads are found (`PartGroup`, `Gathered`).

The invariant was checked by TLC on the instance of `SSstack` before it was proved.

### Induction

What a recursive definition yields for every input needs induction over a predicate, for which
the library's theorems take an operator as a parameter. Where it was needed, for loops over nodes and passes over
a program, it is done with sets instead: `LeastExists` (a set of naturals that is not empty has a
least member, from the library's well-founded relation), `Induction` (a set with 0 and with each
member its successor has all naturals), and that a function defined by recursion over 0 .. n
exists and satisfies its equation.

### How the proofs are laid out

Definitions of the invariant, lemmas about operators (queues, sets, counts), one lemma
per action or group of actions that leave the same variables alone with one step per conjunct
that they disturb, then `InitIInv`/`NextIInv` and the theorems. Every invariant was checked
by TLC on small instances before it was proved.

### What is only model-checked

* Liveness under fairness (`OperationsComplete`, `CallsReturn`, `AcceptedKernelsRetire`,
  `LimitEndsSimulation`, `RequestsAnswered`, `CtasComplete`, `ReadsAnswered`, `NobodyStarves`),
  which is out of the prover's reach.

## 7. Abstractions, and what is not modelled

Inside the modelled parts:

* Data is absent: no addresses, sizes, arguments or copied bytes. The four kinds of
  copy are one (`memcpy`).
* The GPU of `StreamManager` completes any subset of the running kernels in a cycle,
  in any order, and may leave memory traffic behind after the last (`draining`).
  In `KernelManager` that traffic only delays what follows and is left out.
* CTAs are counted against contexts; threads, shared memory, registers are the
  reason for `MaxCta` and are not computed. Thread exits before the last of a CTA
  change nothing that is modelled.
* `update_stats` runs in every round; the code skips it when no cycle ran, in
  which case the counters it moves are zero.
* `KernelManager` lets kernels launch kernels without `CUDA_LAUNCH_BLOCKING`. With it
  the simulation thread itself would wait in `push`.
* A host makes no call after `cudaThreadExit`.
* A memory request is one DRAM burst, and not broken into sectors; the row a bank opens
  is opened with the column command; the DRAM pipeline is a queue of `RwqSize` requests
  with any delay. The FIFO scheduler is not modelled.
* Functional-only simulation (`is_functional_sim`) and the sequential simulation
  thread (OpenCL) are left out.

* `ShaderCore`: warps are uniform (`SimtStack` has divergence); several schedulers, the choice
  of a scheduler among ready warps, register banks and the latencies of units are free
  choices; textures and constants are left out. The L1I, L1D and everything below answer each
  access once, in any order.
* `DataCache`: one set, so the index of a line in the tag array is its way; ports and the
  `pending_lines` of the streaming cache, which only delay or count, are left out, and so
  are FIFO replacement, the texture cache and write policies no configuration uses.
* `Crossbar`: two subnets; statistics and conflicts counted are left out.
* `SimtStack`: no `BRX`/`BREAK`, no resume from a checkpoint; the programs have a function with
  one return and without exits, as the code is wrong for others (section 5).

Left out altogether: the semantics of PTX instructions other than control, and parsing;
GPUWattch, HotSpot (numeric code without control to speak of); intersim2 (a third-party
network simulator); the OpenCL front end (one operation at a time); tools. DTM and power
sampling: `dtm()` compares a floating-point temperature with a threshold and moves an index
into a table of clocks by one; `init()` puts it back. There is no second actor, no order and
no failure in it to check, and what it compares is the output of the numeric solvers.

## 8. Plan

Done: `StreamManager`, `StreamOrder`, `KernelManager`, `MemoryPartition`, `ShaderCore`,
`DataCache`, `Crossbar` and `Links`, `SimtStack`, their runs; the proofs of all their safety
properties, and that `StreamManager` implements `StreamOrder` and
`Crossbar` implements `Links`.

## 9. How to run it

    tlc -config SMone.cfg MCStreamManager.tla        # SM*.cfg
    tlc -config KMcdp.cfg MCKernelManager.tla        # KM*.cfg
    tlc -config MPchannel.cfg MCMemoryPartition.tla
    tlc -config SCcore.cfg MCShaderCore.tla
    tlc -config DCcache.cfg MCDataCache.tla
    tlc -config XBnet.cfg MCCrossbar.tla
    tlc -config SSstack.cfg MCSimtStack.tla
    tlapm StreamManagerProofs.tla      # and StreamOrderProofs, KernelManagerProofs,
                                       # MemoryPartitionProofs, ShaderCoreProofs,
                                       # DataCacheProofs, CrossbarProofs,
                                       # SimtStackProofs

With two workers each run takes from seconds to three minutes. From nothing the proofs of a
module take between two and fifteen minutes; a second call only tries what changed.

`PROJECT.json` lists runs, mutants, the map from definitions to source lines,
findings, hazards and theorems.
