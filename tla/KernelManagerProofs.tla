------------------------ MODULE KernelManagerProofs ------------------------
(***************************************************************************)
(* Proofs about KernelManager, for any grids, families of grids, streams,  *)
(* clusters, cores, contexts and limits.                                   *)
(*                                                                         *)
(* None of the safety properties is inductive.  What the code keeps in     *)
(* different places has to be related first: the counter of a kernel's     *)
(* CTAs and the contexts of the cores; the table, the streams and the map  *)
(* of grids; a kernel that waits for its launch and the traces only a      *)
(* launched one leaves; a limit and the state in which it was reached.     *)
(***************************************************************************)
EXTENDS KernelManager, FiniteSetTheorems, WellFoundedInduction, TLAPS

\* The kernels popped from their streams.
Gone == retiring \cup deleted

\* The contexts that hold a CTA of k.
CtasOf(k) == {x \in Cores \X Contexts : m_cta_status[x[1]][x[2]] = k}

\* The kernel counts its CTAs.
Counted == \A k \in Kernels : m_num_cores_running[k] = Cardinality(CtasOf(k))

Elements(q) == {q[i] : i \in 1..Len(q)}
Once(q)     == \A i, j \in 1..Len(q) : q[i] = q[j] => i = j

\* k was not launched on the GPU yet: it is not made, or waits to be pushed or
\* for its stream.
Queued(k) ==
    \/ k \notin launched
    \/ k \in Elements(device_launch_op)
    \/ \E s \in Streams : k \in Elements(m_operations[s]) /\ ~(m_pending[s] /\ k = Head(m_operations[s]))

\* Nothing of what running leaves behind.
Untouched(k) ==
    /\ m_next_cta[k] = 0 /\ m_num_cores_running[k] = 0 /\ m_child_kernels[k] = {}
    /\ \A n \in Slots : m_running_kernels[n] # k
    /\ \A c \in Cores : m_kernel[c] # k
    /\ k \notin Gone /\ k \notin m_executed_kernel_uids
    /\ k \notin DOMAIN m_grid_id_to_stream

QueuedUntouched == \A k \in Kernels : Queued(k) => Untouched(k)

\* A grid waits in one place, in the queue of device launches or in its stream.
StreamsOnce ==
    \A s \in Streams :
        /\ Once(m_operations[s])
        /\ \A k \in Elements(m_operations[s]) :
              StreamOf[k] = s /\ k \in launched /\ k \notin Elements(device_launch_op)
DeviceOnce == Once(device_launch_op) /\ Elements(device_launch_op) \subseteq launched
WaitsOnce  == StreamsOnce /\ DeviceOnce

\* A grid with an entry is in progress at the front of its stream.
Books ==
    \A k \in DOMAIN m_grid_id_to_stream :
        /\ m_grid_id_to_stream[k] = StreamOf[k]
        /\ m_operations[StreamOf[k]] # <<>> /\ Head(m_operations[StreamOf[k]]) = k
        /\ m_pending[StreamOf[k]]

\* A grid has its entry while it is in the table or has CTAs, and no entry and
\* no CTA when it is popped.
EntriesCover ==
    /\ \A n \in Slots : m_running_kernels[n] # None => m_running_kernels[n] \in DOMAIN m_grid_id_to_stream
    /\ \A k \in Kernels : m_num_cores_running[k] > 0 => k \in DOMAIN m_grid_id_to_stream
    /\ \A k \in Gone : Done(k) /\ k \notin DOMAIN m_grid_id_to_stream

\* A core is bound to a kernel only when it does not share, and then it has CTAs
\* of it, unless the kernel will issue no more of them.
Bound ==
    \A c \in Cores : m_kernel[c] # None =>
        /\ ~ConcurrentSm
        /\ Occupied(c) # {} \/ (HitMaxCta /\ ~NoMoreCtas(m_kernel[c]))

Stopping == spc \in {"halting", "stopping", "stopped"} \/ m_lock

\* A limit is known where it matters, and nothing else stops the simulation.
LimitsKnown ==
    /\ MaxHit => reached \/ HitMaxCta
    /\ Stopping => reached \/ HitMaxCta
    /\ spc = "detect" => m_total_cta_launched = 0

\* While no limit is reached a kernel with CTAs is in the table.
CtasInTable ==
    \/ reached \/ HitMaxCta
    \/ \A k \in Kernels : m_num_cores_running[k] > 0 => k \in Running

\* A kernel that was selected and can still be selected is the one selected last.
ExecutedLast ==
    \A k \in m_executed_kernel_uids :
        \/ NoMoreCtas(k) \/ HitMaxCta \/ k \notin Running
        \/ Last = k /\ m_kernel_TB_latency[k] = 0

\* A child is known to its parent, which has its entry and keeps the child's
\* stream, until it is popped.
ChildrenLinked ==
    \A k \in launched \ Gone : Parent[k] # None =>
        /\ k \in m_child_kernels[Parent[k]]
        /\ Parent[k] \in DOMAIN m_grid_id_to_stream
        /\ StreamOf[k] \in m_cta_streams[Parent[k]]

DeletedOnce == retiring \cap deleted = {}

\* The streams a grid created are those of the grids it may launch.
StreamsOfChildren ==
    \A k \in Kernels : \A x \in m_cta_streams[k] :
        \E j \in Kernels : StreamOf[j] = x /\ Parent[j] = k

SubjectKnown == spc = "register" => subject \in Kernels

\* The mutex is held and the end is signalled only where the loop stops kernels.
Phases ==
    /\ m_lock => spc \in {"halting", "stopping", "register", "delete", "stopped", "crash", "stuck"}
    /\ spc \in {"halting", "stopping", "stopped"} => m_lock
    /\ g_sim_done => spc \in {"loop", "stop", "dead"}

IInv ==
    /\ TypeOK /\ Counted /\ QueuedUntouched /\ WaitsOnce /\ Books /\ EntriesCover
    /\ TableHoldsNoDone /\ OneKernelPerCore /\ Bound /\ LimitsKnown /\ CtasInTable
    /\ ExecutedLast /\ ChildrenLinked /\ DeletedOnce /\ StreamsOfChildren /\ SubjectKnown /\ Phases

\* No limit is configured: the defaults of gpu-sim.cc:614-622.
NoLimit == ~CycleLimit /\ MaxCtaOpt = 0 /\ MaxCompletedOpt = 0

\* The thread does not stop or wait, and no stream holds a grid that was popped.
NeverStops ==
    /\ ~limit /\ ~m_lock /\ spc # "stuck"
    /\ \A s \in Streams : \A k \in Elements(m_operations[s]) : k \notin Gone

\* The program launches no kernels from the device.
NoDeviceLaunch == \A k \in Kernels : Parent[k] = None

\* A grid is queued as finished once, with its entry, when it has left the table
\* and, unless it was stopped, its CTAs have exited.
FinishedKnown ==
    /\ Once(m_finished_kernel)
    /\ \A k \in Elements(m_finished_kernel) :
         /\ k \in DOMAIN m_grid_id_to_stream /\ k \notin Running
         /\ m_lock \/ g_sim_done \/ m_num_cores_running[k] = 0
    /\ spc = "register" => subject \in DOMAIN m_grid_id_to_stream /\ subject \notin Elements(m_finished_kernel)
    /\ spc # "crash"
-----------------------------------------------------------------------------
(* Lemmas about the operators.                                              *)

\* A set of numbers has a least element: what FirstOf chooses is there.
LEMMA LeastElement ==
    ASSUME NEW S \in SUBSET Nat, S # {}
    PROVE  \E n \in S : \A x \in S : n <= x
<1> DEFINE T == {0..n : n \in S}
<1>1. \A n \in S : 0..n \in FiniteSubsetsOf(Nat)
  <2> TAKE n \in S
  <2>1. n \in Int /\ 0 \in Int
    OBVIOUS
  <2>2. IsFiniteSet(0..n)
    BY <2>1, FS_Interval
  <2> QED BY <2>2 DEF FiniteSubsetsOf
<1>2. T \subseteq FiniteSubsetsOf(Nat) /\ T # {}
  BY <1>1
<1>3. PICK t \in T : \A y \in T : ~ (<<y, t>> \in StrictSubsetOrdering(Nat))
  BY <1>2, WFMin, FS_StrictSubsetOrderingWellFounded
<1>4. PICK n \in S : t = 0..n
  OBVIOUS
<1>5. ASSUME NEW x \in S, ~(n <= x) PROVE FALSE
  <2>1. 0..x \subseteq 0..n /\ n \notin 0..x /\ n \in 0..n
    BY <1>5
  <2>2. <<0..x, t>> \in StrictSubsetOrdering(Nat)
    BY <2>1, <1>4 DEF StrictSubsetOrdering
  <2> QED BY <2>2, <1>3
<1> QED BY <1>5

\* FirstOf finds the first element.
LEMMA FirstOfIn ==
    ASSUME NEW S \in SUBSET Nat, S # {}
    PROVE  FirstOf(S) \in S /\ \A x \in S : FirstOf(S) <= x
BY LeastElement DEF FirstOf

\* Cores and contexts are finite in number.
LEMMA PlacesFinite ==
    ASSUME KernelManagerAssumption
    PROVE  /\ IsFiniteSet(Cores \X Contexts)
           /\ IsFiniteSet(Contexts) /\ Cardinality(Contexts) = MaxCtaPerCore
           /\ \A k \in Kernels : ContextsFor(k) \subseteq Contexts /\ IsFiniteSet(ContextsFor(k))
                                 /\ Cardinality(ContextsFor(k)) > 0
<1> USE DEF KernelManagerAssumption
<1>1. IsFiniteSet(Clusters) /\ IsFiniteSet(0..(CoresPerCluster - 1))
  BY FS_Interval DEF Clusters
<1>2. IsFiniteSet(Contexts) /\ Cardinality(Contexts) = MaxCtaPerCore
  BY FS_Interval DEF Contexts
<1>3. IsFiniteSet(Cores)
  BY <1>1, FS_Product DEF Cores
<1>4. IsFiniteSet(Cores \X Contexts)
  BY <1>2, <1>3, FS_Product
<1>5. ASSUME NEW k \in Kernels
      PROVE  ContextsFor(k) \subseteq Contexts /\ IsFiniteSet(ContextsFor(k))
             /\ Cardinality(ContextsFor(k)) > 0
  <2>1. MaxCta[k] \in Nat \ {0} /\ MaxCta[k] <= MaxCtaPerCore
    OBVIOUS
  <2>2. 1..MaxCta[k] \subseteq Contexts
    BY <2>1 DEF Contexts
  <2>3. IsFiniteSet(1..MaxCta[k]) /\ Cardinality(1..MaxCta[k]) = MaxCta[k]
    BY <2>1, FS_Interval
  <2> QED BY <1>2, <2>1, <2>2, <2>3 DEF ContextsFor
<1> QED BY <1>2, <1>4, <1>5

\* The core whose turn it is is a core.
LEMMA TurnType ==
    ASSUME KernelManagerAssumption, TypeOK
    PROVE  TurnCluster \in Clusters /\ TurnCore \in Cores
           /\ TurnCore[1] \in Clusters /\ TurnCore[2] \in 0..(CoresPerCluster - 1)
<1> USE DEF KernelManagerAssumption
<1>1. turn.cluster \in Nat /\ turn.last \in Nat /\ turn.core \in Nat
  BY DEF TypeOK, Clusters
<1>2. TurnCluster \in Clusters
  BY <1>1 DEF TurnCluster, Clusters
<1>3. m_cta_issue_next_core[TurnCluster] \in Nat
  BY <1>2 DEF TypeOK
<1>4. (turn.core + m_cta_issue_next_core[TurnCluster] + 1) % CoresPerCluster \in 0..(CoresPerCluster - 1)
  BY <1>1, <1>3
<1> QED BY <1>2, <1>4 DEF TurnCore, Cores

\* Selected has slots of kernels with CTAs to issue: the last one, or one that
\* may be issued from.
LEMMA SelectedType ==
    ASSUME KernelManagerAssumption, TypeOK
    PROVE  /\ Selected \subseteq Slots
           /\ KeepsLast => Selected = {m_last_issued_kernel}
           /\ \A n \in Selected : /\ m_running_kernels[n] \in Kernels
                                  /\ ~NoMoreCtas(m_running_kernels[n])
                                  /\ m_kernel_TB_latency[m_running_kernels[n]] = 0
           /\ ~KeepsLast => \A n \in Selected : KernelMoreCtaLeft(m_running_kernels[n])
<1>1. CASE KeepsLast
  <2>1. Selected = {m_last_issued_kernel} /\ m_last_issued_kernel \in Slots
    BY <1>1 DEF Selected, TypeOK
  <2>2. Last \in Kernels
    BY <1>1, <2>1 DEF KeepsLast, Last, TypeOK
  <2> QED BY <1>1, <2>1, <2>2 DEF KeepsLast, Last
<1>2. CASE ~KeepsLast
  <2>1. \A x \in Slots : InTurn(x) \in Slots
    BY SMTT(30) DEF InTurn, Slots, TypeOK, KernelManagerAssumption
  <2>2. Selected \subseteq {InTurn(x) : x \in {y \in Slots : Selectable(InTurn(y))}}
    BY <1>2 DEF Selected
  <2>3. \A n \in Selected : n \in Slots /\ Selectable(n)
    BY <2>1, <2>2
  <2>4. \A n \in Slots : m_running_kernels[n] \in Kernels \cup {None}
    BY DEF TypeOK
  <2> QED BY <1>2, <2>3, <2>4 DEF Selectable, KernelMoreCtaLeft
<1> QED BY <1>1, <1>2

\* The slot select_kernel() stops at.
LEMMA FirstSelected ==
    ASSUME KernelManagerAssumption, TypeOK, Selected # {}
    PROVE  FirstOf(Selected) \in Selected
<1>1. Selected \in SUBSET Nat
  BY SelectedType DEF Slots
<1> QED BY <1>1, FirstOfIn

\* The kernel whose CTA is issued: the one of the core, or one of the table.
LEMMA KernelForType ==
    ASSUME KernelManagerAssumption, TypeOK, NEW c \in Cores
    PROVE  /\ KernelFor(c) \in Kernels \cup {None}
           /\ NeedsKernel(c) /\ Selected # {} => KernelFor(c) \in Running
<1>1. m_kernel[c] \in Kernels \cup {None}
  BY DEF TypeOK
<1>2. Selected # {} => m_running_kernels[FirstOf(Selected)] \in Kernels
  BY FirstSelected, SelectedType
<1>3. Selected # {} => m_running_kernels[FirstOf(Selected)] \in Running
  BY <1>2, FirstSelected, SelectedType DEF Running, KernelManagerAssumption
<1> QED BY <1>1, <1>2, <1>3 DEF KernelFor

\* A core that can issue a CTA has a free context for it, which is where
\* issue_block2core() finds it.
LEMMA FreeContext ==
    ASSUME KernelManagerAssumption, TypeOK, NEW c \in Cores, NEW k \in Kernels, CanIssue1Block(c, k)
    PROVE  /\ FirstOf(FreeContexts(c, k)) \in Contexts
           /\ m_cta_status[c][FirstOf(FreeContexts(c, k))] = None
<1>1. ContextsFor(k) \subseteq Contexts /\ IsFiniteSet(Occupied(c))
  <2>1. Occupied(c) \subseteq Contexts
    BY DEF Occupied
  <2> QED BY <2>1, PlacesFinite, FS_Subset
<1>2. FreeContexts(c, k) # {}
  <2>1. SUFFICES ASSUME FreeContexts(c, k) = {} PROVE FALSE
    OBVIOUS
  <2>2. ContextsFor(k) \subseteq Occupied(c)
    BY <1>1, <2>1 DEF FreeContexts, Occupied
  <2>3. Cardinality(ContextsFor(k)) <= Cardinality(Occupied(c))
    BY <1>1, <2>2, FS_Subset
  <2>4. Cardinality(ContextsFor(k)) \in Nat /\ Cardinality(Occupied(c)) \in Nat
    BY <1>1, PlacesFinite, FS_CardinalityType
  <2> QED BY <2>3, <2>4 DEF CanIssue1Block, NActiveCta
<1>3. FreeContexts(c, k) \in SUBSET Nat
  BY <1>1 DEF FreeContexts, Contexts
<1>4. FirstOf(FreeContexts(c, k)) \in FreeContexts(c, k)
  BY <1>2, <1>3, FirstOfIn
<1> QED BY <1>1, <1>4 DEF FreeContexts

\* The contexts of a kernel are counted by a number, which is 0 when there are
\* none.
LEMMA CountType ==
    ASSUME KernelManagerAssumption, NEW k \in Kernels
    PROVE  /\ IsFiniteSet(CtasOf(k)) /\ Cardinality(CtasOf(k)) \in Nat
           /\ Cardinality(CtasOf(k)) = 0 <=> CtasOf(k) = {}
<1>1. CtasOf(k) \subseteq Cores \X Contexts
  BY DEF CtasOf
<1>2. IsFiniteSet(CtasOf(k))
  BY <1>1, PlacesFinite, FS_Subset
<1> QED BY <1>2, FS_CardinalityType, FS_EmptySet

\* A kernel whose counter is 1 has a CTA in one context only.
LEMMA OneCta ==
    ASSUME KernelManagerAssumption, TypeOK, Counted, NEW k \in Kernels, m_num_cores_running[k] = 1,
           NEW x \in CtasOf(k), NEW y \in CtasOf(k)
    PROVE  x = y
<1>1. Cardinality(CtasOf(k)) = 1 /\ IsFiniteSet(CtasOf(k))
  BY CountType DEF Counted
<1>2. PICK z : CtasOf(k) = {z}
  BY <1>1, FS_Singleton
<1> QED BY <1>2

\* The counters follow a CTA that is put in a free context.
LEMMA CountAdd ==
    ASSUME KernelManagerAssumption, TypeOK, Counted,
           NEW c \in Cores, NEW i \in Contexts, NEW k \in Kernels, m_cta_status[c][i] = None,
           m_cta_status' = [m_cta_status EXCEPT ![c] = [@ EXCEPT ![i] = k]],
           m_num_cores_running' = [m_num_cores_running EXCEPT ![k] = @ + 1]
    PROVE  Counted'
<1>1. ASSUME NEW j \in Kernels, j # k PROVE CtasOf(j)' = CtasOf(j)
  BY <1>1, ZenonT(60) DEF CtasOf, TypeOK, KernelManagerAssumption
<1>2. CtasOf(k)' = CtasOf(k) \cup {<<c, i>>} /\ <<c, i>> \notin CtasOf(k)
  BY SMTT(30) DEF CtasOf, TypeOK, KernelManagerAssumption
<1>3. Cardinality(CtasOf(k)') = Cardinality(CtasOf(k)) + 1
  <2>1. IsFiniteSet(CtasOf(k))
    BY CountType
  <2> QED BY <1>2, <2>1, FS_AddElement
<1>4. \A j \in Kernels : m_num_cores_running'[j]
                        = IF j = k THEN m_num_cores_running[k] + 1 ELSE m_num_cores_running[j]
  BY DEF TypeOK
<1> QED BY <1>1, <1>3, <1>4 DEF Counted

\* The counters follow a CTA that exits, and are not 0 before.
LEMMA CountRemove ==
    ASSUME KernelManagerAssumption, TypeOK, Counted,
           NEW c \in Cores, NEW i \in Contexts, NEW k \in Kernels, m_cta_status[c][i] = k,
           m_cta_status' = [m_cta_status EXCEPT ![c] = [@ EXCEPT ![i] = None]],
           m_num_cores_running' = [m_num_cores_running EXCEPT ![k] = @ - 1]
    PROVE  m_num_cores_running[k] > 0 /\ Counted'
<1>0. \A d \in Cores : \A e \in Contexts :
         m_cta_status'[d][e] = IF d = c /\ e = i THEN None ELSE m_cta_status[d][e]
  BY SMTT(30) DEF TypeOK
<1>1. ASSUME NEW j \in Kernels, j # k PROVE CtasOf(j)' = CtasOf(j)
  <2>1. \A x \in Cores \X Contexts :
           m_cta_status'[x[1]][x[2]] = j <=> m_cta_status[x[1]][x[2]] = j
    BY <1>0, <1>1 DEF KernelManagerAssumption
  <2> QED BY <2>1 DEF CtasOf
<1>2. CtasOf(k)' = CtasOf(k) \ {<<c, i>>} /\ <<c, i>> \in CtasOf(k)
  <2>1. \A x \in Cores \X Contexts :
           m_cta_status'[x[1]][x[2]] = k <=> m_cta_status[x[1]][x[2]] = k /\ x # <<c, i>>
    BY <1>0 DEF KernelManagerAssumption
  <2> QED BY <2>1 DEF CtasOf
<1>3. Cardinality(CtasOf(k)') = Cardinality(CtasOf(k)) - 1
  <2>1. IsFiniteSet(CtasOf(k))
    BY CountType
  <2>2. \A S, x : IsFiniteSet(S) /\ x \in S => Cardinality(S \ {x}) = Cardinality(S) - 1
    BY FS_RemoveElement
  <2>3. Cardinality(CtasOf(k) \ {<<c, i>>}) = Cardinality(CtasOf(k)) - 1
    BY <1>2, <2>1, <2>2
  <2> QED BY <1>2, <2>3
<1>4. m_num_cores_running[k] > 0
  BY <1>2, CountType DEF Counted
<1>5. \A j \in Kernels : m_num_cores_running'[j]
                        = IF j = k THEN m_num_cores_running[k] - 1 ELSE m_num_cores_running[j]
  BY DEF TypeOK
<1>6. Counted'
  BY <1>1, <1>3, <1>5 DEF Counted
<1> QED BY <1>4, <1>6

\* A kernel with a CTA on a core counts it.
LEMMA CtaCounted ==
    ASSUME KernelManagerAssumption, TypeOK, Counted, NEW c \in Cores, NEW i \in Contexts,
           m_cta_status[c][i] # None
    PROVE  m_cta_status[c][i] \in Kernels /\ m_num_cores_running[m_cta_status[c][i]] > 0
<1>1. m_cta_status[c][i] \in Kernels
  BY DEF TypeOK
<1>2. <<c, i>> \in CtasOf(m_cta_status[c][i])
  BY DEF CtasOf
<1> QED BY <1>1, <1>2, CountType DEF Counted

\* And a kernel that counts one has it.
LEMMA CountedCta ==
    ASSUME KernelManagerAssumption, TypeOK, Counted, NEW k \in Kernels, m_num_cores_running[k] > 0
    PROVE  \E c \in Cores : \E i \in Contexts : m_cta_status[c][i] = k
<1>1. CtasOf(k) # {}
  BY CountType DEF Counted
<1> QED BY <1>1 DEF CtasOf
-----------------------------------------------------------------------------
(* Type correctness.                                                        *)

\* A launch is pushed in its stream, or dropped.
LEMMA AcceptType ==
    ASSUME KernelManagerAssumption, TypeOK, NEW k \in Kernels, Accept(k)
    PROVE  m_operations' \in [Streams -> Seq(Kernels)]
BY SMTT(30) DEF Accept, TypeOK, KernelManagerAssumption

\* set_kernel_done() queues a kernel and empties its slot.
LEMMA SetKernelDoneType ==
    ASSUME TypeOK, NEW k \in Kernels, SetKernelDone(k)
    PROVE  /\ m_finished_kernel' \in Seq(Kernels)
           /\ m_running_kernels' \in [Slots -> Kernels \cup {None}]
<1>1. m_finished_kernel' \in Seq(Kernels)
  BY DEF SetKernelDone, TypeOK
<1>2. \A n \in Slots : m_running_kernels[n] \in Kernels \cup {None}
  BY DEF TypeOK
<1> QED BY <1>1, <1>2 DEF SetKernelDone

\* A launch keeps every variable in its domain.
LEMMA TypeLaunch ==
    ASSUME KernelManagerAssumption, TypeOK, NEW k \in Kernels, HostLaunch(k) \/ LaunchDevice(k)
    PROVE  TypeOK'
<1> USE DEF table, cores, counts, control, streams
<1>1. CASE HostLaunch(k)
  <2>1. m_operations' \in [Streams -> Seq(Kernels)]
    BY <1>1, AcceptType DEF HostLaunch
  <2> QED BY <1>1, <2>1, ZenonT(60) DEF HostLaunch, TypeOK
<1>2. CASE LaunchDevice(k)
  <2>1. Parent[k] \in Kernels /\ StreamOf[k] \in Streams
    BY <1>2 DEF LaunchDevice, KernelManagerAssumption
  <2>2. m_child_kernels' \in [Kernels -> SUBSET Kernels]
    <3>1. m_child_kernels' = [m_child_kernels EXCEPT ![Parent[k]] = m_child_kernels[Parent[k]] \cup {k}]
      BY <1>2 DEF LaunchDevice
    <3> QED BY <2>1, <3>1 DEF TypeOK
  <2>3. m_cta_streams' \in [Kernels -> SUBSET Streams]
    <3>1. m_cta_streams' = [m_cta_streams EXCEPT ![Parent[k]] = m_cta_streams[Parent[k]] \cup {StreamOf[k]}]
      BY <1>2 DEF LaunchDevice
    <3> QED BY <2>1, <3>1 DEF TypeOK
  <2>4. device_launch_op' \in Seq(Kernels) /\ launched' \subseteq Kernels
    BY <1>2 DEF LaunchDevice, TypeOK
  <2> QED BY <1>2, <2>2, <2>3, <2>4 DEF LaunchDevice, TypeOK
<1> QED BY <1>1, <1>2

\* A CTA's exit keeps every variable in its domain.
LEMMA TypeExit ==
    ASSUME KernelManagerAssumption, TypeOK, Counted, NEW c \in Cores, NEW i \in Contexts, CtaExit(c, i)
    PROVE  TypeOK'
<1> DEFINE k == m_cta_status[c][i]
<1>1. k \in Kernels /\ m_num_cores_running[k] > 0
  BY CtaCounted DEF CtaExit
<1>2. m_finished_kernel' \in Seq(Kernels) /\ m_running_kernels' \in [Slots -> Kernels \cup {None}]
  BY <1>1, SetKernelDoneType DEF CtaExit, TypeOK
<1>3. m_num_cores_running' \in [Kernels -> Nat]
  BY <1>1, SMTT(30) DEF CtaExit, TypeOK
<1>4. m_cta_status' \in [Cores -> [Contexts -> Kernels \cup {None}]]
  BY DEF CtaExit, TypeOK
<1>5. m_kernel' \in [Cores -> Kernels \cup {None}]
  BY DEF CtaExit, TypeOK
<1>6. gpu_completed_cta' \in Nat /\ reached' \in BOOLEAN
  BY DEF CtaExit, TypeOK, MaxHit
<1> QED BY <1>2, <1>3, <1>4, <1>5, <1>6 DEF CtaExit, TypeOK, streams, control

\* What IssueBlock2Core does to the table and the binding of core c: it binds c
\* to the kernel it selects, or nothing.
Selects(c, k) ==
    /\ NeedsKernel(c) /\ Selected # {} /\ k = m_running_kernels[FirstOf(Selected)]
    /\ m_last_issued_kernel' = FirstOf(Selected)
    /\ m_executed_kernel_uids' = m_executed_kernel_uids \cup {k}
    /\ m_kernel' = IF ConcurrentSm THEN m_kernel ELSE [m_kernel EXCEPT ![c] = k]
SelectsNone(c, k) ==
    /\ IF NeedsKernel(c) THEN Selected = {} /\ k = None ELSE k = m_kernel[c]
    /\ UNCHANGED <<m_last_issued_kernel, m_executed_kernel_uids, m_kernel>>

\* And to the contexts and counters: a CTA of k is put in context i, or nothing.
Puts(c, i, k) ==
    /\ KernelMoreCtaLeft(k) /\ CanIssue1Block(c, k) /\ m_cta_status[c][i] = None
    /\ m_cta_status' = [m_cta_status EXCEPT ![c] = [@ EXCEPT ![i] = k]]
    /\ m_num_cores_running' = [m_num_cores_running EXCEPT ![k] = @ + 1]
    /\ m_next_cta' = [m_next_cta EXCEPT ![k] = @ + 1]
    /\ m_total_cta_launched' = m_total_cta_launched + 1
    /\ m_cta_issue_next_core' = [m_cta_issue_next_core EXCEPT ![c[1]] = c[2]]
    /\ m_last_cluster_issue' = c[1]
PutsNone(c, k) ==
    /\ ~(KernelMoreCtaLeft(k) /\ CanIssue1Block(c, k))
    /\ UNCHANGED <<m_cta_status, m_num_cores_running, m_next_cta, m_total_cta_launched,
                   m_cta_issue_next_core, m_last_cluster_issue>>

\* The two decisions of IssueBlock2Core are independent given its kernel.
LEMMA IssueCases ==
    ASSUME KernelManagerAssumption, TypeOK, IssueBlock2Core
    PROVE  \E c \in Cores : \E k \in Kernels \cup {None} :
               /\ c[1] \in Clusters /\ c[2] \in 0..(CoresPerCluster - 1)
               /\ (Selects(c, k) /\ k \in Running /\ k \in Kernels) \/ SelectsNone(c, k)
               /\ (k \in Kernels /\ \E i \in Contexts : Puts(c, i, k)) \/ PutsNone(c, k)
<1> DEFINE c == TurnCore
           k == KernelFor(c)
<1>1. c \in Cores /\ c[1] \in Clusters /\ c[2] \in 0..(CoresPerCluster - 1)
  BY TurnType
<1>2. k \in Kernels \cup {None}
  BY <1>1, KernelForType
<1>3. (Selects(c, k) /\ k \in Running /\ k \in Kernels) \/ SelectsNone(c, k)
  <2>1. CASE NeedsKernel(c) /\ Selected # {}
    <3>1. k = m_running_kernels[FirstOf(Selected)]
      BY <2>1 DEF KernelFor
    <3>2. k \in Running /\ k \in Kernels
      BY <1>1, <2>1, <3>1, KernelForType, FirstSelected, SelectedType
    <3>3. Selects(c, k)
      BY <2>1, <3>1 DEF IssueBlock2Core, Selects
    <3> QED BY <3>2, <3>3
  <2>2. CASE ~(NeedsKernel(c) /\ Selected # {})
    BY <2>2 DEF IssueBlock2Core, SelectsNone, KernelFor
  <2> QED BY <2>1, <2>2
<1>4. (k \in Kernels /\ \E i \in Contexts : Puts(c, i, k)) \/ PutsNone(c, k)
  <2>1. CASE KernelMoreCtaLeft(k) /\ CanIssue1Block(c, k)
    <3>1. k \in Kernels
      BY <1>2, <2>1 DEF KernelMoreCtaLeft
    <3>2. /\ FirstOf(FreeContexts(c, k)) \in Contexts
          /\ m_cta_status[c][FirstOf(FreeContexts(c, k))] = None
      BY <1>1, <2>1, <3>1, FreeContext
    <3>3. Puts(c, FirstOf(FreeContexts(c, k)), k)
      BY <2>1, <3>2 DEF IssueBlock2Core, Puts
    <3> QED BY <3>1, <3>2, <3>3
  <2>2. CASE ~(KernelMoreCtaLeft(k) /\ CanIssue1Block(c, k))
    BY <2>2 DEF IssueBlock2Core, PutsNone
  <2> QED BY <2>1, <2>2
<1> QED BY <1>1, <1>2, <1>3, <1>4

\* Visiting the next core or cluster stays in range.
LEMMA NextTurnType ==
    ASSUME KernelManagerAssumption, TypeOK, turn.cluster < NClusters
    PROVE  {NextCluster, NextCore} \subseteq
             [cluster : 0..NClusters, core : 0..(CoresPerCluster - 1), last : Clusters]
<1> DEFINE Turns == [cluster : 0..NClusters, core : 0..(CoresPerCluster - 1), last : Clusters]
<1>1. turn \in Turns
  BY DEF TypeOK
<1>2. NClusters \in Nat /\ CoresPerCluster \in Nat \ {0}
  BY DEF KernelManagerAssumption
<1>3. \A t \in Turns : \A x \in 0..NClusters : \A y \in 0..(CoresPerCluster - 1) :
         [t EXCEPT !.cluster = x, !.core = y] \in Turns
  OBVIOUS
<1>4. \A t \in Turns : \A y \in 0..(CoresPerCluster - 1) : [t EXCEPT !.core = y] \in Turns
  OBVIOUS
<1>5. turn.cluster + 1 \in 0..NClusters /\ turn.core \in 0..(CoresPerCluster - 1)
  BY <1>1, <1>2
<1>6. NextCluster \in Turns
  <2>1. 0 \in 0..(CoresPerCluster - 1)
    BY <1>2
  <2> HIDE DEF Turns
  <2> QED BY <1>1, <1>3, <1>5, <2>1 DEF NextCluster
<1>7. NextCore \in Turns
  BY <1>1, <1>2, <1>4, <1>5, <1>6 DEF NextCore
<1> QED BY <1>6, <1>7

\* The issue of a CTA keeps every variable in its domain.
LEMMA TypeIssue ==
    ASSUME KernelManagerAssumption, TypeOK, IssueBlock2Core
    PROVE  TypeOK'
<1>1. PICK c \in Cores, k \in Kernels \cup {None} :
        /\ c[1] \in Clusters /\ c[2] \in 0..(CoresPerCluster - 1)
        /\ (Selects(c, k) /\ k \in Running /\ k \in Kernels) \/ SelectsNone(c, k)
        /\ (k \in Kernels /\ \E i \in Contexts : Puts(c, i, k)) \/ PutsNone(c, k)
  BY IssueCases
<1>2. /\ m_last_issued_kernel' \in Slots /\ m_executed_kernel_uids' \subseteq Kernels
      /\ m_kernel' \in [Cores -> Kernels \cup {None}]
  <2>1. CASE Selects(c, k) /\ k \in Kernels
    <3>1. FirstOf(Selected) \in Slots
      BY <2>1, FirstSelected, SelectedType DEF Selects
    <3>2. m_kernel' \in [Cores -> Kernels \cup {None}]
      BY <2>1 DEF Selects, TypeOK
    <3> QED BY <2>1, <3>1, <3>2 DEF Selects, TypeOK
  <2>2. CASE SelectsNone(c, k)
    BY <2>2 DEF SelectsNone, TypeOK
  <2> QED BY <1>1, <2>1, <2>2
<1>3. turn' \in [cluster : 0..NClusters, core : 0..(CoresPerCluster - 1), last : Clusters]
  BY NextTurnType DEF IssueBlock2Core
<1>4. /\ m_cta_status' \in [Cores -> [Contexts -> Kernels \cup {None}]]
      /\ m_num_cores_running' \in [Kernels -> Nat] /\ m_next_cta' \in [Kernels -> Nat]
      /\ m_total_cta_launched' \in Nat /\ m_last_cluster_issue' \in Clusters
      /\ m_cta_issue_next_core' \in [Clusters -> 0..(CoresPerCluster - 1)]
  <2>1. ASSUME k \in Kernels, NEW i \in Contexts, Puts(c, i, k)
        PROVE  <1>4!:
    <3>1. m_cta_status' \in [Cores -> [Contexts -> Kernels \cup {None}]]
      BY <2>1 DEF Puts, TypeOK
    <3>2. m_cta_issue_next_core' \in [Clusters -> 0..(CoresPerCluster - 1)]
      BY <1>1, <2>1 DEF Puts, TypeOK
    <3>3. m_num_cores_running' \in [Kernels -> Nat] /\ m_next_cta' \in [Kernels -> Nat]
      <4>1. k \in Kernels
        BY <2>1
      <4>2. \A g \in [Kernels -> Nat] : [g EXCEPT ![k] = @ + 1] \in [Kernels -> Nat]
        BY <4>1
      <4> QED BY <2>1, <4>2 DEF Puts, TypeOK
    <3>4. m_total_cta_launched' \in Nat /\ m_last_cluster_issue' \in Clusters
      BY <1>1, <2>1 DEF Puts, TypeOK
    <3> QED BY <3>1, <3>2, <3>3, <3>4
  <2>2. CASE PutsNone(c, k)
    BY <2>2 DEF PutsNone, TypeOK
  <2> QED BY <1>1, <2>1, <2>2
<1> QED BY <1>2, <1>3, <1>4 DEF IssueBlock2Core, TypeOK, streams

\* Retiring a grid pops its stream, which has it at its front.
LEMMA TypeRegister ==
    ASSUME KernelManagerAssumption, TypeOK, Books, SubjectKnown, RegisterFinished
    PROVE  TypeOK'
<1> DEFINE k == subject
           s == m_grid_id_to_stream[k]
           p == Parent[k]
<1>1. k \in Kernels /\ p \in Kernels \cup {None} /\ s \in Streams /\ m_operations[s] # <<>>
  BY DEF RegisterFinished, SubjectKnown, TypeOK, Books, KernelManagerAssumption
<1>2. m_operations' \in [Streams -> Seq(Kernels)] /\ m_pending' \in [Streams -> BOOLEAN]
  <2>1. Tail(m_operations[s]) \in Seq(Kernels)
    BY <1>1, SMTT(30) DEF TypeOK
  <2>2. m_operations' = [m_operations EXCEPT ![s] = Tail(m_operations[s])]
    BY DEF RegisterFinished
  <2>3. m_pending' = [m_pending EXCEPT ![s] = FALSE]
    BY DEF RegisterFinished
  <2> QED BY <1>1, <2>1, <2>2, <2>3 DEF TypeOK
<1>3. /\ DOMAIN m_grid_id_to_stream' \subseteq Kernels
      /\ \A x \in DOMAIN m_grid_id_to_stream' : m_grid_id_to_stream'[x] \in Streams
  BY DEF RegisterFinished, TypeOK
<1>4. m_child_kernels' \in [Kernels -> SUBSET Kernels]
  <2>1. p # None => m_child_kernels[p] \ {k} \in SUBSET Kernels
    BY <1>1 DEF TypeOK
  <2>2. m_child_kernels' = IF p = None THEN m_child_kernels
                           ELSE [m_child_kernels EXCEPT ![p] = m_child_kernels[p] \ {k}]
    BY DEF RegisterFinished
  <2> QED BY <1>1, <2>1, <2>2 DEF TypeOK
<1>5. /\ retiring' \subseteq Kernels /\ subject' \in Kernels \cup {None} /\ check' \in BOOLEAN
      /\ spc' \in {"register", "delete"}
  <2>1. /\ retiring' = retiring \cup {k} /\ subject' = p /\ check' = TRUE
        /\ spc' \in {"register", "delete"}
    BY DEF RegisterFinished
  <2> QED BY <1>1, <2>1 DEF TypeOK
<1> QED BY <1>2, <1>3, <1>4, <1>5 DEF RegisterFinished, TypeOK, table, cores, counts

\* Deleting a kernel forgets the streams it created.
LEMMA TypeDelete ==
    ASSUME KernelManagerAssumption, TypeOK, NEW k \in Kernels, DeleteKernel(k)
    PROVE  TypeOK'
<1>1. /\ retiring' \subseteq Kernels /\ deleted' \subseteq Kernels
      /\ m_cta_streams' \in [Kernels -> SUBSET Streams]
  <2>1. \/ UNCHANGED <<retiring, deleted, m_cta_streams>>
        \/ /\ retiring' = retiring \ {k} /\ deleted' = deleted \cup {k}
           /\ m_cta_streams' = [m_cta_streams EXCEPT ![k] = {}]
    BY DEF DeleteKernel
  <2> QED BY <2>1 DEF TypeOK
<1>2. spc' \in {"stuck", "operate", "stopping", "stopped", "delete"}
  BY DEF DeleteKernel, Registered
<1>3. UNCHANGED <<streams, m_lock, launched, m_next_cta, m_num_cores_running, m_kernel_TB_latency,
                  m_child_kernels, device_launch_op, table, cores, counts, turn, check, subject, g_sim_done>>
  BY DEF DeleteKernel
<1> QED BY <1>1, <1>2, <1>3, ZenonT(60) DEF TypeOK, streams, table, cores, counts

\* Starting a kernel takes it from the front of a stream to a free slot.
LEMMA TypeOperate ==
    ASSUME KernelManagerAssumption, TypeOK, Operate
    PROVE  TypeOK'
<1> DEFINE ready == {s \in Streams : m_operations[s] # <<>> /\ ~m_pending[s]}
<1>1. m_running_kernels' \in [Slots -> Kernels \cup {None}] /\ m_pending' \in [Streams -> BOOLEAN]
      /\ m_operations' = m_operations /\ DOMAIN m_grid_id_to_stream' \subseteq Kernels
      /\ \A k \in DOMAIN m_grid_id_to_stream' : m_grid_id_to_stream'[k] \in Streams
  <2>1. CASE ready = {} \/ FreeSlots = {}
    BY <2>1 DEF Operate, TypeOK, streams
  <2>2. CASE ready # {} /\ FreeSlots # {}
    <3>1. PICK s \in ready :
            LET k == Head(m_operations[s]) IN
            /\ m_running_kernels' = [m_running_kernels EXCEPT ![FirstOf(FreeSlots)] = k]
            /\ m_pending' = [m_pending EXCEPT ![s] = TRUE]
            /\ m_grid_id_to_stream' = [x \in DOMAIN m_grid_id_to_stream \cup {k} |->
                                          IF x = k THEN s ELSE m_grid_id_to_stream[x]]
            /\ UNCHANGED m_operations
      BY <2>2 DEF Operate
    <3>2. Head(m_operations[s]) \in Kernels
      BY DEF TypeOK
    <3> QED BY <3>1, <3>2 DEF TypeOK
  <2> QED BY <2>1, <2>2
<1>2. spc' \in {"stop", "simulate"}
  BY DEF Operate
<1> QED BY <1>1, <1>2 DEF Operate, TypeOK, objects, cores, counts

\* Every step keeps every variable in its domain.
LEMMA TypeNext ==
    ASSUME KernelManagerAssumption, TypeOK, Counted, Books, SubjectKnown, [Next]_vars
    PROVE  TypeOK'
<1> USE DEF streams, objects, table, cores, counts, control
<1>1. ASSUME NEW k \in Kernels, HostLaunch(k) \/ LaunchDevice(k) PROVE TypeOK'
  BY <1>1, TypeLaunch
<1>2. ASSUME NEW c \in Cores, NEW i \in Contexts, CtaExit(c, i) PROVE TypeOK'
  BY <1>2, TypeExit
<1>3. CASE Operate
  BY <1>3, TypeOperate
<1>4. CASE IssueBlock2Core
  BY <1>4, TypeIssue
<1>5. CASE RegisterFinished
  BY <1>5, TypeRegister
<1>6. CASE CoresDone
  <2>1. limit' \in BOOLEAN /\ reached' \in BOOLEAN
    BY <1>6 DEF CoresDone, MaxHit, TypeOK, KernelManagerAssumption
  <2>2. turn' \in [cluster : 0..NClusters, core : 0..(CoresPerCluster - 1), last : Clusters]
    BY <1>6 DEF CoresDone, TypeOK, KernelManagerAssumption
  <2> QED BY <1>6, <2>1, <2>2 DEF CoresDone, TypeOK
<1>7. CASE EndCycle
  <2>1. m_kernel_TB_latency' \in [Kernels -> Nat]
    <3> DEFINE delayed(k) == \E n \in Slots : m_running_kernels[n] = k
               f == [k \in Kernels |-> IF m_kernel_TB_latency[k] > 0 /\ delayed(k)
                                      THEN m_kernel_TB_latency[k] - 1 ELSE m_kernel_TB_latency[k]]
    <3>1. m_kernel_TB_latency' = f
      BY <1>7 DEF EndCycle
    <3>2. m_kernel_TB_latency \in [Kernels -> Nat]
      BY DEF TypeOK
    <3> HIDE DEF delayed
    <3>3. f \in [Kernels -> Nat]
      BY <3>2
    <3> QED BY <3>1, <3>3
  <2>2. m_operations' \in [Streams -> Seq(Kernels)] /\ device_launch_op' \in Seq(Kernels)
    <3>1. device_launch_op # <<>> => Head(device_launch_op) \in Kernels /\ Tail(device_launch_op) \in Seq(Kernels)
      BY DEF TypeOK
    <3> QED BY <1>7, <3>1, AcceptType DEF EndCycle, TypeOK
  <2>3. turn' \in [cluster : 0..NClusters, core : 0..(CoresPerCluster - 1), last : Clusters]
    BY <1>7 DEF EndCycle, NoTurn, Clusters, KernelManagerAssumption
  <2> QED BY <1>7, <2>1, <2>2, <2>3 DEF EndCycle, TypeOK
<1>8. CASE CheckFinishedKernel
  <2>1. m_finished_kernel # <<>> => Head(m_finished_kernel) \in Kernels /\ Tail(m_finished_kernel) \in Seq(Kernels)
    BY DEF TypeOK
  <2>2. subject' \in Kernels \cup {None} /\ m_finished_kernel' \in Seq(Kernels)
    BY <1>8, <2>1 DEF CheckFinishedKernel, TypeOK
  <2>3. spc' \in {"stopped", "operate", "register"}
    BY <1>8 DEF CheckFinishedKernel
  <2> QED BY <1>8, <2>2, <2>3 DEF CheckFinishedKernel, TypeOK
<1>9. CASE StopRunningKernel
  <2> DEFINE left == {n \in Slots : m_running_kernels[n] # None}
  <2>1. left # {} => FirstOf(left) \in left
    <3>1. left \in SUBSET Nat
      BY DEF Slots
    <3> HIDE DEF left
    <3> QED BY <3>1, FirstOfIn
  <2>2. left # {} => m_running_kernels[FirstOf(left)] \in Kernels
    BY <2>1 DEF TypeOK
  <2>3. m_finished_kernel' \in Seq(Kernels) /\ m_running_kernels' \in [Slots -> Kernels \cup {None}]
    BY <1>9, <2>2, SetKernelDoneType DEF StopRunningKernel, TypeOK
  <2>4. spc' \in {"halting", "stopping"}
    BY <1>9 DEF StopRunningKernel
  <2> QED BY <1>9, <2>3, <2>4 DEF StopRunningKernel, TypeOK
<1>10. CASE DetectWork \/ StartCycle \/ RegisterUnknown \/ NoCycle \/ StopAllRunningKernels \/ Stopped
            \/ LoopTest
  <2>1. CASE DetectWork
    BY <2>1 DEF DetectWork, TypeOK
  <2>2. CASE StartCycle
    BY <2>2 DEF StartCycle, TypeOK
  <2>3. CASE RegisterUnknown
    BY <2>3 DEF RegisterUnknown, TypeOK
  <2>4. CASE NoCycle
    BY <2>4 DEF NoCycle, TypeOK
  <2>5. CASE StopAllRunningKernels
    BY <2>5 DEF StopAllRunningKernels, TypeOK
  <2>6. CASE Stopped
    BY <2>6 DEF Stopped, TypeOK
  <2>7. CASE LoopTest
    BY <2>7 DEF LoopTest, TypeOK
  <2> QED BY <1>10, <2>1, <2>2, <2>3, <2>4, <2>5, <2>6, <2>7
<1>11. CASE RegisterUnfinished \/ \E k \in Kernels : DeleteKernel(k)
  <2>1. CASE RegisterUnfinished
    BY <2>1 DEF RegisterUnfinished, Registered, TypeOK
  <2> QED BY <1>11, <2>1, TypeDelete
<1>12. CASE UpdateStats
  <2>1. reached' \in BOOLEAN /\ gpu_tot_issued_cta' \in Nat /\ m_total_cta_launched' \in Nat
    BY <1>12 DEF UpdateStats, MaxHit, TypeOK
  <2>2. gpu_completed_cta' \in Nat /\ spc' \in {"dead", "detect"} /\ m_executed_kernel_uids' \subseteq Kernels
    BY <1>12 DEF UpdateStats
  <2> QED BY <1>12, <2>1, <2>2 DEF UpdateStats, TypeOK
<1>13. CASE UNCHANGED vars
  BY <1>13, SMTT(30) DEF vars, TypeOK
<1> QED BY <1>1, <1>2, <1>3, <1>4, <1>5, <1>6, <1>7, <1>8, <1>9, <1>10, <1>11, <1>12, <1>13
        DEF Next, SomeCtaExits, SimStep, Cycle, Retire
-----------------------------------------------------------------------------
(* The parts of the inductive invariant.                                    *)

\* The steps that only move the simulation thread, which may delete a kernel
\* that was popped.
Quiet ==
    /\ UNCHANGED <<streams, launched, m_next_cta, m_num_cores_running, m_kernel_TB_latency,
                   m_child_kernels, device_launch_op, table, cores, counts>>
    /\ Gone' = Gone
    /\ \/ UNCHANGED <<retiring, deleted, m_cta_streams>>
       \/ \E k \in retiring : /\ retiring' = retiring \ {k} /\ deleted' = deleted \cup {k}
                              /\ m_cta_streams' = [m_cta_streams EXCEPT ![k] = {}]

\* The steps, as the lemmas below take them apart.
LEMMA Steps ==
    ASSUME [Next]_vars
    PROVE  \/ \E k \in Kernels : HostLaunch(k) \/ LaunchDevice(k)
           \/ \E c \in Cores : \E i \in Contexts : CtaExit(c, i)
           \/ Operate \/ IssueBlock2Core \/ RegisterFinished
           \/ CoresDone \/ EndCycle \/ CheckFinishedKernel \/ StopRunningKernel
           \/ DetectWork \/ UpdateStats
           \/ Quiet
<1>1. RegisterUnknown \/ RegisterUnfinished \/ StartCycle \/ NoCycle \/ StopAllRunningKernels \/ Stopped
        \/ LoopTest \/ UNCHANGED vars => Quiet
  BY DEF RegisterUnknown, RegisterUnfinished, StartCycle, NoCycle, StopAllRunningKernels, Stopped,
         LoopTest, vars, objects, Gone, Quiet
<1>2. ASSUME NEW k \in Kernels, DeleteKernel(k) PROVE Quiet
  <2>1. \/ UNCHANGED <<retiring, deleted, m_cta_streams>>
        \/ /\ k \in retiring /\ retiring' = retiring \ {k} /\ deleted' = deleted \cup {k}
           /\ m_cta_streams' = [m_cta_streams EXCEPT ![k] = {}]
    BY <1>2 DEF DeleteKernel
  <2>2. Gone' = Gone
    BY <2>1 DEF Gone
  <2> QED BY <1>2, <2>1, <2>2 DEF DeleteKernel, Quiet
<1> QED BY <1>1, <1>2 DEF Next, SomeCtaExits, SimStep, Cycle, Retire

\* The counters agree with the contexts.
LEMMA CountedNext ==
    ASSUME KernelManagerAssumption, TypeOK, Counted, [Next]_vars
    PROVE  Counted'
<1>1. CASE UNCHANGED <<m_cta_status, m_num_cores_running>>
  <2>1. \A k \in Kernels : CtasOf(k)' = CtasOf(k)
    BY <1>1 DEF CtasOf
  <2> QED BY <1>1, <2>1 DEF Counted
<1>2. ASSUME NEW c \in Cores, NEW i \in Contexts, CtaExit(c, i) PROVE Counted'
  <2>1. m_cta_status[c][i] \in Kernels
    BY <1>2, CtaCounted DEF CtaExit
  <2> QED BY <1>2, <2>1, CountRemove DEF CtaExit
<1>3. CASE IssueBlock2Core
  <2>1. PICK c \in Cores, k \in Kernels \cup {None} :
          (k \in Kernels /\ \E i \in Contexts : Puts(c, i, k)) \/ PutsNone(c, k)
    BY <1>3, IssueCases
  <2>2. ASSUME k \in Kernels, NEW i \in Contexts, Puts(c, i, k) PROVE Counted'
    BY <2>2, CountAdd DEF Puts
  <2> QED BY <1>1, <2>1, <2>2 DEF PutsNone
<1>4. CASE \/ \E k \in Kernels : HostLaunch(k) \/ LaunchDevice(k)
           \/ Operate \/ RegisterFinished \/ CoresDone \/ EndCycle \/ CheckFinishedKernel
           \/ StopRunningKernel \/ DetectWork \/ UpdateStats \/ Quiet
  <2>1. UNCHANGED <<m_cta_status, m_num_cores_running>>
    BY <1>4 DEF HostLaunch, LaunchDevice, Operate, RegisterFinished, CoresDone, EndCycle,
                CheckFinishedKernel, StopRunningKernel, DetectWork, UpdateStats, Quiet, cores, objects
  <2> QED BY <1>1, <2>1
<1> QED BY <1>2, <1>3, <1>4, Steps

\* The limit on CTAs, once hit, stays hit: what init() resets was added to the
\* total before.
LEMMA HitStable ==
    ASSUME KernelManagerAssumption, TypeOK, LimitsKnown, HitMaxCta, [Next]_vars
    PROVE  HitMaxCta'
<1> USE DEF HitMaxCta
<1>0. gpu_tot_issued_cta \in Nat /\ m_total_cta_launched \in Nat /\ MaxCtaOpt \in Nat
  BY DEF TypeOK, KernelManagerAssumption
<1>1. CASE UNCHANGED <<gpu_tot_issued_cta, m_total_cta_launched>>
  BY <1>1
<1>2. CASE IssueBlock2Core
  <2>1. /\ gpu_tot_issued_cta' = gpu_tot_issued_cta
        /\ m_total_cta_launched' = m_total_cta_launched \/ m_total_cta_launched' = m_total_cta_launched + 1
    BY <1>2 DEF IssueBlock2Core
  <2> QED BY <1>0, <2>1
<1>3. CASE UpdateStats
  <2>1. gpu_tot_issued_cta' = gpu_tot_issued_cta + m_total_cta_launched /\ m_total_cta_launched' = 0
    BY <1>3 DEF UpdateStats
  <2> QED BY <1>0, <2>1
<1>4. CASE DetectWork
  <2>1. m_total_cta_launched' = m_total_cta_launched /\ UNCHANGED gpu_tot_issued_cta
    BY <1>4 DEF DetectWork, LimitsKnown
  <2> QED BY <1>1, <2>1
<1>5. CASE \/ \E k \in Kernels : HostLaunch(k) \/ LaunchDevice(k)
           \/ \E c \in Cores : \E i \in Contexts : CtaExit(c, i)
           \/ Operate \/ RegisterFinished \/ CoresDone \/ EndCycle \/ CheckFinishedKernel
           \/ StopRunningKernel \/ Quiet
  <2>1. UNCHANGED <<gpu_tot_issued_cta, m_total_cta_launched>>
    BY <1>5 DEF HostLaunch, LaunchDevice, CtaExit, Operate, RegisterFinished, CoresDone, EndCycle,
                CheckFinishedKernel, StopRunningKernel, Quiet, counts
  <2> QED BY <1>1, <2>1
<1> QED BY <1>2, <1>3, <1>4, <1>5, Steps

\* A kernel without CTAs to issue gets none: its counters only grow.
LEMMA NoMoreStable ==
    ASSUME KernelManagerAssumption, TypeOK, [Next]_vars, NEW k \in Kernels, NoMoreCtas(k)
    PROVE  NoMoreCtas(k)' /\ m_next_cta'[k] = m_next_cta[k]
<1>1. CASE UNCHANGED m_next_cta
  BY <1>1 DEF NoMoreCtas
<1>2. CASE IssueBlock2Core
  <2>1. PICK c \in Cores, j \in Kernels \cup {None} :
          (j \in Kernels /\ \E i \in Contexts : Puts(c, i, j)) \/ PutsNone(c, j)
    BY <1>2, IssueCases
  <2>2. ASSUME j \in Kernels, NEW i \in Contexts, Puts(c, i, j) PROVE m_next_cta'[k] = m_next_cta[k]
    <3>1. j # k
      BY <2>2 DEF Puts, KernelMoreCtaLeft
    <3>2. m_next_cta' = [m_next_cta EXCEPT ![j] = @ + 1]
      BY <2>2 DEF Puts
    <3> QED BY <3>1, <3>2 DEF TypeOK
  <2>3. CASE PutsNone(c, j)
    BY <1>1, <2>3 DEF PutsNone
  <2> QED BY <2>1, <2>2, <2>3 DEF NoMoreCtas
<1>3. CASE \/ \E j \in Kernels : HostLaunch(j) \/ LaunchDevice(j)
           \/ \E c \in Cores : \E i \in Contexts : CtaExit(c, i)
           \/ Operate \/ RegisterFinished \/ CoresDone \/ EndCycle \/ CheckFinishedKernel
           \/ StopRunningKernel \/ DetectWork \/ UpdateStats \/ Quiet
  <2>1. UNCHANGED m_next_cta
    BY <1>3 DEF HostLaunch, LaunchDevice, CtaExit, Operate, RegisterFinished, CoresDone, EndCycle,
                CheckFinishedKernel, StopRunningKernel, DetectWork, UpdateStats, Quiet, objects
  <2> QED BY <1>1, <2>1
<1> QED BY <1>2, <1>3, Steps

\* A core has no CTA when it counts none.
LEMMA NoneActive ==
    ASSUME KernelManagerAssumption, NEW c \in Cores
    PROVE  NActiveCta(c) = 0 <=> Occupied(c) = {}
<1>1. Occupied(c) \subseteq Contexts
  BY DEF Occupied
<1>2. IsFiniteSet(Occupied(c))
  BY <1>1, PlacesFinite, FS_Subset
<1> QED BY <1>2, FS_EmptySet DEF NActiveCta

\* What a CTA's exit does to the contexts and the binding of cores.
LEMMA ExitEffect ==
    ASSUME TypeOK, NEW c \in Cores, NEW i \in Contexts, CtaExit(c, i)
    PROVE  /\ \A d \in Cores : \A e \in Contexts :
                m_cta_status'[d][e] = IF d = c /\ e = i THEN None ELSE m_cta_status[d][e]
           /\ \A d \in Cores : m_kernel'[d] = IF /\ d = c
                                                 /\ \/ Occupied(c) = {i}
                                                    \/ /\ Over(m_cta_status[c][i])
                                                       /\ m_kernel[c] = m_cta_status[c][i]
                                              THEN None ELSE m_kernel[d]
<1>1. m_cta_status' = [m_cta_status EXCEPT ![c] = [@ EXCEPT ![i] = None]]
  BY DEF CtaExit
<1>2. m_kernel' = [m_kernel EXCEPT ![c] =
                      IF Occupied(c) = {i} \/ (Over(m_cta_status[c][i]) /\ @ = m_cta_status[c][i])
                      THEN None ELSE @]
  BY DEF CtaExit
<1> QED BY <1>1, <1>2 DEF TypeOK

\* What putting a CTA in a context does to the contexts.
LEMMA PutsEffect ==
    ASSUME TypeOK, NEW c \in Cores, NEW i \in Contexts, NEW k, Puts(c, i, k)
    PROVE  \A d \in Cores : \A e \in Contexts :
               m_cta_status'[d][e] = IF d = c /\ e = i THEN k ELSE m_cta_status[d][e]
BY DEF Puts, TypeOK

\* Unless cores are shared, the CTAs on a core are of the kernel it is bound to.
LEMMA OneKernelNext ==
    ASSUME KernelManagerAssumption, TypeOK, Counted, OneKernelPerCore, [Next]_vars
    PROVE  OneKernelPerCore'
<1>0. SUFFICES ASSUME ~ConcurrentSm, NEW d \in Cores, NEW e \in Contexts, m_cta_status'[d][e] # None
               PROVE  m_cta_status'[d][e] = m_kernel'[d]
  BY DEF OneKernelPerCore, Occupied
<1>1. m_cta_status[d][e] # None => m_cta_status[d][e] = m_kernel[d]
  BY <1>0 DEF OneKernelPerCore, Occupied
<1>2. ASSUME NEW c \in Cores, NEW i \in Contexts, CtaExit(c, i)
      PROVE  m_cta_status'[d][e] = m_kernel'[d]
  <2>1. ~(d = c /\ e = i) /\ m_cta_status'[d][e] = m_cta_status[d][e] /\ m_cta_status[d][e] = m_kernel[d]
    BY <1>0, <1>1, <1>2, ExitEffect
  <2>2. CASE d = c
    <3>1. Occupied(c) # {i}
      BY <1>0, <2>1, <2>2 DEF Occupied
    <3>2. ASSUME Over(m_cta_status[c][i]), m_kernel[c] = m_cta_status[c][i] PROVE FALSE
      <4> DEFINE k == m_cta_status[c][i]
      <4>1. k \in Kernels /\ m_num_cores_running[k] = 1
        BY <1>2, <3>2 DEF CtaExit, TypeOK, Over
      <4>2. <<c, i>> \in CtasOf(k) /\ <<c, e>> \in CtasOf(k)
        BY <2>1, <2>2, <3>2 DEF CtasOf
      <4> QED BY <2>1, <2>2, <4>1, <4>2, OneCta
    <3> QED BY <1>2, <2>1, <2>2, <3>1, <3>2, ExitEffect
  <2>3. CASE d # c
    BY <1>2, <2>1, <2>3, ExitEffect
  <2> QED BY <2>2, <2>3
<1>3. CASE IssueBlock2Core
  <2>1. PICK c \in Cores, k \in Kernels \cup {None} :
          /\ (Selects(c, k) /\ k \in Running /\ k \in Kernels) \/ SelectsNone(c, k)
          /\ (k \in Kernels /\ \E i \in Contexts : Puts(c, i, k)) \/ PutsNone(c, k)
    BY <1>3, IssueCases
  <2>2. m_cta_status'[d][e] = m_cta_status[d][e] \/ (d = c /\ m_cta_status'[d][e] = k)
    BY <2>1, PutsEffect DEF PutsNone
  <2>3. CASE Selects(c, k)
    <3>1. Occupied(c) = {} /\ \A x \in Cores : m_kernel'[x] = IF x = c THEN k ELSE m_kernel[x]
      BY <1>0, <2>3, NoneActive DEF Selects, NeedsKernel, TypeOK
    <3> QED BY <1>0, <1>1, <2>2, <3>1 DEF Occupied
  <2>4. CASE SelectsNone(c, k)
    <3>1. m_kernel' = m_kernel /\ (k = m_kernel[c] \/ k = None)
      BY <2>4 DEF SelectsNone
    <3> QED BY <1>0, <1>1, <2>2, <3>1
  <2> QED BY <2>1, <2>3, <2>4
<1>4. CASE \/ \E k \in Kernels : HostLaunch(k) \/ LaunchDevice(k)
           \/ Operate \/ RegisterFinished \/ CoresDone \/ EndCycle \/ CheckFinishedKernel
           \/ StopRunningKernel \/ DetectWork \/ UpdateStats \/ Quiet
  <2>1. UNCHANGED cores
    BY <1>4 DEF HostLaunch, LaunchDevice, Operate, RegisterFinished, CoresDone, EndCycle,
                CheckFinishedKernel, StopRunningKernel, DetectWork, UpdateStats, Quiet
  <2> QED BY <1>0, <1>1, <2>1 DEF cores
<1> QED BY <1>2, <1>3, <1>4, Steps

\* A core is bound to a kernel of which it has CTAs.
LEMMA BoundNext ==
    ASSUME KernelManagerAssumption, TypeOK, Counted, OneKernelPerCore, Bound, LimitsKnown, [Next]_vars
    PROVE  Bound'
<1>0. SUFFICES ASSUME NEW d \in Cores, m_kernel'[d] # None
               PROVE  /\ ~ConcurrentSm
                      /\ Occupied(d)' # {} \/ (HitMaxCta' /\ ~NoMoreCtas(m_kernel[d])')
  BY DEF Bound
<1>1. CASE /\ m_kernel'[d] = m_kernel[d] /\ m_next_cta' = m_next_cta
           /\ m_cta_status'[d] = m_cta_status[d]
  <2>1. Occupied(d)' = Occupied(d)
    BY <1>1 DEF Occupied
  <2>2. NoMoreCtas(m_kernel[d])' = NoMoreCtas(m_kernel[d])
    BY <1>1 DEF NoMoreCtas
  <2> QED BY <1>0, <1>1, <2>1, <2>2, HitStable DEF Bound
<1>2. ASSUME NEW c \in Cores, NEW i \in Contexts, CtaExit(c, i)
      PROVE  /\ ~ConcurrentSm
             /\ Occupied(d)' # {} \/ (HitMaxCta' /\ ~NoMoreCtas(m_kernel[d])')
  <2>1. m_next_cta' = m_next_cta
    BY <1>2 DEF CtaExit
  <2>2. CASE d # c
    <3>1. m_cta_status'[d] = m_cta_status[d] /\ m_kernel'[d] = m_kernel[d]
      BY <1>2, <2>2 DEF CtaExit, TypeOK
    <3> QED BY <1>1, <2>1, <3>1
  <2>3. CASE d = c
    <3>1. Occupied(c) # {i} /\ m_kernel[c] # None
      BY <1>0, <1>2, <2>3, ExitEffect
    <3>2. i \in Occupied(c)
      BY <1>2 DEF CtaExit, Occupied
    <3>3. PICK e \in Contexts : e # i /\ m_cta_status[c][e] # None
      BY <3>1, <3>2 DEF Occupied
    <3>4. e \in Occupied(d)'
      BY <1>2, <2>3, <3>3, ExitEffect DEF Occupied
    <3> QED BY <2>3, <3>1, <3>4 DEF Bound
  <2> QED BY <2>2, <2>3
<1>3. CASE IssueBlock2Core
  <2>1. PICK c \in Cores, k \in Kernels \cup {None} :
          /\ (Selects(c, k) /\ k \in Running /\ k \in Kernels) \/ SelectsNone(c, k)
          /\ (k \in Kernels /\ \E i \in Contexts : Puts(c, i, k)) \/ PutsNone(c, k)
    BY <1>3, IssueCases
  <2>2. ASSUME k \in Kernels, NEW i \in Contexts, Puts(c, i, k), d = c
        PROVE  Occupied(d)' # {}
    <3>1. i \in Occupied(d)'
      BY <2>2, PutsEffect DEF Occupied, KernelManagerAssumption
    <3> QED BY <3>1
  <2>3. ASSUME d # c PROVE m_kernel'[d] = m_kernel[d] /\ m_cta_status'[d] = m_cta_status[d]
    BY <2>1, <2>3, SMTT(30) DEF Selects, SelectsNone, Puts, PutsNone, TypeOK
  <2>4. CASE d # c
    <3>1. ASSUME k \in Kernels, NEW i \in Contexts, Puts(c, i, k)
          PROVE  ~ConcurrentSm /\ Occupied(d)' # {}
      <4>1. ~HitMaxCta
        BY <3>1 DEF Puts, KernelMoreCtaLeft
      <4>2. ~ConcurrentSm /\ Occupied(d) # {}
        BY <1>0, <2>3, <2>4, <4>1 DEF Bound
      <4> QED BY <2>3, <2>4, <4>2 DEF Occupied
    <3>2. CASE PutsNone(c, k)
      BY <1>1, <2>3, <2>4, <3>2 DEF PutsNone
    <3> QED BY <2>1, <3>1, <3>2
  <2>5. CASE d = c /\ SelectsNone(c, k)
    <3>1. m_kernel'[d] = m_kernel[d]
      BY <2>5 DEF SelectsNone
    <3>2. CASE PutsNone(c, k)
      BY <1>1, <2>5, <3>1, <3>2 DEF PutsNone
    <3> QED BY <1>0, <2>1, <2>2, <2>5, <3>1, <3>2 DEF Bound
  <2>6. CASE d = c /\ Selects(c, k) /\ k \in Kernels
    <3>1. CASE ConcurrentSm
      <4>1. m_kernel'[d] = m_kernel[d]
        BY <2>6, <3>1 DEF Selects
      <4> QED BY <1>0, <3>1, <4>1 DEF Bound
    <3>2. CASE ~ConcurrentSm /\ PutsNone(c, k)
      <4>1. m_kernel'[d] = k /\ Occupied(c) = {}
        BY <2>6, <3>2, NoneActive DEF Selects, NeedsKernel, TypeOK
      <4>2. CanIssue1Block(c, k)
        BY <2>6, <4>1, NoneActive, PlacesFinite, FS_CardinalityType DEF CanIssue1Block
      <4>3. ~NoMoreCtas(k)
        BY <2>6, FirstSelected, SelectedType DEF Selects
      <4>4. HitMaxCta
        BY <2>6, <3>2, <4>2, <4>3 DEF PutsNone, KernelMoreCtaLeft, KernelManagerAssumption
      <4>5. HitMaxCta' /\ ~NoMoreCtas(m_kernel[d])'
        BY <3>2, <4>1, <4>3, <4>4, HitStable DEF PutsNone, NoMoreCtas
      <4> QED BY <3>2, <4>5
    <3> QED BY <2>1, <2>2, <2>6, <3>1, <3>2
  <2> QED BY <2>1, <2>4, <2>5, <2>6
<1>4. CASE \/ \E k \in Kernels : HostLaunch(k) \/ LaunchDevice(k)
           \/ Operate \/ RegisterFinished \/ CoresDone \/ EndCycle \/ CheckFinishedKernel
           \/ StopRunningKernel \/ DetectWork \/ UpdateStats \/ Quiet
  <2>1. UNCHANGED <<m_kernel, m_next_cta, m_cta_status>>
    BY <1>4 DEF HostLaunch, LaunchDevice, Operate, RegisterFinished, CoresDone, EndCycle,
                CheckFinishedKernel, StopRunningKernel, DetectWork, UpdateStats, Quiet, cores, objects
  <2> QED BY <1>1, <2>1
<1> QED BY <1>2, <1>3, <1>4, Steps

\* What removing the first element and adding one at the end do to a sequence.
LEMMA TailElements ==
    ASSUME NEW S, NEW q \in Seq(S), q # <<>>
    PROVE  /\ Head(q) \in Elements(q) /\ Head(q) \in S
           /\ Tail(q) \in Seq(S) /\ Elements(Tail(q)) \subseteq Elements(q)
           /\ Once(q) => /\ Once(Tail(q)) /\ Elements(Tail(q)) = Elements(q) \ {Head(q)}
<1>1. /\ Len(q) \in Nat \ {0} /\ Head(q) = q[1] /\ Tail(q) \in Seq(S) /\ Head(q) \in S
      /\ Len(Tail(q)) = Len(q) - 1
      /\ \A i \in 1..Len(Tail(q)) : i + 1 \in 1..Len(q) /\ Tail(q)[i] = q[i + 1]
  OBVIOUS
<1>2. Head(q) \in Elements(q) /\ Elements(Tail(q)) \subseteq Elements(q)
  BY <1>1 DEF Elements
<1>3. ASSUME Once(q) PROVE Once(Tail(q))
  BY <1>1, <1>3 DEF Once
<1>4. ASSUME Once(q) PROVE Elements(Tail(q)) \subseteq Elements(q) \ {Head(q)}
  <2>1. \A i \in 1..Len(Tail(q)) : Tail(q)[i] # Head(q)
    BY <1>1, <1>4 DEF Once
  <2> QED BY <1>2, <2>1 DEF Elements
<1>5. Elements(q) \ {Head(q)} \subseteq Elements(Tail(q))
  <2> SUFFICES ASSUME NEW x \in Elements(q) \ {Head(q)} PROVE x \in Elements(Tail(q))
    OBVIOUS
  <2>1. PICK i \in 1..Len(q) : x = q[i]
    BY DEF Elements
  <2>2. i # 1
    BY <1>1, <2>1
  <2>3. i - 1 \in 1..Len(Tail(q)) /\ (i - 1) + 1 = i
    BY <1>1, <2>2
  <2> QED BY <1>1, <2>1, <2>3 DEF Elements
<1> QED BY <1>1, <1>2, <1>3, <1>4, <1>5

LEMMA AppendElements ==
    ASSUME NEW S, NEW q \in Seq(S), NEW x \in S
    PROVE  /\ Append(q, x) \in Seq(S) /\ Append(q, x) # <<>>
           /\ Elements(Append(q, x)) = Elements(q) \cup {x}
           /\ q # <<>> => Head(Append(q, x)) = Head(q)
           /\ Once(q) /\ x \notin Elements(q) => Once(Append(q, x))
<1>1. /\ Append(q, x) \in Seq(S) /\ Append(q, x) # <<>>
      /\ Len(q) \in Nat /\ Len(Append(q, x)) = Len(q) + 1
  OBVIOUS
<1>2. \A i \in 1..Len(q) : Append(q, x)[i] = q[i]
  OBVIOUS
<1>3. Append(q, x)[Len(q) + 1] = x
  OBVIOUS
<1>4. \A i \in 1..Len(Append(q, x)) : i \in 1..Len(q) \/ i = Len(q) + 1
  BY <1>1
<1>5. Elements(Append(q, x)) = Elements(q) \cup {x}
  <2>1. 1..Len(Append(q, x)) = 1..Len(q) \cup {Len(q) + 1}
    BY <1>1
  <2> QED BY <1>2, <1>3, <2>1 DEF Elements
<1>6. q # <<>> => Head(Append(q, x)) = Head(q)
  <2>1. q # <<>> => 1 \in 1..Len(q) /\ Head(q) = q[1] /\ Head(Append(q, x)) = Append(q, x)[1]
    BY <1>1
  <2> QED BY <1>2, <2>1
<1>7. ASSUME Once(q), x \notin Elements(q) PROVE Once(Append(q, x))
  <2>1. \A i \in 1..Len(q) : q[i] # x
    BY <1>7 DEF Elements
  <2> QED BY <1>2, <1>3, <1>4, <1>7, <2>1 DEF Once
<1> QED BY <1>1, <1>5, <1>6, <1>7

\* The empty queue.
LEMMA NoElements == Elements(<<>>) = {} /\ Once(<<>>)
BY DEF Elements, Once

\* The streams after a launch is pushed: it is at the end of its own.
LEMMA AcceptEffect ==
    ASSUME KernelManagerAssumption, TypeOK, NEW k \in Kernels, Accept(k)
    PROVE  \A s \in Streams :
             \/ m_operations'[s] = m_operations[s]
             \/ /\ s = StreamOf[k] /\ m_operations'[s] = Append(m_operations[s], k)
                /\ Elements(m_operations'[s]) = Elements(m_operations[s]) \cup {k}
                /\ m_operations'[s] # <<>>
                /\ m_operations[s] # <<>> => Head(m_operations'[s]) = Head(m_operations[s])
                /\ Once(m_operations[s]) /\ k \notin Elements(m_operations[s]) => Once(m_operations'[s])
<1> TAKE s \in Streams
<1>1. m_operations[s] \in Seq(Kernels)
  BY DEF TypeOK
<1>2. \/ m_operations'[s] = m_operations[s]
      \/ s = StreamOf[k] /\ m_operations'[s] = Append(m_operations[s], k)
  BY DEF Accept, TypeOK
<1>3. LET q == m_operations[s] IN
      /\ Append(q, k) # <<>> /\ Elements(Append(q, k)) = Elements(q) \cup {k}
      /\ q # <<>> => Head(Append(q, k)) = Head(q)
      /\ Once(q) /\ k \notin Elements(q) => Once(Append(q, k))
  BY <1>1, AppendElements, ZenonT(60)
<1> QED BY <1>2, <1>3

\* Pushing a grid that is in no queue leaves every grid in one place.
LEMMA AcceptOnce ==
    ASSUME KernelManagerAssumption, TypeOK, StreamsOnce, NEW k \in Kernels, Accept(k),
           launched \subseteq launched', k \in launched',
           \A s \in Streams : k \notin Elements(m_operations[s]),
           Elements(device_launch_op)' \subseteq Elements(device_launch_op),
           k \notin Elements(device_launch_op)'
    PROVE  StreamsOnce'
<1> SUFFICES ASSUME NEW s \in Streams
             PROVE  /\ Once(m_operations'[s])
                    /\ \A j \in Elements(m_operations'[s]) :
                         StreamOf[j] = s /\ j \in launched' /\ j \notin Elements(device_launch_op)'
  BY DEF StreamsOnce, Elements, Once
<1>1. /\ Once(m_operations[s])
      /\ \A j \in Elements(m_operations[s]) :
           StreamOf[j] = s /\ j \in launched' /\ j \notin Elements(device_launch_op)'
  BY DEF StreamsOnce
<1>2. CASE m_operations'[s] = m_operations[s]
  BY <1>1, <1>2
<1>3. CASE /\ s = StreamOf[k] /\ Elements(m_operations'[s]) = Elements(m_operations[s]) \cup {k}
           /\ Once(m_operations[s]) /\ k \notin Elements(m_operations[s]) => Once(m_operations'[s])
  BY <1>1, <1>3
<1> QED BY <1>2, <1>3, AcceptEffect

\* What starting a kernel does: k, the front of the free stream s, goes to slot
\* n, which is empty or whose kernel is done.
Starts(s, n, k) ==
    /\ m_operations[s] # <<>> /\ ~m_pending[s] /\ k = Head(m_operations[s])
    /\ k \in Elements(m_operations[s])
    /\ m_running_kernels[n] = None \/ Done(m_running_kernels[n])
    /\ \A x \in Slots : m_running_kernels'[x] = IF x = n THEN k ELSE m_running_kernels[x]
    /\ \A t \in Streams : m_pending'[t] = (m_pending[t] \/ t = s)
    /\ m_operations' = m_operations
    /\ DOMAIN m_grid_id_to_stream' = DOMAIN m_grid_id_to_stream \cup {k}
    /\ \A x \in DOMAIN m_grid_id_to_stream' :
         m_grid_id_to_stream'[x] = IF x = k THEN s ELSE m_grid_id_to_stream[x]

LEMMA OperateEffect ==
    ASSUME KernelManagerAssumption, TypeOK, Operate
    PROVE  \/ UNCHANGED <<m_running_kernels, streams>>
           \/ \E s \in Streams : \E n \in Slots : \E k \in Kernels : Starts(s, n, k)
<1> DEFINE ready == {s \in Streams : m_operations[s] # <<>> /\ ~m_pending[s]}
<1>1. CASE ready = {} \/ FreeSlots = {}
  BY <1>1 DEF Operate
<1>2. CASE ready # {} /\ FreeSlots # {}
  <2>1. PICK s \in ready :
          LET k == Head(m_operations[s]) IN
          /\ m_running_kernels' = [m_running_kernels EXCEPT ![FirstOf(FreeSlots)] = k]
          /\ m_pending' = [m_pending EXCEPT ![s] = TRUE]
          /\ m_grid_id_to_stream' = [x \in DOMAIN m_grid_id_to_stream \cup {k} |->
                                        IF x = k THEN s ELSE m_grid_id_to_stream[x]]
          /\ UNCHANGED m_operations
    BY <1>2 DEF Operate
  <2> DEFINE k == Head(m_operations[s])
             n == FirstOf(FreeSlots)
  <2>2. k \in Kernels /\ k \in Elements(m_operations[s])
    <3>1. m_operations[s] \in Seq(Kernels) /\ m_operations[s] # <<>>
      BY DEF TypeOK
    <3> QED BY <3>1, TailElements
  <2>3. n \in FreeSlots
    <3>1. FreeSlots \in SUBSET Nat
      BY DEF FreeSlots, Slots
    <3> QED BY <1>2, <3>1, FirstOfIn
  <2>4. n \in Slots /\ (m_running_kernels[n] = None \/ Done(m_running_kernels[n]))
    BY <2>3 DEF FreeSlots
  <2>5. \A x \in Slots : m_running_kernels'[x] = IF x = n THEN k ELSE m_running_kernels[x]
    BY <2>1 DEF TypeOK
  <2>6. \A t \in Streams : m_pending'[t] = (m_pending[t] \/ t = s)
    BY <2>1 DEF TypeOK
  <2>7. /\ DOMAIN m_grid_id_to_stream' = DOMAIN m_grid_id_to_stream \cup {k}
        /\ \A x \in DOMAIN m_grid_id_to_stream' :
              m_grid_id_to_stream'[x] = IF x = k THEN s ELSE m_grid_id_to_stream[x]
    BY <2>1
  <2>8. s \in Streams /\ m_operations[s] # <<>> /\ ~m_pending[s] /\ m_operations' = m_operations
    BY <2>1
  <2>9. Starts(s, n, k)
    BY <2>2, <2>4, <2>5, <2>6, <2>7, <2>8 DEF Starts
  <2> QED BY <2>2, <2>4, <2>8, <2>9
<1> QED BY <1>1, <1>2

\* What retiring a grid does: its stream loses its front, which it is, and is
\* no longer busy.
LEMMA RegisterEffect ==
    ASSUME KernelManagerAssumption, TypeOK, Books, SubjectKnown, RegisterFinished
    PROVE  /\ subject \in Kernels /\ subject \in DOMAIN m_grid_id_to_stream /\ IsFinished(subject)
           /\ StreamOf[subject] \in Streams /\ m_operations[StreamOf[subject]] # <<>>
           /\ subject = Head(m_operations[StreamOf[subject]])
           /\ \A t \in Streams :
                /\ m_operations'[t] = IF t = StreamOf[subject] THEN Tail(m_operations[t])
                                      ELSE m_operations[t]
                /\ m_pending'[t] = (m_pending[t] /\ t # StreamOf[subject])
           /\ DOMAIN m_grid_id_to_stream' = DOMAIN m_grid_id_to_stream \ {subject}
           /\ \A x \in DOMAIN m_grid_id_to_stream' : m_grid_id_to_stream'[x] = m_grid_id_to_stream[x]
<1> DEFINE s == StreamOf[subject]
<1>1. /\ subject \in Kernels /\ subject \in DOMAIN m_grid_id_to_stream /\ IsFinished(subject)
      /\ s \in Streams
  BY DEF RegisterFinished, SubjectKnown, KernelManagerAssumption
<1>2. m_grid_id_to_stream[subject] = s /\ m_operations[s] # <<>> /\ subject = Head(m_operations[s])
  BY <1>1 DEF Books
<1>3. /\ m_operations' = [m_operations EXCEPT ![s] = Tail(m_operations[s])]
      /\ m_pending' = [m_pending EXCEPT ![s] = FALSE]
  BY <1>2 DEF RegisterFinished
<1>4. m_grid_id_to_stream' = [x \in DOMAIN m_grid_id_to_stream \ {subject} |-> m_grid_id_to_stream[x]]
  BY DEF RegisterFinished
<1>5. \A t \in Streams : /\ m_operations'[t] = IF t = s THEN Tail(m_operations[t]) ELSE m_operations[t]
                         /\ m_pending'[t] = (m_pending[t] /\ t # s)
  BY <1>3 DEF TypeOK
<1> QED BY <1>1, <1>2, <1>4, <1>5

\* Every grid that waits, waits in one place.
LEMMA WaitsOnceNext ==
    ASSUME KernelManagerAssumption, TypeOK, WaitsOnce, Books, SubjectKnown, [Next]_vars
    PROVE  WaitsOnce'
<1> USE DEF WaitsOnce
<1>0. device_launch_op \in Seq(Kernels) /\ \A s \in Streams : m_operations[s] \in Seq(Kernels)
  BY DEF TypeOK
<1>1. CASE UNCHANGED <<m_operations, device_launch_op, launched>>
  BY <1>1 DEF StreamsOnce, DeviceOnce, Once, Elements
<1>2. ASSUME NEW k \in Kernels, HostLaunch(k) PROVE WaitsOnce'
  <2>1. launched' = launched \cup {k} /\ k \notin launched /\ device_launch_op' = device_launch_op
    BY <1>2 DEF HostLaunch
  <2>2. DeviceOnce'
    BY <2>1 DEF DeviceOnce, Once, Elements
  <2>3. k \notin Elements(device_launch_op) /\ \A s \in Streams : k \notin Elements(m_operations[s])
    BY <2>1 DEF StreamsOnce, DeviceOnce
  <2>4. StreamsOnce'
    BY <1>2, <2>1, <2>3, AcceptOnce DEF HostLaunch
  <2> QED BY <2>2, <2>4
<1>3. ASSUME NEW k \in Kernels, LaunchDevice(k) PROVE WaitsOnce'
  <2>1. /\ launched' = launched \cup {k} /\ k \notin launched /\ m_operations' = m_operations
        /\ device_launch_op' = Append(device_launch_op, k)
    BY <1>3 DEF LaunchDevice, streams
  <2>2. k \notin Elements(device_launch_op) /\ \A s \in Streams : k \notin Elements(m_operations[s])
    BY <2>1 DEF StreamsOnce, DeviceOnce
  <2>3. Once(device_launch_op') /\ Elements(device_launch_op') = Elements(device_launch_op) \cup {k}
    BY <1>0, <2>1, <2>2, AppendElements DEF DeviceOnce
  <2> QED BY <2>1, <2>2, <2>3 DEF StreamsOnce, DeviceOnce
<1>4. CASE EndCycle
  <2>1. CASE device_launch_op = <<>>
    BY <1>1, <1>4, <2>1 DEF EndCycle
  <2>2. CASE device_launch_op # <<>>
    <3> DEFINE k == Head(device_launch_op)
    <3>1. Accept(k) /\ device_launch_op' = Tail(device_launch_op) /\ launched' = launched
      BY <1>4, <2>2 DEF EndCycle
    <3>2. /\ k \in Kernels /\ k \in Elements(device_launch_op) /\ Once(device_launch_op')
          /\ Elements(device_launch_op') = Elements(device_launch_op) \ {k}
      BY <1>0, <2>2, <3>1, TailElements DEF DeviceOnce
    <3> HIDE DEF k
    <3>3. k \in launched /\ \A s \in Streams : k \notin Elements(m_operations[s])
      BY <3>2 DEF StreamsOnce, DeviceOnce
    <3>4. StreamsOnce'
      BY <3>1, <3>2, <3>3, AcceptOnce
    <3> QED BY <3>1, <3>2, <3>4 DEF DeviceOnce
  <2> QED BY <2>1, <2>2
<1>5. CASE RegisterFinished
  <2>1. device_launch_op' = device_launch_op /\ launched' = launched
    BY <1>5 DEF RegisterFinished
  <2>2. \A s \in Streams : /\ Elements(m_operations'[s]) \subseteq Elements(m_operations[s])
                           /\ Once(m_operations[s]) => Once(m_operations'[s])
    <3> TAKE s \in Streams
    <3>1. CASE s = StreamOf[subject]
      BY <1>0, <1>5, <3>1, RegisterEffect, TailElements, SMTT(30)
    <3>2. CASE s # StreamOf[subject]
      BY <1>5, <3>2, RegisterEffect
    <3> QED BY <3>1, <3>2
  <2> QED BY <2>1, <2>2 DEF StreamsOnce, DeviceOnce
<1>6. CASE Operate
  BY <1>1, <1>6, OperateEffect DEF Operate, streams, objects
<1>7. CASE \/ \E c \in Cores : \E i \in Contexts : CtaExit(c, i)
           \/ IssueBlock2Core \/ CoresDone \/ CheckFinishedKernel
           \/ StopRunningKernel \/ DetectWork \/ UpdateStats \/ Quiet
  <2>1. UNCHANGED <<m_operations, device_launch_op, launched>>
    BY <1>7 DEF CtaExit, IssueBlock2Core, CoresDone, CheckFinishedKernel, StopRunningKernel,
                DetectWork, UpdateStats, Quiet, streams, objects
  <2> QED BY <1>1, <2>1
<1> QED BY <1>2, <1>3, <1>4, <1>5, <1>6, <1>7, Steps

\* A grid with an entry stays at the front of its busy stream.
LEMMA BooksNext ==
    ASSUME KernelManagerAssumption, TypeOK, WaitsOnce, Books, SubjectKnown, [Next]_vars
    PROVE  Books'
<1> SUFFICES ASSUME NEW x \in DOMAIN m_grid_id_to_stream'
             PROVE  /\ m_grid_id_to_stream'[x] = StreamOf[x]
                    /\ m_operations'[StreamOf[x]] # <<>> /\ Head(m_operations'[StreamOf[x]]) = x
                    /\ m_pending'[StreamOf[x]]
  BY DEF Books
<1> DEFINE s == StreamOf[x]
<1>0. ASSUME x \in DOMAIN m_grid_id_to_stream
      PROVE  /\ x \in Kernels /\ s \in Streams
             /\ m_grid_id_to_stream[x] = s
             /\ m_operations[s] # <<>> /\ Head(m_operations[s]) = x /\ m_pending[s]
  BY <1>0 DEF Books, TypeOK, KernelManagerAssumption
<1>1. CASE UNCHANGED <<m_operations, m_pending, m_grid_id_to_stream>>
  BY <1>0, <1>1
<1>2. CASE Operate
  <2>1. ASSUME NEW t \in Streams, NEW n \in Slots, NEW k \in Kernels, Starts(t, n, k)
        PROVE  /\ m_grid_id_to_stream'[x] = s
               /\ m_operations'[s] # <<>> /\ Head(m_operations'[s]) = x /\ m_pending'[s]
    <3>1. CASE x = k
      <4>1. s = t
        BY <2>1, <3>1 DEF Starts, WaitsOnce, StreamsOnce
      <4> QED BY <2>1, <3>1, <4>1 DEF Starts
    <3>2. CASE x # k
      BY <1>0, <2>1, <3>2 DEF Starts
    <3> QED BY <3>1, <3>2
  <2> QED BY <1>1, <1>2, <2>1, OperateEffect DEF streams
<1>3. CASE RegisterFinished
  <2>1. x \in DOMAIN m_grid_id_to_stream /\ x # subject
    BY <1>3, RegisterEffect
  <2>2. s # StreamOf[subject]
    BY <1>0, <1>3, <2>1, RegisterEffect
  <2> QED BY <1>0, <1>3, <2>1, <2>2, RegisterEffect
<1>4. ASSUME NEW k \in Kernels, Accept(k), UNCHANGED <<m_pending, m_grid_id_to_stream>>
      PROVE  /\ m_grid_id_to_stream'[x] = s
             /\ m_operations'[s] # <<>> /\ Head(m_operations'[s]) = x /\ m_pending'[s]
  <2>1. x \in DOMAIN m_grid_id_to_stream
    BY <1>4
  <2> QED BY <1>0, <1>4, <2>1, AcceptEffect
<1>5. CASE EndCycle
  <2>1. device_launch_op # <<>> => Head(device_launch_op) \in Kernels
    BY DEF TypeOK
  <2> QED BY <1>1, <1>4, <1>5, <2>1 DEF EndCycle
<1>6. ASSUME NEW k \in Kernels, HostLaunch(k)
      PROVE  /\ m_grid_id_to_stream'[x] = s
             /\ m_operations'[s] # <<>> /\ Head(m_operations'[s]) = x /\ m_pending'[s]
  BY <1>4, <1>6 DEF HostLaunch
<1>7. CASE \/ \E k \in Kernels : LaunchDevice(k)
           \/ \E c \in Cores : \E i \in Contexts : CtaExit(c, i)
           \/ IssueBlock2Core \/ CoresDone \/ CheckFinishedKernel
           \/ StopRunningKernel \/ DetectWork \/ UpdateStats \/ Quiet
  <2>1. UNCHANGED streams
    BY <1>7 DEF LaunchDevice, CtaExit, IssueBlock2Core, CoresDone, CheckFinishedKernel,
                StopRunningKernel, DetectWork, UpdateStats, Quiet
  <2> QED BY <1>1, <2>1 DEF streams
<1> QED BY <1>2, <1>3, <1>5, <1>6, <1>7, Steps

\* The kernel whose CTA is put on a core is in the table or has CTAs.
LEMMA PutsKernel ==
    ASSUME KernelManagerAssumption, TypeOK, Counted, OneKernelPerCore, Bound,
           NEW c \in Cores, NEW i \in Contexts, NEW k \in Kernels, Puts(c, i, k),
           (Selects(c, k) /\ k \in Running) \/ SelectsNone(c, k)
    PROVE  (k \in Running \/ m_num_cores_running[k] > 0) /\ ~NoMoreCtas(k) /\ ~HitMaxCta
<1>1. ~NoMoreCtas(k) /\ ~HitMaxCta
  BY DEF Puts, KernelMoreCtaLeft
<1>2. ASSUME SelectsNone(c, k) PROVE m_num_cores_running[k] > 0
  <2>1. k = m_kernel[c] /\ k # None
    BY <1>2 DEF SelectsNone, KernelManagerAssumption
  <2>2. ~ConcurrentSm /\ Occupied(c) # {}
    BY <1>1, <2>1 DEF Bound
  <2>3. PICK e \in Contexts : m_cta_status[c][e] = k
    BY <2>1, <2>2 DEF OneKernelPerCore, Occupied
  <2> QED BY <2>1, <2>3, CtaCounted
<1> QED BY <1>1, <1>2

\* set_kernel_done() only empties slots.
LEMMA SlotsEmptied ==
    ASSUME TypeOK, NEW k, SetKernelDone(k) \/ UNCHANGED m_running_kernels
    PROVE  \A n \in Slots : m_running_kernels'[n] = m_running_kernels[n] \/ m_running_kernels'[n] = None
BY DEF SetKernelDone, TypeOK

\* What a CTA's exit does to its kernel's counter and to the table.
LEMMA ExitCounts ==
    ASSUME KernelManagerAssumption, TypeOK, Counted, NEW c \in Cores, NEW i \in Contexts, CtaExit(c, i)
    PROVE  LET k == m_cta_status[c][i] IN
           /\ k \in Kernels /\ m_num_cores_running[k] > 0
           /\ \A j \in Kernels : m_num_cores_running'[j]
                = IF j = k THEN m_num_cores_running[k] - 1 ELSE m_num_cores_running[j]
           /\ \A n \in Slots : \/ m_running_kernels'[n] = m_running_kernels[n]
                               \/ m_running_kernels'[n] = None
           /\ IF Over(k) THEN SetKernelDone(k) ELSE UNCHANGED <<m_finished_kernel, m_running_kernels>>
           /\ UNCHANGED <<streams, Gone, launched, m_next_cta, m_child_kernels, m_executed_kernel_uids>>
<1> DEFINE k == m_cta_status[c][i]
<1>1. k \in Kernels /\ m_num_cores_running[k] > 0
  BY CtaCounted DEF CtaExit
<1>2. m_num_cores_running' = [m_num_cores_running EXCEPT ![k] = @ - 1]
  BY DEF CtaExit
<1>3. IF Over(k) THEN SetKernelDone(k) ELSE UNCHANGED <<m_finished_kernel, m_running_kernels>>
  BY DEF CtaExit
<1>4. \A n \in Slots : m_running_kernels'[n] = m_running_kernels[n] \/ m_running_kernels'[n] = None
  BY <1>3, SlotsEmptied
<1>5. \A j \in Kernels : m_num_cores_running'[j]
        = IF j = k THEN m_num_cores_running[k] - 1 ELSE m_num_cores_running[j]
  BY <1>1, <1>2 DEF TypeOK
<1>6. UNCHANGED <<streams, Gone, launched, m_next_cta, m_child_kernels, m_executed_kernel_uids>>
  BY DEF Gone, CtaExit
<1> QED BY <1>1, <1>3, <1>4, <1>5, <1>6

\* A kernel that starts was queued.
LEMMA StartsQueued ==
    ASSUME QueuedUntouched, NEW s \in Streams, NEW n \in Slots, NEW k \in Kernels, Starts(s, n, k)
    PROVE  Queued(k) /\ Untouched(k)
<1>1. k \in Elements(m_operations[s]) /\ ~m_pending[s]
  BY DEF Starts
<1>2. Queued(k)
  BY <1>1 DEF Queued
<1> QED BY <1>2 DEF QueuedUntouched

\* What putting a CTA on a core does to its kernel's counters.
LEMMA PutsCounts ==
    ASSUME TypeOK, NEW c \in Cores, NEW i \in Contexts, NEW k \in Kernels, Puts(c, i, k)
    PROVE  \A j \in Kernels :
             /\ m_num_cores_running'[j] = IF j = k THEN m_num_cores_running[k] + 1 ELSE m_num_cores_running[j]
             /\ m_next_cta'[j] = IF j = k THEN m_next_cta[k] + 1 ELSE m_next_cta[j]
<1>1. /\ m_num_cores_running' = [m_num_cores_running EXCEPT ![k] = @ + 1]
      /\ m_next_cta' = [m_next_cta EXCEPT ![k] = @ + 1]
  BY DEF Puts
<1>2. m_num_cores_running \in [Kernels -> Nat] /\ m_next_cta \in [Kernels -> Nat]
  BY DEF TypeOK
<1> QED BY <1>1, <1>2

\* A grid in the table or with CTAs has its entry, a deleted one has neither.
LEMMA EntriesCoverNext ==
    ASSUME KernelManagerAssumption, TypeOK, Counted, QueuedUntouched, Books, EntriesCover,
           TableHoldsNoDone, OneKernelPerCore, Bound, SubjectKnown, [Next]_vars
    PROVE  EntriesCover'
<1>0. /\ \A n \in Slots : m_running_kernels[n] # None => m_running_kernels[n] \in DOMAIN m_grid_id_to_stream
      /\ \A k \in Kernels : m_num_cores_running[k] > 0 => k \in DOMAIN m_grid_id_to_stream
      /\ \A k \in Gone : k \in Kernels /\ Done(k) /\ k \notin DOMAIN m_grid_id_to_stream
      /\ \A k \in Kernels : m_num_cores_running[k] \in Nat
  BY DEF Gone, EntriesCover, TypeOK
<1>1. CASE /\ \A n \in Slots : m_running_kernels'[n] = m_running_kernels[n] \/ m_running_kernels'[n] = None
           /\ UNCHANGED <<m_num_cores_running, m_next_cta, Gone, m_grid_id_to_stream>>
  BY <1>0, <1>1 DEF EntriesCover, Done, NoMoreCtas
<1>2. CASE Operate
  <2>1. UNCHANGED <<m_num_cores_running, m_next_cta, Gone>>
    BY <1>2 DEF Gone, Operate, objects
  <2>2. ASSUME NEW s \in Streams, NEW n \in Slots, NEW k \in Kernels, Starts(s, n, k)
        PROVE  EntriesCover'
    <3>1. k \notin Gone
      BY <2>2, StartsQueued DEF Untouched
    <3>2. /\ DOMAIN m_grid_id_to_stream' = DOMAIN m_grid_id_to_stream \cup {k}
          /\ \A x \in Slots : m_running_kernels'[x] = IF x = n THEN k ELSE m_running_kernels[x]
      BY <2>2 DEF Starts
    <3> QED BY <1>0, <2>1, <3>1, <3>2 DEF EntriesCover, Done, NoMoreCtas
  <2> QED BY <1>1, <1>2, <2>1, <2>2, OperateEffect DEF streams
<1>3. ASSUME NEW c \in Cores, NEW i \in Contexts, CtaExit(c, i) PROVE EntriesCover'
  <2> DEFINE k == m_cta_status[c][i]
  <2>1. /\ k \in Kernels /\ m_num_cores_running[k] > 0
        /\ \A j \in Kernels : m_num_cores_running'[j]
             = IF j = k THEN m_num_cores_running[k] - 1 ELSE m_num_cores_running[j]
        /\ \A n \in Slots : m_running_kernels'[n] = m_running_kernels[n] \/ m_running_kernels'[n] = None
        /\ UNCHANGED <<Gone, m_next_cta, m_grid_id_to_stream>>
    BY <1>3, ExitCounts DEF streams
  <2> HIDE DEF k
  <2>2. k \notin Gone
    BY <1>0, <2>1 DEF Done
  <2>3. \A j \in Gone : Done(j)'
    BY <1>0, <2>1, <2>2 DEF Done, NoMoreCtas
  <2>4. \A j \in Kernels : m_num_cores_running'[j] > 0 => m_num_cores_running[j] > 0
    BY <1>0, <2>1
  <2> QED BY <1>0, <2>1, <2>3, <2>4 DEF EntriesCover
<1>4. CASE IssueBlock2Core
  <2>0. UNCHANGED <<m_running_kernels, Gone, m_grid_id_to_stream>>
    BY <1>4 DEF Gone, IssueBlock2Core, streams
  <2>1. PICK c \in Cores, k \in Kernels \cup {None} :
          /\ (Selects(c, k) /\ k \in Running /\ k \in Kernels) \/ SelectsNone(c, k)
          /\ (k \in Kernels /\ \E i \in Contexts : Puts(c, i, k)) \/ PutsNone(c, k)
    BY <1>4, IssueCases
  <2>2. ASSUME k \in Kernels, NEW i \in Contexts, Puts(c, i, k) PROVE EntriesCover'
    <3>1. k \in Running \/ m_num_cores_running[k] > 0
      BY <2>1, <2>2, PutsKernel
    <3>2. k \in DOMAIN m_grid_id_to_stream /\ k \notin Gone
      BY <1>0, <2>2, <3>1 DEF Running
    <3>3. \A j \in Kernels \ {k} : /\ m_num_cores_running'[j] = m_num_cores_running[j]
                                   /\ m_next_cta'[j] = m_next_cta[j]
      BY <2>2, PutsCounts
    <3> QED BY <1>0, <2>0, <3>2, <3>3 DEF EntriesCover, Done, NoMoreCtas
  <2>3. CASE PutsNone(c, k)
    BY <1>1, <2>0, <2>3 DEF PutsNone
  <2> QED BY <2>1, <2>2, <2>3
<1>5. CASE RegisterFinished
  <2>1. /\ subject \in Kernels /\ Done(subject)
        /\ DOMAIN m_grid_id_to_stream' = DOMAIN m_grid_id_to_stream \ {subject}
    BY <1>5, RegisterEffect DEF IsFinished
  <2>2. /\ UNCHANGED <<m_running_kernels, m_num_cores_running, m_next_cta>>
        /\ Gone' \subseteq Gone \cup {subject}
    BY <1>5 DEF Gone, RegisterFinished, table
  <2>3. subject \notin Running /\ m_num_cores_running[subject] = 0
    BY <2>1 DEF TableHoldsNoDone, Done
  <2>4. \A n \in Slots : m_running_kernels[n] # None => m_running_kernels[n] # subject
    BY <2>3 DEF Running
  <2> QED BY <1>0, <2>1, <2>2, <2>3, <2>4 DEF EntriesCover, Done, NoMoreCtas
<1>6. CASE StopRunningKernel
  <2>1. UNCHANGED <<m_num_cores_running, m_next_cta, Gone, m_grid_id_to_stream>>
    BY <1>6 DEF Gone, StopRunningKernel, objects, streams
  <2>2. \A n \in Slots : m_running_kernels'[n] = m_running_kernels[n] \/ m_running_kernels'[n] = None
    BY <1>6, SlotsEmptied DEF StopRunningKernel
  <2> QED BY <1>1, <2>1, <2>2
<1>7. CASE \/ \E k \in Kernels : HostLaunch(k) \/ LaunchDevice(k)
           \/ CoresDone \/ EndCycle \/ CheckFinishedKernel \/ DetectWork \/ UpdateStats \/ Quiet
  <2>1. UNCHANGED <<m_running_kernels, m_num_cores_running, m_next_cta, Gone, m_grid_id_to_stream>>
    BY <1>7 DEF Gone, HostLaunch, LaunchDevice, CoresDone, EndCycle, CheckFinishedKernel, DetectWork,
                UpdateStats, Quiet, objects, streams, table
  <2> QED BY <1>1, <2>1
<1> QED BY <1>2, <1>3, <1>4, <1>5, <1>6, <1>7, Steps

\* A grid that starts no longer waits.
LEMMA StartsLeaves ==
    ASSUME KernelManagerAssumption, TypeOK, WaitsOnce, Operate,
           NEW s \in Streams, NEW n \in Slots, NEW k \in Kernels, Starts(s, n, k)
    PROVE  ~Queued(k)'
<1>1. launched' = launched /\ device_launch_op' = device_launch_op
  BY DEF Operate, objects
<1>2. k \in Elements(m_operations[s]) /\ k \in launched /\ k \notin Elements(device_launch_op)
  BY DEF Starts, WaitsOnce, StreamsOnce
<1>3. \A t \in Streams : k \in Elements(m_operations[t]) => t = s
  BY <1>2 DEF WaitsOnce, StreamsOnce
<1>4. m_pending'[s] /\ m_operations' = m_operations /\ k = Head(m_operations[s])
  BY DEF Starts
<1>5. Elements(device_launch_op)' = Elements(device_launch_op)
  BY <1>1 DEF Elements
<1>6. \A t \in Streams : Elements(m_operations[t])' = Elements(m_operations[t])
  BY <1>4 DEF Elements
<1> QED BY <1>1, <1>2, <1>3, <1>4, <1>5, <1>6 DEF Queued

\* What Queued says of the next state, with its queues named as lemmas name them.
LEMMA QueuedAfter ==
    ASSUME NEW k, Queued(k)'
    PROVE  \/ k \notin launched'
           \/ k \in Elements(device_launch_op')
           \/ \E s \in Streams : /\ k \in Elements(m_operations'[s])
                                 /\ ~(m_pending'[s] /\ k = Head(m_operations'[s]))
<1>1. Elements(device_launch_op)' = Elements(device_launch_op')
  BY DEF Elements
<1>2. \A s \in Streams : Elements(m_operations[s])' = Elements(m_operations'[s])
  BY DEF Elements
<1> QED BY <1>1, <1>2 DEF Queued

\* A grid waits once only: what is not queued never is again.
LEMMA QueuedShrinks ==
    ASSUME KernelManagerAssumption, TypeOK, WaitsOnce, Books, SubjectKnown, [Next]_vars,
           NEW k \in Kernels, Queued(k)'
    PROVE  Queued(k)
<1>0. device_launch_op \in Seq(Kernels) /\ \A s \in Streams : m_operations[s] \in Seq(Kernels)
  BY DEF TypeOK
<1>1. CASE UNCHANGED <<launched, device_launch_op, m_operations, m_pending>>
  BY <1>1, QueuedAfter DEF Queued
<1>2. ASSUME NEW j \in Kernels, Accept(j), Queued(j), m_pending' = m_pending, launched \subseteq launched',
             Elements(device_launch_op') \subseteq Elements(device_launch_op)
      PROVE  Queued(k)
  <2>1. CASE k = j \/ k \notin launched' \/ k \in Elements(device_launch_op')
    BY <1>2, <2>1 DEF Queued
  <2>2. ASSUME k # j, NEW s \in Streams, k \in Elements(m_operations'[s]),
               ~(m_pending'[s] /\ k = Head(m_operations'[s]))
        PROVE  Queued(k)
    <3>0. \/ m_operations'[s] = m_operations[s]
          \/ /\ Elements(m_operations'[s]) = Elements(m_operations[s]) \cup {j}
             /\ m_operations[s] # <<>> => Head(m_operations'[s]) = Head(m_operations[s])
      BY <1>2, AcceptEffect
    <3>1. k \in Elements(m_operations[s])
      <4>1. CASE m_operations'[s] = m_operations[s]
        BY <2>2, <4>1
      <4>2. CASE Elements(m_operations'[s]) = Elements(m_operations[s]) \cup {j}
        BY <2>2, <4>2
      <4> QED BY <3>0, <4>1, <4>2
    <3>2. m_operations[s] # <<>>
      BY <3>1, NoElements
    <3>3. Head(m_operations'[s]) = Head(m_operations[s])
      BY <3>0, <3>2
    <3> QED BY <1>2, <2>2, <3>1, <3>3 DEF Queued
  <2> QED BY <2>1, <2>2, QueuedAfter
<1>3. ASSUME NEW j \in Kernels, HostLaunch(j) PROVE Queued(k)
  <2>1. /\ Accept(j) /\ m_pending' = m_pending /\ launched \subseteq launched'
        /\ device_launch_op' = device_launch_op /\ j \notin launched
    BY <1>3 DEF HostLaunch
  <2>2. Queued(j)
    BY <2>1 DEF Queued
  <2> QED BY <1>2, <2>1, <2>2
<1>4. ASSUME NEW j \in Kernels, LaunchDevice(j) PROVE Queued(k)
  <2>1. /\ launched' = launched \cup {j} /\ j \notin launched /\ UNCHANGED streams
        /\ device_launch_op' = Append(device_launch_op, j)
    BY <1>4 DEF LaunchDevice
  <2>2. Elements(device_launch_op') = Elements(device_launch_op) \cup {j}
    BY <1>0, <2>1, AppendElements
  <2> QED BY <2>1, <2>2, QueuedAfter DEF Queued, streams
<1>5. CASE EndCycle
  <2>1. CASE device_launch_op = <<>>
    BY <1>1, <1>5, <2>1 DEF EndCycle
  <2>2. CASE device_launch_op # <<>>
    <3> DEFINE j == Head(device_launch_op)
    <3>1. Accept(j) /\ device_launch_op' = Tail(device_launch_op) /\ launched' = launched
          /\ m_pending' = m_pending
      BY <1>5, <2>2 DEF EndCycle
    <3>2. /\ j \in Kernels /\ j \in Elements(device_launch_op)
          /\ Elements(device_launch_op') \subseteq Elements(device_launch_op)
      BY <1>0, <2>2, <3>1, TailElements
    <3> HIDE DEF j
    <3>3. Queued(j)
      BY <3>2 DEF Queued
    <3> QED BY <1>2, <3>1, <3>2, <3>3
  <2> QED BY <2>1, <2>2
<1>6. CASE RegisterFinished
  <2>1. device_launch_op' = device_launch_op /\ launched' = launched
    BY <1>6 DEF RegisterFinished
  <2>2. ASSUME NEW s \in Streams, k \in Elements(m_operations'[s]),
               ~(m_pending'[s] /\ k = Head(m_operations'[s]))
        PROVE  Queued(k)
    <3>1. CASE s = StreamOf[subject]
      <4>1. Elements(m_operations'[s]) = Elements(m_operations[s]) \ {Head(m_operations[s])}
        BY <1>0, <1>6, <3>1, RegisterEffect, TailElements DEF WaitsOnce, StreamsOnce
      <4> QED BY <2>2, <4>1 DEF Queued
    <3>2. CASE s # StreamOf[subject]
      BY <1>6, <2>2, <3>2, RegisterEffect, ZenonT(60) DEF Queued
    <3> QED BY <3>1, <3>2
  <2>3. CASE k \notin launched' \/ k \in Elements(device_launch_op')
    BY <2>1, <2>3 DEF Queued
  <2> QED BY <2>2, <2>3, QueuedAfter
<1>7. CASE Operate
  <2>1. launched' = launched /\ device_launch_op' = device_launch_op
    BY <1>7 DEF Operate, objects
  <2>2. m_operations' = m_operations /\ \A s \in Streams : m_pending[s] => m_pending'[s]
    BY <1>7, OperateEffect DEF Starts, streams
  <2> QED BY <2>1, <2>2, QueuedAfter DEF Queued
<1>8. CASE \/ \E c \in Cores : \E i \in Contexts : CtaExit(c, i)
           \/ IssueBlock2Core \/ CoresDone \/ CheckFinishedKernel
           \/ StopRunningKernel \/ DetectWork \/ UpdateStats \/ Quiet
  <2>1. UNCHANGED <<launched, device_launch_op, m_operations, m_pending>>
    BY <1>8 DEF CtaExit, IssueBlock2Core, CoresDone, CheckFinishedKernel, StopRunningKernel,
                DetectWork, UpdateStats, Quiet, streams, objects
  <2> QED BY <1>1, <2>1
<1> QED BY <1>3, <1>4, <1>5, <1>6, <1>7, <1>8, Steps

\* A grid that waits has left no trace.
LEMMA QueuedUntouchedNext ==
    ASSUME KernelManagerAssumption, TypeOK, Counted, QueuedUntouched, WaitsOnce, Books, EntriesCover,
           OneKernelPerCore, Bound, SubjectKnown, [Next]_vars
    PROVE  QueuedUntouched'
<1> SUFFICES ASSUME NEW k \in Kernels, Queued(k)' PROVE Untouched(k)'
  BY DEF QueuedUntouched
<1>0. Untouched(k) /\ k # None
  BY QueuedShrinks DEF QueuedUntouched, KernelManagerAssumption
<1>1. CASE /\ UNCHANGED <<m_next_cta, m_num_cores_running, m_child_kernels, m_kernel, Gone>>
           /\ DOMAIN m_grid_id_to_stream' = DOMAIN m_grid_id_to_stream
           /\ m_executed_kernel_uids' \subseteq m_executed_kernel_uids
           /\ \A n \in Slots : m_running_kernels'[n] = m_running_kernels[n] \/ m_running_kernels'[n] = None
  BY <1>0, <1>1 DEF Untouched
<1>2. ASSUME NEW j \in Kernels, LaunchDevice(j) PROVE Untouched(k)'
  <2>1. Parent[j] \in Kernels /\ Parent[j] # k
    <3>1. PICK c \in Cores, i \in Contexts : m_cta_status[c][i] = Parent[j] /\ Parent[j] # None
      BY <1>2 DEF LaunchDevice
    <3>2. Parent[j] \in Kernels /\ m_num_cores_running[Parent[j]] > 0
      BY <3>1, CtaCounted
    <3> QED BY <1>0, <3>2 DEF Untouched
  <2>2. m_child_kernels' = [m_child_kernels EXCEPT ![Parent[j]] = @ \cup {j}]
    BY <1>2 DEF LaunchDevice
  <2>3. m_child_kernels'[k] = m_child_kernels[k]
    BY <2>1, <2>2 DEF TypeOK
  <2> QED BY <1>0, <1>2, <2>3 DEF Gone, LaunchDevice, Untouched, streams, table, cores
<1>3. ASSUME NEW c \in Cores, NEW i \in Contexts, CtaExit(c, i) PROVE Untouched(k)'
  <2> DEFINE j == m_cta_status[c][i]
  <2>1. /\ j \in Kernels /\ m_num_cores_running[j] > 0
        /\ \A x \in Kernels : m_num_cores_running'[x]
             = IF x = j THEN m_num_cores_running[j] - 1 ELSE m_num_cores_running[x]
        /\ \A n \in Slots : m_running_kernels'[n] = m_running_kernels[n] \/ m_running_kernels'[n] = None
        /\ UNCHANGED <<m_grid_id_to_stream, Gone, m_next_cta, m_child_kernels, m_executed_kernel_uids>>
    BY <1>3, ExitCounts DEF streams
  <2>2. k # j
    BY <1>0, <2>1 DEF Untouched
  <2>3. m_num_cores_running'[k] = m_num_cores_running[k]
    BY <2>1, <2>2
  <2>4. \A d \in Cores : m_kernel'[d] = m_kernel[d] \/ m_kernel'[d] = None
    BY <1>3, ExitEffect
  <2> QED BY <1>0, <2>1, <2>3, <2>4 DEF Untouched
<1>4. CASE Operate
  <2>1. UNCHANGED <<objects, cores, m_executed_kernel_uids>>
    BY <1>4 DEF Operate
  <2>2. ASSUME NEW s \in Streams, NEW n \in Slots, NEW j \in Kernels, Starts(s, n, j)
        PROVE  Untouched(k)'
    <3>1. k # j
      BY <1>4, <2>2, StartsLeaves
    <3>2. /\ DOMAIN m_grid_id_to_stream' = DOMAIN m_grid_id_to_stream \cup {j}
          /\ \A x \in Slots : m_running_kernels'[x] = IF x = n THEN j ELSE m_running_kernels[x]
      BY <2>2 DEF Starts
    <3> QED BY <1>0, <2>1, <3>1, <3>2 DEF Gone, Untouched, objects, cores
  <2> QED BY <1>1, <1>4, <2>1, <2>2, OperateEffect DEF Gone, objects, cores, streams
<1>5. CASE IssueBlock2Core
  <2>0. UNCHANGED <<m_running_kernels, Gone, m_grid_id_to_stream, m_child_kernels>>
    BY <1>5 DEF Gone, IssueBlock2Core, streams
  <2>1. PICK c \in Cores, j \in Kernels \cup {None} :
          /\ (Selects(c, j) /\ j \in Running /\ j \in Kernels) \/ SelectsNone(c, j)
          /\ (j \in Kernels /\ \E i \in Contexts : Puts(c, i, j)) \/ PutsNone(c, j)
    BY <1>5, IssueCases
  <2>2. k \notin Running
    BY <1>0 DEF Untouched, Running
  <2>3. k \notin m_executed_kernel_uids' /\ \A d \in Cores : m_kernel'[d] # k
    <3>1. CASE Selects(c, j) /\ j \in Running
      <4>1. j # k
        BY <2>2, <3>1
      <4>2. /\ m_executed_kernel_uids' = m_executed_kernel_uids \cup {j}
            /\ m_kernel' = IF ConcurrentSm THEN m_kernel ELSE [m_kernel EXCEPT ![c] = j]
        BY <3>1 DEF Selects
      <4> QED BY <1>0, <4>1, <4>2 DEF Untouched, TypeOK
    <3>2. CASE SelectsNone(c, j)
      BY <1>0, <3>2 DEF SelectsNone, Untouched
    <3> QED BY <2>1, <3>1, <3>2
  <2>4. m_next_cta'[k] = m_next_cta[k] /\ m_num_cores_running'[k] = m_num_cores_running[k]
    <3>1. ASSUME j \in Kernels, NEW i \in Contexts, Puts(c, i, j)
          PROVE  m_next_cta'[k] = m_next_cta[k] /\ m_num_cores_running'[k] = m_num_cores_running[k]
      <4>1. j \in Running \/ m_num_cores_running[j] > 0
        BY <2>1, <3>1, PutsKernel
      <4>2. j # k
        BY <1>0, <2>2, <4>1 DEF Untouched
      <4> QED BY <3>1, <4>2, PutsCounts
    <3>2. CASE PutsNone(c, j)
      BY <3>2 DEF PutsNone
    <3> QED BY <2>1, <3>1, <3>2
  <2> QED BY <1>0, <2>0, <2>3, <2>4 DEF Untouched
<1>6. CASE RegisterFinished
  <2>1. /\ subject \in DOMAIN m_grid_id_to_stream /\ subject \in Kernels
        /\ DOMAIN m_grid_id_to_stream' = DOMAIN m_grid_id_to_stream \ {subject}
    BY <1>6, RegisterEffect
  <2>2. /\ UNCHANGED <<m_next_cta, m_num_cores_running, m_running_kernels, m_kernel, m_executed_kernel_uids>>
        /\ Gone' \subseteq Gone \cup {subject}
    BY <1>6 DEF Gone, RegisterFinished, table, cores
  <2>3. \/ m_child_kernels' = m_child_kernels
        \/ m_child_kernels' = [m_child_kernels EXCEPT ![Parent[subject]] = @ \ {subject}]
    BY <1>6 DEF RegisterFinished
  <2>4. m_child_kernels'[k] \subseteq m_child_kernels[k]
    <3>1. m_child_kernels \in [Kernels -> SUBSET Kernels]
      BY DEF TypeOK
    <3> QED BY <2>3, <3>1
  <2>5. subject # k
    BY <1>0, <2>1 DEF Untouched
  <2> QED BY <1>0, <2>1, <2>2, <2>4, <2>5 DEF Untouched
<1>7. CASE StopRunningKernel
  <2>1. UNCHANGED <<objects, streams, cores, m_executed_kernel_uids>>
    BY <1>7 DEF StopRunningKernel
  <2>2. \A n \in Slots : m_running_kernels'[n] = m_running_kernels[n] \/ m_running_kernels'[n] = None
    BY <1>7, SlotsEmptied DEF StopRunningKernel
  <2> QED BY <1>1, <2>1, <2>2 DEF Gone, objects, streams, cores
<1>8. CASE \/ \E j \in Kernels : HostLaunch(j)
           \/ CoresDone \/ EndCycle \/ CheckFinishedKernel \/ DetectWork \/ UpdateStats \/ Quiet
  <2>1. /\ UNCHANGED <<m_next_cta, m_num_cores_running, m_child_kernels, m_kernel, Gone,
                       m_grid_id_to_stream, m_running_kernels>>
        /\ m_executed_kernel_uids' \subseteq m_executed_kernel_uids
    BY <1>8 DEF Gone, HostLaunch, CoresDone, EndCycle, CheckFinishedKernel, DetectWork,
                UpdateStats, Quiet, objects, streams, table, cores
  <2> QED BY <1>1, <2>1
<1> QED BY <1>2, <1>3, <1>4, <1>5, <1>6, <1>7, <1>8, Steps

\* The table holds no kernel that is done.
LEMMA TableNext ==
    ASSUME KernelManagerAssumption, TypeOK, Counted, QueuedUntouched, TableHoldsNoDone, OneKernelPerCore,
           Bound, [Next]_vars
    PROVE  TableHoldsNoDone'
<1> SUFFICES ASSUME NEW n \in Slots, NEW k, k = m_running_kernels'[n], k # None, Done(k)'
             PROVE  FALSE
  BY DEF TableHoldsNoDone, Running
<1>0. m_running_kernels[n] = k => k \in Kernels /\ ~Done(k)
  BY DEF TableHoldsNoDone, Running, TypeOK
<1>01. m_num_cores_running'[k] = 0 /\ m_next_cta'[k] >= NumCtas[k]
  BY DEF Done, NoMoreCtas
<1>02. \A j \in Kernels : m_num_cores_running[j] \in Nat
  BY DEF TypeOK
<1>1. CASE /\ k = m_running_kernels[n]
           /\ m_next_cta'[k] = m_next_cta[k] /\ m_num_cores_running'[k] = m_num_cores_running[k]
  BY <1>0, <1>1 DEF Done, NoMoreCtas
<1>2. CASE Operate
  <2>0. UNCHANGED <<m_next_cta, m_num_cores_running>>
    BY <1>2 DEF Operate, objects
  <2>1. ASSUME NEW s \in Streams, NEW x \in Slots, NEW j \in Kernels, Starts(s, x, j) PROVE FALSE
    <3>1. k = j \/ k = m_running_kernels[n]
      BY <2>1 DEF Starts
    <3>2. m_next_cta[j] = 0 /\ NumCtas[j] \in Nat \ {0}
      BY <2>1, StartsQueued DEF Untouched, KernelManagerAssumption
    <3>3. k # j
      BY <2>0, <3>2 DEF Done, NoMoreCtas
    <3> QED BY <1>1, <2>0, <3>1, <3>3
  <2> QED BY <1>1, <1>2, <2>0, <2>1, OperateEffect
<1>3. ASSUME NEW c \in Cores, NEW i \in Contexts, CtaExit(c, i) PROVE FALSE
  <2> DEFINE j == m_cta_status[c][i]
  <2>1. /\ j \in Kernels /\ m_num_cores_running[j] > 0
        /\ \A x \in Kernels : m_num_cores_running'[x]
             = IF x = j THEN m_num_cores_running[j] - 1 ELSE m_num_cores_running[x]
        /\ \A x \in Slots : m_running_kernels'[x] = m_running_kernels[x] \/ m_running_kernels'[x] = None
        /\ IF Over(j) THEN SetKernelDone(j) ELSE UNCHANGED <<m_finished_kernel, m_running_kernels>>
        /\ m_next_cta' = m_next_cta
    BY <1>3, ExitCounts
  <2>2. k = m_running_kernels[n]
    BY <2>1
  <2>3. CASE k # j
    BY <1>0, <1>1, <2>1, <2>2, <2>3
  <2>4. CASE k = j
    <3>1. m_num_cores_running[j] = 1 /\ NoMoreCtas(j)
      BY <1>01, <1>02, <2>1, <2>4 DEF NoMoreCtas
    <3>2. Over(j)
      BY <3>1 DEF Over, KernelMoreCtaLeft
    <3>3. m_running_kernels'[n] = IF m_running_kernels[n] = j THEN None ELSE m_running_kernels[n]
      <4>1. SetKernelDone(j)
        BY <2>1, <3>2
      <4> QED BY <4>1 DEF SetKernelDone
    <3>4. j # None
      BY <2>1 DEF KernelManagerAssumption
    <3> QED BY <1>1, <2>2, <2>4, <3>3, <3>4
  <2> QED BY <2>3, <2>4
<1>4. CASE IssueBlock2Core
  <2>0. m_running_kernels' = m_running_kernels
    BY <1>4 DEF IssueBlock2Core
  <2>1. PICK c \in Cores, j \in Kernels \cup {None} :
          (j \in Kernels /\ \E i \in Contexts : Puts(c, i, j)) \/ PutsNone(c, j)
    BY <1>4, IssueCases
  <2>2. ASSUME j \in Kernels, NEW i \in Contexts, Puts(c, i, j) PROVE FALSE
    <3>1. k \in Kernels
      BY <1>0, <2>0
    <3>2. k # j
      <4>1. m_num_cores_running'[j] = m_num_cores_running[j] + 1
        BY <2>2, PutsCounts
      <4> QED BY <1>01, <1>02, <2>2, <4>1
    <3> QED BY <1>1, <2>0, <2>2, <3>1, <3>2, PutsCounts
  <2>3. CASE PutsNone(c, j)
    BY <1>1, <2>0, <2>3 DEF PutsNone
  <2> QED BY <2>1, <2>2, <2>3
<1>5. CASE StopRunningKernel
  <2>1. UNCHANGED objects
    BY <1>5 DEF StopRunningKernel
  <2>2. m_running_kernels'[n] = m_running_kernels[n] \/ m_running_kernels'[n] = None
    BY <1>5, SlotsEmptied DEF StopRunningKernel
  <2> QED BY <1>1, <2>1, <2>2 DEF objects
<1>6. CASE \/ \E j \in Kernels : HostLaunch(j) \/ LaunchDevice(j)
           \/ RegisterFinished
           \/ CoresDone \/ EndCycle \/ CheckFinishedKernel \/ DetectWork \/ UpdateStats \/ Quiet
  <2>1. UNCHANGED <<m_next_cta, m_num_cores_running, m_running_kernels>>
    BY <1>6 DEF HostLaunch, LaunchDevice, RegisterFinished, CoresDone, EndCycle, CheckFinishedKernel,
                DetectWork, UpdateStats, Quiet, objects, table
  <2> QED BY <1>1, <2>1
<1> QED BY <1>2, <1>3, <1>4, <1>5, <1>6, Steps

\* A limit that was reached stays so.
LEMMA ReachedStable ==
    ASSUME reached, [Next]_vars
    PROVE  reached'
<1>1. \/ reached' = reached \/ reached' = (reached \/ MaxHit')
  <2>1. ASSUME NEW k \in Kernels, HostLaunch(k) \/ LaunchDevice(k) PROVE reached' = reached
    BY <2>1 DEF HostLaunch, LaunchDevice, counts
  <2>2. ASSUME NEW c \in Cores, NEW i \in Contexts, CtaExit(c, i) PROVE reached' = (reached \/ MaxHit')
    BY <2>2 DEF CtaExit
  <2>3. CASE Operate \/ RegisterFinished \/ EndCycle \/ CheckFinishedKernel \/ StopRunningKernel \/ Quiet
    BY <2>3 DEF Operate, RegisterFinished, EndCycle, CheckFinishedKernel, StopRunningKernel, Quiet, counts
  <2>4. CASE DetectWork \/ IssueBlock2Core
    BY <2>4 DEF DetectWork, IssueBlock2Core
  <2>5. CASE CoresDone \/ UpdateStats
    BY <2>5 DEF CoresDone, UpdateStats
  <2> QED BY <2>1, <2>2, <2>3, <2>4, <2>5, Steps
<1> QED BY <1>1

\* What stops the simulation stops it because a limit was reached.
LEMMA LimitsKnownNext ==
    ASSUME KernelManagerAssumption, TypeOK, LimitsKnown, [Next]_vars
    PROVE  LimitsKnown'
<1>1. reached \/ HitMaxCta => reached' \/ HitMaxCta'
  BY ReachedStable, HitStable
<1>2. MaxHit' => reached' \/ HitMaxCta'
  <2>1. CASE \/ UNCHANGED <<limit, gpu_tot_issued_cta, gpu_completed_cta>>
             \/ UNCHANGED <<limit, gpu_tot_issued_cta>> /\ gpu_completed_cta' = 0
    <3>1. MaxHit' => MaxHit
      BY <2>1 DEF MaxHit, KernelManagerAssumption
    <3> QED BY <1>1, <3>1 DEF LimitsKnown
  <2>2. CASE reached' = (reached \/ MaxHit')
    BY <2>2
  <2>3. ASSUME NEW k \in Kernels, HostLaunch(k) \/ LaunchDevice(k) PROVE MaxHit' => reached' \/ HitMaxCta'
    BY <2>1, <2>3 DEF HostLaunch, LaunchDevice, counts
  <2>4. ASSUME NEW c \in Cores, NEW i \in Contexts, CtaExit(c, i) PROVE MaxHit' => reached' \/ HitMaxCta'
    BY <2>2, <2>4 DEF CtaExit
  <2>5. CASE Operate \/ RegisterFinished \/ EndCycle \/ CheckFinishedKernel \/ StopRunningKernel \/ Quiet
    BY <2>1, <2>5 DEF Operate, RegisterFinished, EndCycle, CheckFinishedKernel, StopRunningKernel, Quiet, counts
  <2>6. CASE DetectWork \/ IssueBlock2Core
    BY <2>1, <2>6 DEF DetectWork, IssueBlock2Core
  <2>7. CASE CoresDone \/ UpdateStats
    BY <2>2, <2>7 DEF CoresDone, UpdateStats
  <2> QED BY <2>3, <2>4, <2>5, <2>6, <2>7, Steps
<1>3. Stopping' => Stopping \/ MaxHit
  <2>1. ASSUME NEW k \in Kernels, HostLaunch(k) \/ LaunchDevice(k) PROVE Stopping' => Stopping
    BY <2>1 DEF HostLaunch, LaunchDevice, Stopping, control
  <2>2. ASSUME NEW c \in Cores, NEW i \in Contexts, CtaExit(c, i) PROVE Stopping' => Stopping
    BY <2>2 DEF CtaExit, Stopping, control
  <2>3. CASE StopAllRunningKernels
    BY <2>3 DEF StopAllRunningKernels
  <2>4. CASE \/ CheckFinishedKernel \/ RegisterUnfinished \/ RegisterFinished \/ RegisterUnknown
             \/ \E k \in Kernels : DeleteKernel(k)
    BY <2>4 DEF CheckFinishedKernel, RegisterUnfinished, RegisterFinished, RegisterUnknown, DeleteKernel,
                Registered, Stopping
  <2>5. CASE StopRunningKernel \/ Stopped
    BY <2>5 DEF StopRunningKernel, Stopped, Stopping
  <2>6. CASE Operate \/ EndCycle \/ CoresDone \/ DetectWork \/ IssueBlock2Core \/ UpdateStats
    BY <2>6 DEF Operate, EndCycle, CoresDone, DetectWork, IssueBlock2Core, UpdateStats, Stopping
  <2>7. CASE StartCycle \/ NoCycle \/ LoopTest \/ UNCHANGED vars
    BY <2>7 DEF StartCycle, NoCycle, LoopTest, Stopping, vars, control
  <2> QED BY <2>1, <2>2, <2>3, <2>4, <2>5, <2>6, <2>7
          DEF Next, SomeCtaExits, SimStep, Cycle, Retire
<1>4. spc' = "detect" => m_total_cta_launched' = 0
  <2>1. CASE spc' = spc /\ m_total_cta_launched' = m_total_cta_launched
    BY <2>1 DEF LimitsKnown
  <2>2. ASSUME NEW k \in Kernels, HostLaunch(k) \/ LaunchDevice(k)
        PROVE  spc' = "detect" => m_total_cta_launched' = 0
    BY <2>1, <2>2 DEF HostLaunch, LaunchDevice, control, counts
  <2>3. ASSUME NEW c \in Cores, NEW i \in Contexts, CtaExit(c, i)
        PROVE  spc' = "detect" => m_total_cta_launched' = 0
    BY <2>1, <2>3 DEF CtaExit, control
  <2>4. CASE \/ CheckFinishedKernel \/ RegisterUnfinished \/ RegisterFinished \/ RegisterUnknown
             \/ \E k \in Kernels : DeleteKernel(k)
    BY <2>4 DEF CheckFinishedKernel, RegisterUnfinished, RegisterFinished, RegisterUnknown, DeleteKernel,
                Registered
  <2>5. CASE StopAllRunningKernels \/ StopRunningKernel \/ Stopped
    BY <2>5 DEF StopAllRunningKernels, StopRunningKernel, Stopped
  <2>6. CASE Operate \/ EndCycle \/ CoresDone \/ DetectWork \/ IssueBlock2Core \/ UpdateStats
    BY <2>6 DEF Operate, EndCycle, CoresDone, DetectWork, IssueBlock2Core, UpdateStats
  <2>7. CASE StartCycle \/ NoCycle \/ LoopTest
    BY <2>7 DEF StartCycle, NoCycle, LoopTest
  <2>8. CASE UNCHANGED vars
    BY <2>1, <2>8 DEF vars, control, counts
  <2> QED BY <2>2, <2>3, <2>4, <2>5, <2>6, <2>7, <2>8
          DEF Next, SomeCtaExits, SimStep, Cycle, Retire
<1> QED BY <1>1, <1>2, <1>3, <1>4 DEF LimitsKnown

\* Until a limit is reached a kernel with CTAs is in the table.
LEMMA CtasInTableNext ==
    ASSUME KernelManagerAssumption, TypeOK, Counted, TableHoldsNoDone, OneKernelPerCore, Bound,
           LimitsKnown, CtasInTable, [Next]_vars
    PROVE  CtasInTable'
<1> SUFFICES ASSUME ~reached', ~HitMaxCta', NEW k \in Kernels, m_num_cores_running'[k] > 0
             PROVE  \E n \in Slots : m_running_kernels'[n] = k
  BY DEF CtasInTable, Running, KernelManagerAssumption
<1>0. ~reached /\ ~HitMaxCta /\ ~Stopping
  BY ReachedStable, HitStable DEF LimitsKnown
<1>1. ASSUME NEW j \in Kernels, m_num_cores_running[j] > 0 PROVE \E n \in Slots : m_running_kernels[n] = j
  BY <1>0, <1>1 DEF CtasInTable, Running
<1>2. CASE m_num_cores_running' = m_num_cores_running /\ m_running_kernels' = m_running_kernels
  BY <1>1, <1>2
<1>3. ASSUME NEW c \in Cores, NEW i \in Contexts, CtaExit(c, i)
      PROVE  \E n \in Slots : m_running_kernels'[n] = k
  <2> DEFINE j == m_cta_status[c][i]
  <2>1. /\ j \in Kernels /\ m_num_cores_running[j] > 0
        /\ m_num_cores_running'[k] = IF k = j THEN m_num_cores_running[j] - 1 ELSE m_num_cores_running[k]
        /\ IF Over(j) THEN SetKernelDone(j) ELSE UNCHANGED <<m_finished_kernel, m_running_kernels>>
    BY <1>3, ExitCounts
  <2>2. PICK n \in Slots : m_running_kernels[n] = k
    BY <1>1, <2>1
  <2>3. Over(j) => k # j
    BY <2>1 DEF Over, TypeOK
  <2> QED BY <2>1, <2>2, <2>3 DEF SetKernelDone
<1>4. CASE IssueBlock2Core
  <2>0. m_running_kernels' = m_running_kernels
    BY <1>4 DEF IssueBlock2Core
  <2>1. PICK c \in Cores, j \in Kernels \cup {None} :
          /\ (Selects(c, j) /\ j \in Running /\ j \in Kernels) \/ SelectsNone(c, j)
          /\ (j \in Kernels /\ \E i \in Contexts : Puts(c, i, j)) \/ PutsNone(c, j)
    BY <1>4, IssueCases
  <2>2. ASSUME j \in Kernels, NEW i \in Contexts, Puts(c, i, j)
        PROVE  \E n \in Slots : m_running_kernels'[n] = k
    <3>1. j \in Running \/ m_num_cores_running[j] > 0
      BY <2>1, <2>2, PutsKernel
    <3>2. \E n \in Slots : m_running_kernels[n] = j
      BY <1>1, <2>2, <3>1 DEF Running
    <3>3. k = j \/ m_num_cores_running[k] > 0
      BY <2>2, PutsCounts
    <3> QED BY <1>1, <2>0, <3>2, <3>3
  <2>3. CASE PutsNone(c, j)
    BY <1>2, <2>0, <2>3 DEF PutsNone
  <2> QED BY <2>1, <2>2, <2>3
<1>5. CASE Operate
  <2>0. m_num_cores_running' = m_num_cores_running
    BY <1>5 DEF Operate, objects
  <2>1. ASSUME NEW s \in Streams, NEW x \in Slots, NEW j \in Kernels, Starts(s, x, j)
        PROVE  \E n \in Slots : m_running_kernels'[n] = k
    <3>1. PICK n \in Slots : m_running_kernels[n] = k
      BY <1>1, <2>0
    <3>2. m_running_kernels[x] = None
      BY <2>1 DEF Starts, TableHoldsNoDone, Running
    <3>3. n # x
      BY <3>1, <3>2 DEF KernelManagerAssumption
    <3> QED BY <2>1, <3>1, <3>3 DEF Starts
  <2> QED BY <1>2, <1>5, <2>0, <2>1, OperateEffect
<1>6. CASE StopRunningKernel
  BY <1>0, <1>6 DEF StopRunningKernel, Stopping
<1>7. CASE \/ \E j \in Kernels : HostLaunch(j) \/ LaunchDevice(j)
           \/ RegisterFinished
           \/ CoresDone \/ EndCycle \/ CheckFinishedKernel \/ DetectWork \/ UpdateStats \/ Quiet
  <2>1. UNCHANGED <<m_num_cores_running, m_running_kernels>>
    BY <1>7 DEF HostLaunch, LaunchDevice, RegisterFinished, CoresDone, EndCycle, CheckFinishedKernel,
                DetectWork, UpdateStats, Quiet, objects, table
  <2> QED BY <1>2, <2>1
<1> QED BY <1>3, <1>4, <1>5, <1>6, <1>7, Steps

\* select_kernel() turns from a kernel only when it has no more CTAs to issue.
LEMMA ExecutedLastNext ==
    ASSUME KernelManagerAssumption, TypeOK, Counted, QueuedUntouched, LimitsKnown, ExecutedLast, [Next]_vars
    PROVE  ExecutedLast'
<1> SUFFICES ASSUME NEW k, k \in m_executed_kernel_uids', ~NoMoreCtas(k)', ~HitMaxCta', k \in Running'
             PROVE  m_running_kernels'[m_last_issued_kernel'] = k /\ m_kernel_TB_latency'[k] = 0
  BY DEF ExecutedLast, Last
<1>0. ~HitMaxCta /\ (k \in Kernels => ~NoMoreCtas(k))
  BY HitStable, NoMoreStable
<1>1. ASSUME k \in m_executed_kernel_uids, k \in Running
      PROVE  k \in Kernels /\ Last = k /\ m_kernel_TB_latency[k] = 0
  BY <1>0, <1>1 DEF ExecutedLast, TypeOK
<1>2. PICK n \in Slots : m_running_kernels'[n] = k /\ k # None
  BY DEF Running
<1>3. CASE UNCHANGED <<m_executed_kernel_uids, m_running_kernels, m_last_issued_kernel, m_kernel_TB_latency>>
  <2>1. k \in m_executed_kernel_uids /\ k \in Running
    BY <1>2, <1>3 DEF Running
  <2> QED BY <1>1, <1>3, <2>1 DEF Last
<1>4. CASE IssueBlock2Core
  <2>0. m_running_kernels' = m_running_kernels /\ m_kernel_TB_latency' = m_kernel_TB_latency
    BY <1>4 DEF IssueBlock2Core
  <2>1. PICK c \in Cores, j \in Kernels \cup {None} :
          (Selects(c, j) /\ j \in Running /\ j \in Kernels) \/ SelectsNone(c, j)
    BY <1>4, IssueCases
  <2>2. CASE Selects(c, j)
    <3>1. /\ m_last_issued_kernel' = FirstOf(Selected) /\ j = m_running_kernels[FirstOf(Selected)]
          /\ m_executed_kernel_uids' = m_executed_kernel_uids \cup {j} /\ Selected # {}
      BY <2>2 DEF Selects
    <3>2. m_kernel_TB_latency[j] = 0
      BY <3>1, FirstSelected, SelectedType
    <3>3. ASSUME k # j PROVE FALSE
      <4>1. k \in m_executed_kernel_uids /\ k \in Running
        BY <1>2, <2>0, <3>1, <3>3 DEF Running
      <4>2. KeepsLast
        BY <1>0, <1>1, <1>2, <4>1 DEF KeepsLast
      <4>3. FirstOf(Selected) = m_last_issued_kernel
        BY <3>1, <4>2, FirstSelected, SelectedType
      <4> QED BY <1>1, <3>1, <3>3, <4>1, <4>3 DEF Last
    <3> QED BY <2>0, <3>1, <3>2, <3>3
  <2>3. CASE SelectsNone(c, j)
    BY <1>3, <2>0, <2>3 DEF SelectsNone
  <2> QED BY <2>1, <2>2, <2>3
<1>5. ASSUME UNCHANGED <<m_executed_kernel_uids, m_last_issued_kernel, m_kernel_TB_latency>>,
             NEW j, SetKernelDone(j) \/ UNCHANGED m_running_kernels
      PROVE  m_running_kernels'[m_last_issued_kernel'] = k /\ m_kernel_TB_latency'[k] = 0
  <2>1. m_running_kernels[n] = k /\ (SetKernelDone(j) => k # j)
    BY <1>2, <1>5 DEF SetKernelDone
  <2>2. k \in m_executed_kernel_uids /\ k \in Running
    BY <1>2, <1>5, <2>1 DEF Running
  <2>3. m_last_issued_kernel \in Slots /\ m_running_kernels[m_last_issued_kernel] = k
    BY <1>1, <2>2 DEF Last, TypeOK
  <2> QED BY <1>1, <1>5, <2>1, <2>2, <2>3 DEF SetKernelDone
<1>6. ASSUME NEW c \in Cores, NEW i \in Contexts, CtaExit(c, i)
      PROVE  m_running_kernels'[m_last_issued_kernel'] = k /\ m_kernel_TB_latency'[k] = 0
  <2>1. UNCHANGED <<m_executed_kernel_uids, m_last_issued_kernel, m_kernel_TB_latency>>
    BY <1>6 DEF CtaExit
  <2>2. SetKernelDone(m_cta_status[c][i]) \/ UNCHANGED m_running_kernels
    BY <1>6 DEF CtaExit
  <2> QED BY <1>5, <2>1, <2>2
<1>7. CASE StopRunningKernel
  <2>1. UNCHANGED <<m_executed_kernel_uids, m_last_issued_kernel, m_kernel_TB_latency>>
    BY <1>7 DEF StopRunningKernel, objects
  <2> QED BY <1>5, <1>7, <2>1 DEF StopRunningKernel
<1>8. CASE Operate
  <2>0. UNCHANGED <<m_executed_kernel_uids, m_last_issued_kernel, m_kernel_TB_latency>>
    BY <1>8 DEF Operate, objects
  <2>1. ASSUME NEW s \in Streams, NEW x \in Slots, NEW j \in Kernels, Starts(s, x, j)
        PROVE  m_running_kernels'[m_last_issued_kernel'] = k /\ m_kernel_TB_latency'[k] = 0
    <3>1. k # j
      BY <2>0, <2>1, StartsQueued DEF Untouched
    <3>2. n # x /\ m_running_kernels[n] = k
      BY <1>2, <2>1, <3>1 DEF Starts
    <3>3. k \in m_executed_kernel_uids /\ k \in Running
      BY <1>2, <2>0, <3>2 DEF Running
    <3>4. m_running_kernels[x] # k
      BY <1>0, <1>1, <1>2, <2>1, <3>3 DEF Starts, Done
    <3>5. m_last_issued_kernel \in Slots /\ m_running_kernels[m_last_issued_kernel] = k
      BY <1>1, <3>3 DEF Last, TypeOK
    <3>6. m_running_kernels'[m_last_issued_kernel] = k
      BY <2>1, <3>4, <3>5 DEF Starts
    <3> QED BY <1>1, <2>0, <3>3, <3>6
  <2> QED BY <1>3, <1>8, <2>0, <2>1, OperateEffect
<1>9. CASE EndCycle
  <2>1. UNCHANGED <<m_executed_kernel_uids, m_running_kernels, m_last_issued_kernel>>
    BY <1>9 DEF EndCycle, table
  <2>2. k \in m_executed_kernel_uids /\ k \in Running
    BY <1>2, <2>1 DEF Running
  <2>3. k \in Kernels /\ Last = k /\ m_kernel_TB_latency[k] = 0
    BY <1>1, <2>2
  <2>4. m_kernel_TB_latency'[k] = 0
    BY <1>9, <2>3 DEF EndCycle
  <2> QED BY <2>1, <2>3, <2>4 DEF Last
<1>10. CASE UpdateStats
  BY <1>10 DEF UpdateStats
<1>11. CASE \/ \E j \in Kernels : HostLaunch(j) \/ LaunchDevice(j)
            \/ RegisterFinished \/ CoresDone \/ CheckFinishedKernel \/ DetectWork \/ Quiet
  <2>1. UNCHANGED <<m_executed_kernel_uids, m_running_kernels, m_last_issued_kernel, m_kernel_TB_latency>>
    BY <1>11 DEF HostLaunch, LaunchDevice, RegisterFinished, CoresDone, CheckFinishedKernel,
                 DetectWork, Quiet, objects, table
  <2> QED BY <1>3, <2>1
<1> QED BY <1>4, <1>6, <1>7, <1>8, <1>9, <1>10, <1>11, Steps

\* A child is known to a parent that has its entry and keeps its stream.
LEMMA ChildrenLinkedNext ==
    ASSUME KernelManagerAssumption, TypeOK, Counted, Books, EntriesCover, ChildrenLinked, SubjectKnown,
           [Next]_vars
    PROVE  ChildrenLinked'
<1> DEFINE Linked(k) == /\ k \in m_child_kernels[Parent[k]]
                        /\ Parent[k] \in DOMAIN m_grid_id_to_stream
                        /\ StreamOf[k] \in m_cta_streams[Parent[k]]
<1> SUFFICES ASSUME NEW k \in launched' \ Gone', Parent[k] # None
             PROVE  Linked(k)'
  BY DEF ChildrenLinked
<1> DEFINE p == Parent[k]
<1>0. ASSUME k \in launched \ Gone
      PROVE  /\ k \in m_child_kernels[p] /\ p \in DOMAIN m_grid_id_to_stream
             /\ StreamOf[k] \in m_cta_streams[p] /\ p \in Kernels /\ p \notin Gone
  BY <1>0 DEF ChildrenLinked, EntriesCover, TypeOK, KernelManagerAssumption
<1>1. CASE UNCHANGED <<launched, Gone, m_child_kernels, m_cta_streams, m_grid_id_to_stream>>
  BY <1>0, <1>1
<1>2. ASSUME NEW j \in Kernels, HostLaunch(j) PROVE Linked(k)'
  <2>1. k # j
    BY <1>2 DEF HostLaunch
  <2>2. /\ launched' = launched \cup {j}
        /\ UNCHANGED <<Gone, m_child_kernels, m_cta_streams, m_grid_id_to_stream>>
    BY <1>2 DEF HostLaunch, Gone
  <2> QED BY <1>0, <2>1, <2>2
<1>3. ASSUME NEW j \in Kernels, LaunchDevice(j) PROVE Linked(k)'
  <2>1. /\ m_child_kernels' = [m_child_kernels EXCEPT ![Parent[j]] = @ \cup {j}]
        /\ m_cta_streams' = [m_cta_streams EXCEPT ![Parent[j]] = @ \cup {StreamOf[j]}]
        /\ launched' = launched \cup {j} /\ UNCHANGED <<m_grid_id_to_stream, Gone>>
    BY <1>3 DEF LaunchDevice, streams, Gone
  <2>2. m_child_kernels \in [Kernels -> SUBSET Kernels] /\ m_cta_streams \in [Kernels -> SUBSET Streams]
    BY DEF TypeOK
  <2>3. CASE k = j
    <3>1. PICK c \in Cores, i \in Contexts : m_cta_status[c][i] = p /\ p # None
      BY <1>3, <2>3 DEF LaunchDevice
    <3>2. p \in Kernels /\ m_num_cores_running[p] > 0
      BY <3>1, CtaCounted
    <3>3. p \in DOMAIN m_grid_id_to_stream
      BY <3>2 DEF EntriesCover
    <3> QED BY <2>1, <2>2, <2>3, <3>2, <3>3
  <2>4. CASE k # j
    <3>1. k \in launched \ Gone
      BY <2>1, <2>4
    <3> QED BY <1>0, <2>1, <2>2, <3>1
  <2> QED BY <2>3, <2>4
<1>4. CASE RegisterFinished
  <2>1. /\ subject \in Kernels /\ m_child_kernels[subject] = {}
        /\ DOMAIN m_grid_id_to_stream' = DOMAIN m_grid_id_to_stream \ {subject}
    BY <1>4, RegisterEffect DEF IsFinished
  <2>2. /\ UNCHANGED <<launched, m_cta_streams>> /\ Gone' = Gone \cup {subject}
    BY <1>4 DEF RegisterFinished, Gone
  <2>3. k \in launched \ Gone /\ k # subject
    BY <2>2
  <2>4. p # subject
    BY <1>0, <2>1, <2>3
  <2>5. \/ m_child_kernels' = m_child_kernels
        \/ m_child_kernels' = [m_child_kernels EXCEPT ![Parent[subject]] = @ \ {subject}]
    BY <1>4 DEF RegisterFinished
  <2>6. m_child_kernels \in [Kernels -> SUBSET Kernels]
    BY DEF TypeOK
  <2>7. k \in m_child_kernels'[p]
    BY <1>0, <2>3, <2>5, <2>6
  <2> QED BY <1>0, <2>1, <2>2, <2>3, <2>4, <2>7
<1>5. CASE Operate
  <2>1. UNCHANGED <<launched, Gone, m_child_kernels, m_cta_streams>>
    BY <1>5 DEF Operate, objects, Gone
  <2>2. DOMAIN m_grid_id_to_stream \subseteq DOMAIN m_grid_id_to_stream'
    BY <1>5, OperateEffect DEF Starts, streams
  <2> QED BY <1>0, <2>1, <2>2
<1>6. CASE Quiet
  <2>1. UNCHANGED <<launched, Gone, m_child_kernels, m_grid_id_to_stream>> /\ k \in launched \ Gone
    BY <1>6 DEF Quiet, streams
  <2>2. \/ m_cta_streams' = m_cta_streams
        \/ \E j \in Gone : m_cta_streams' = [m_cta_streams EXCEPT ![j] = {}]
    BY <1>6 DEF Quiet, Gone
  <2>3. m_cta_streams \in [Kernels -> SUBSET Streams]
    BY DEF TypeOK
  <2>4. m_cta_streams'[p] = m_cta_streams[p]
    BY <1>0, <2>1, <2>2, <2>3
  <2> QED BY <1>0, <2>1, <2>4
<1>7. CASE \/ \E c \in Cores : \E i \in Contexts : CtaExit(c, i)
           \/ IssueBlock2Core \/ CoresDone \/ EndCycle \/ CheckFinishedKernel
           \/ StopRunningKernel \/ DetectWork \/ UpdateStats
  <2>1. UNCHANGED <<launched, Gone, m_child_kernels, m_cta_streams, m_grid_id_to_stream>>
    BY <1>7 DEF CtaExit, IssueBlock2Core, CoresDone, EndCycle, CheckFinishedKernel, StopRunningKernel,
                DetectWork, UpdateStats, objects, streams, Gone
  <2> QED BY <1>1, <2>1
<1> QED BY <1>2, <1>3, <1>4, <1>5, <1>6, <1>7, Steps

\* A kernel that is popped was not deleted before, nor is it again.
LEMMA DeletedOnceNext ==
    ASSUME KernelManagerAssumption, TypeOK, Books, EntriesCover, DeletedOnce, SubjectKnown, [Next]_vars
    PROVE  DeletedOnce'
<1> USE DEF DeletedOnce
<1>1. CASE UNCHANGED <<retiring, deleted>>
  BY <1>1
<1>2. CASE RegisterFinished
  <2>1. subject \notin deleted
    BY <1>2, RegisterEffect DEF EntriesCover, Gone
  <2> QED BY <1>2, <2>1 DEF RegisterFinished
<1>3. CASE Quiet
  BY <1>1, <1>3 DEF Quiet
<1>4. CASE \/ \E k \in Kernels : HostLaunch(k) \/ LaunchDevice(k)
           \/ \E c \in Cores : \E i \in Contexts : CtaExit(c, i)
           \/ Operate \/ IssueBlock2Core \/ CoresDone \/ EndCycle \/ CheckFinishedKernel
           \/ StopRunningKernel \/ DetectWork \/ UpdateStats
  <2>1. UNCHANGED <<retiring, deleted>>
    BY <1>4 DEF HostLaunch, LaunchDevice, CtaExit, Operate, IssueBlock2Core, CoresDone, EndCycle,
                CheckFinishedKernel, StopRunningKernel, DetectWork, UpdateStats, objects
  <2> QED BY <1>1, <2>1
<1> QED BY <1>2, <1>3, <1>4, Steps

\* A grid creates streams for the grids it launches only.
LEMMA StreamsOfChildrenNext ==
    ASSUME KernelManagerAssumption, TypeOK, StreamsOfChildren, [Next]_vars
    PROVE  StreamsOfChildren'
<1> SUFFICES ASSUME NEW k \in Kernels, NEW x \in m_cta_streams'[k]
             PROVE  \E j \in Kernels : StreamOf[j] = x /\ Parent[j] = k
  BY DEF StreamsOfChildren
<1>0. m_cta_streams \in [Kernels -> SUBSET Streams]
  BY DEF TypeOK
<1>1. CASE m_cta_streams'[k] \subseteq m_cta_streams[k]
  BY <1>1 DEF StreamsOfChildren
<1>2. ASSUME NEW j \in Kernels, LaunchDevice(j) PROVE \E y \in Kernels : StreamOf[y] = x /\ Parent[y] = k
  <2>1. m_cta_streams' = [m_cta_streams EXCEPT ![Parent[j]] = @ \cup {StreamOf[j]}]
    BY <1>2 DEF LaunchDevice
  <2>2. x \in m_cta_streams[k] \/ (x = StreamOf[j] /\ Parent[j] = k)
    BY <1>0, <2>1
  <2> QED BY <2>2 DEF StreamsOfChildren
<1>3. CASE Quiet
  <2>1. m_cta_streams' = m_cta_streams \/ \E j \in retiring : m_cta_streams' = [m_cta_streams EXCEPT ![j] = {}]
    BY <1>3 DEF Quiet
  <2> QED BY <1>0, <1>1, <2>1
<1>4. CASE \/ \E j \in Kernels : HostLaunch(j)
           \/ \E c \in Cores : \E i \in Contexts : CtaExit(c, i)
           \/ Operate \/ IssueBlock2Core \/ RegisterFinished \/ CoresDone \/ EndCycle
           \/ CheckFinishedKernel \/ StopRunningKernel \/ DetectWork \/ UpdateStats
  <2>1. m_cta_streams' = m_cta_streams
    BY <1>4 DEF HostLaunch, CtaExit, Operate, IssueBlock2Core, RegisterFinished, CoresDone, EndCycle,
                CheckFinishedKernel, StopRunningKernel, DetectWork, UpdateStats, objects
  <2> QED BY <1>1, <2>1
<1> QED BY <1>2, <1>3, <1>4, Steps

\* The steps of the simulation thread lead from phase to phase.
LEMMA PhasesNext ==
    ASSUME KernelManagerAssumption, TypeOK, SubjectKnown, Phases, [Next]_vars
    PROVE  SubjectKnown' /\ Phases'
<1> USE DEF SubjectKnown, Phases
<1>1. ASSUME NEW k \in Kernels, HostLaunch(k) \/ LaunchDevice(k) PROVE SubjectKnown' /\ Phases'
  BY <1>1 DEF HostLaunch, LaunchDevice, control
<1>2. ASSUME NEW c \in Cores, NEW i \in Contexts, CtaExit(c, i) PROVE SubjectKnown' /\ Phases'
  BY <1>2 DEF CtaExit, control
<1>3. CASE CheckFinishedKernel
  <2>1. m_finished_kernel # <<>> => Head(m_finished_kernel) \in Kernels
    BY DEF TypeOK
  <2> QED BY <1>3, <2>1 DEF CheckFinishedKernel
<1>4. CASE RegisterFinished
  BY <1>4 DEF RegisterFinished, Registered, KernelManagerAssumption
<1>5. CASE RegisterUnfinished \/ RegisterUnknown \/ \E k \in Kernels : DeleteKernel(k)
  BY <1>5 DEF RegisterUnfinished, RegisterUnknown, DeleteKernel, Registered
<1>6. CASE StopAllRunningKernels \/ StopRunningKernel \/ Stopped
  BY <1>6 DEF StopAllRunningKernels, StopRunningKernel, Stopped
<1>7. CASE Operate \/ EndCycle \/ CoresDone \/ DetectWork \/ IssueBlock2Core \/ UpdateStats
  BY <1>7 DEF Operate, EndCycle, CoresDone, DetectWork, IssueBlock2Core, UpdateStats
<1>8. CASE StartCycle \/ NoCycle \/ LoopTest \/ UNCHANGED vars
  BY <1>8 DEF StartCycle, NoCycle, LoopTest, vars, control
<1> QED BY <1>1, <1>2, <1>3, <1>4, <1>5, <1>6, <1>7, <1>8
        DEF Next, SomeCtaExits, SimStep, Cycle, Retire

\* Nothing ran yet.
LEMMA InitIInv ==
    ASSUME KernelManagerAssumption, Init
    PROVE  IInv
<1> USE DEF Init
<1>1. TypeOK
  <2>1. 0 \in Slots /\ NClusters - 1 \in Clusters /\ 0 \in Clusters /\ 0 \in 0..(CoresPerCluster - 1)
        /\ CoresPerCluster - 1 \in 0..(CoresPerCluster - 1)
    BY DEF KernelManagerAssumption, Slots, Clusters
  <2>2. turn \in [cluster : 0..NClusters, core : 0..(CoresPerCluster - 1), last : Clusters]
    BY <2>1 DEF NoTurn, Clusters
  <2>3. DOMAIN m_grid_id_to_stream = {}
    OBVIOUS
  <2>4. m_operations \in [Streams -> Seq(Kernels)] /\ device_launch_op \in Seq(Kernels)
        /\ m_finished_kernel \in Seq(Kernels)
    OBVIOUS
  <2> QED BY <2>1, <2>2, <2>3, <2>4 DEF TypeOK, KernelManagerAssumption
<1>2. Counted
  <2>1. ASSUME NEW k \in Kernels PROVE CtasOf(k) = {}
    BY DEF CtasOf, KernelManagerAssumption
  <2> QED BY <2>1, FS_EmptySet DEF Counted
<1>3. QueuedUntouched
  BY DEF QueuedUntouched, Untouched, Gone, KernelManagerAssumption
<1>4. WaitsOnce
  BY NoElements DEF WaitsOnce, StreamsOnce, DeviceOnce
<1>5. Books /\ EntriesCover /\ TableHoldsNoDone
  BY DEF Books, EntriesCover, Gone, TableHoldsNoDone, Running
<1>6. OneKernelPerCore /\ Bound
  BY DEF OneKernelPerCore, Bound, Occupied
<1>7. LimitsKnown /\ CtasInTable
  <2>1. ~MaxHit
    BY DEF MaxHit, KernelManagerAssumption
  <2> QED BY <2>1 DEF LimitsKnown, Stopping, CtasInTable
<1>8. ExecutedLast /\ ChildrenLinked /\ DeletedOnce /\ StreamsOfChildren /\ SubjectKnown /\ Phases
  BY DEF ExecutedLast, ChildrenLinked, DeletedOnce, StreamsOfChildren, SubjectKnown, Phases
<1> QED BY <1>1, <1>2, <1>3, <1>4, <1>5, <1>6, <1>7, <1>8 DEF IInv

\* And every step keeps what holds.
LEMMA NextIInv ==
    ASSUME KernelManagerAssumption, IInv, [Next]_vars
    PROVE  IInv'
<1> USE DEF IInv
<1>1. TypeOK'
  BY TypeNext
<1>2. Counted'
  BY CountedNext
<1>3. QueuedUntouched'
  BY QueuedUntouchedNext
<1>4. WaitsOnce'
  BY WaitsOnceNext
<1>5. Books'
  BY BooksNext
<1>6. EntriesCover'
  BY EntriesCoverNext
<1>7. TableHoldsNoDone'
  BY TableNext
<1>8. OneKernelPerCore'
  BY OneKernelNext
<1>9. Bound'
  BY BoundNext
<1>10. LimitsKnown'
  BY LimitsKnownNext
<1>11. CtasInTable'
  BY CtasInTableNext
<1>12. ExecutedLast'
  BY ExecutedLastNext
<1>13. ChildrenLinked'
  BY ChildrenLinkedNext
<1>14. StreamsOfChildren'
  BY StreamsOfChildrenNext
<1>15. SubjectKnown' /\ Phases'
  BY PhasesNext
<1>16. DeletedOnce'
  BY DeletedOnceNext
<1> QED BY <1>1, <1>2, <1>3, <1>4, <1>5, <1>6, <1>7, <1>8, <1>9, <1>10, <1>11, <1>12, <1>13, <1>14, <1>15, <1>16

\* What the state keeps between the steps, whatever the steps are.
LEMMA Invariance == Spec => []IInv
<1>1. Init => IInv
  BY KernelManagerAssumption, InitIInv
<1>2. IInv /\ [Next]_vars => IInv'
  BY KernelManagerAssumption, NextIInv
<1> QED BY <1>1, <1>2, PTL DEF Spec
-----------------------------------------------------------------------------
(* The theorems.                                                            *)

\* Every variable stays in its domain: m_last_issued_kernel is a slot of
\* m_running_kernels and the counters of a kernel never go below 0, whichever
\* CTAs exit and kernels are stopped (gpu-sim.cc:821-879,
\* abstract_hardware_model.h:279-300).
THEOREM TypeCorrect == Spec => []TypeOK
<1>1. IInv => TypeOK
  BY DEF IInv
<1> QED BY <1>1, Invariance, PTL

\* Two kernels never share the hardware threads of a core that is not
\* configured for it: issue_block2core() binds a core to another kernel only
\* when its last CTA has exited (shader.cc:4085-4105).
THEOREM OneKernelAtATime == Spec => []OneKernelPerCore
<1>1. IInv => OneKernelPerCore
  BY DEF IInv
<1> QED BY <1>1, Invariance, PTL

\* launch() never overwrites a kernel: a kernel in the table has CTAs to issue
\* or to finish, and leaves it with the exit of its last CTA
\* (gpu-sim.cc:757-767, shader.cc:2705-2727).
THEOREM NoDoneKernelInTable == Spec => []TableHoldsNoDone
<1>1. IInv => TableHoldsNoDone
  BY DEF IInv
<1> QED BY <1>1, Invariance, PTL

\* The kernel a core is bound to, or has a CTA of, is never deleted under it,
\* and is in the table as long as no limit was reached (shader.cc:2685-2738,
\* stream_manager.cc:268-297).
THEOREM CoresHoldLive == Spec => []CoresHoldLiveKernels
<1>1. ASSUME KernelManagerAssumption, IInv PROVE CoresHoldLiveKernels
  <2> USE <1>1 DEF IInv
  <2>1. ASSUME NEW k \in Kernels, m_num_cores_running[k] > 0
        PROVE  k \notin Gone /\ (k \in Running \/ reached \/ HitMaxCta)
    <3>1. k \notin Gone
      BY <2>1 DEF EntriesCover, Done
    <3> QED BY <2>1, <3>1 DEF CtasInTable
  <2>2. ASSUME NEW c \in Cores, NEW i \in Occupied(c)
        PROVE  /\ m_cta_status[c][i] \notin Gone
               /\ m_cta_status[c][i] \in Running \/ reached \/ HitMaxCta
    BY <2>1, <2>2, CtaCounted DEF Occupied
  <2>3. ASSUME NEW c \in Cores, m_kernel[c] # None
        PROVE  m_kernel[c] \notin Gone /\ (m_kernel[c] \in Running \/ reached \/ HitMaxCta)
    <3>1. CASE Occupied(c) # {}
      <4>1. PICK i \in Occupied(c) : m_cta_status[c][i] = m_kernel[c]
        BY <2>3, <3>1 DEF OneKernelPerCore, Bound
      <4> QED BY <2>2, <4>1
    <3>2. CASE HitMaxCta /\ ~NoMoreCtas(m_kernel[c])
      BY <3>2 DEF EntriesCover, Done
    <3> QED BY <2>3, <3>1, <3>2 DEF Bound
  <2>4. \A k \in OnCores \cup ({m_kernel[c] : c \in Cores} \ {None}) :
           k \notin Gone /\ (k \in Running \/ reached \/ HitMaxCta)
    BY <2>2, <2>3 DEF OnCores
  <2> QED BY <2>4 DEF CoresHoldLiveKernels, Gone
<1> QED BY <1>1, KernelManagerAssumption, Invariance, PTL

\* select_kernel() never selects a kernel a second time: the assertion of
\* gpu-sim.cc:833-835 never fails.
THEOREM NeverSelectedTwice == Spec => []SelectsUnexecuted
<1>1. ASSUME KernelManagerAssumption, IInv PROVE SelectsUnexecuted
  <2> USE <1>1 DEF IInv
  <2> SUFFICES ASSUME ~KeepsLast, Selected # {},
                      m_running_kernels[FirstOf(Selected)] \in m_executed_kernel_uids
               PROVE  FALSE
    BY DEF SelectsUnexecuted
  <2> DEFINE k == m_running_kernels[FirstOf(Selected)]
  <2>1. FirstOf(Selected) \in Slots /\ KernelMoreCtaLeft(k)
    BY FirstSelected, SelectedType
  <2>2. k \in Running /\ ~HitMaxCta /\ ~NoMoreCtas(k) /\ k # None
    BY <2>1 DEF KernelMoreCtaLeft, Running
  <2>3. Last = k /\ m_kernel_TB_latency[k] = 0
    BY <2>2 DEF ExecutedLast
  <2> QED BY <2>2, <2>3 DEF KeepsLast
<1> QED BY <1>1, KernelManagerAssumption, Invariance, PTL

\* Until a child has notified its parent, the parent keeps its entry and the
\* child's stream, and is neither deleted nor about to be; and nothing is
\* deleted twice (stream_manager.cc:271-293, abstract_hardware_model.cc:849-857).
THEOREM ParentsAwait == Spec => []ParentsAwaitChildren
<1>1. ASSUME IInv PROVE ParentsAwaitChildren
  BY <1>1 DEF IInv, ChildrenLinked, DeletedOnce, EntriesCover, Gone, ParentsAwaitChildren
<1> QED BY <1>1, Invariance, PTL
-----------------------------------------------------------------------------
(* A program without limits, and one without device launches.               *)

\* destroy_stream() finds the streams a retired grid created empty: what is in
\* them are its children, and a grid with children is not retired.
LEMMA RetiresAtOnce ==
    ASSUME KernelManagerAssumption, IInv, NeverStops, NEW k \in Kernels, DeleteKernel(k)
    PROVE  spc' # "stuck"
<1> USE DEF IInv
<1>1. k \in Gone /\ k # None
  BY DEF DeleteKernel, Gone, KernelManagerAssumption
<1>2. ASSUME NEW x \in m_cta_streams[k], m_operations[x] # <<>> PROVE FALSE
  <2>1. x \in Streams /\ m_operations[x] \in Seq(Kernels)
    BY DEF TypeOK
  <2>2. PICK h : h \in Elements(m_operations[x]) /\ h \in Kernels
    BY <1>2, <2>1, TailElements
  <2>3. h \in launched \ Gone /\ StreamOf[h] = x
    BY <2>1, <2>2 DEF WaitsOnce, StreamsOnce, NeverStops
  <2>4. PICK j \in Kernels : StreamOf[j] = x /\ Parent[j] = k
    BY DEF StreamsOfChildren
  <2>5. Parent[h] = k
    BY <2>2, <2>3, <2>4 DEF KernelManagerAssumption
  <2>6. k \in DOMAIN m_grid_id_to_stream
    BY <1>1, <2>3, <2>5 DEF ChildrenLinked
  <2> QED BY <1>1, <2>6 DEF EntriesCover
<1>3. ~DestroyWaits(k)
  BY <1>2 DEF DestroyWaits, NeverStops
<1> QED BY <1>3 DEF DeleteKernel, Registered

\* What a launch pushes was not popped before.
LEMMA StreamsLiveNext ==
    ASSUME KernelManagerAssumption, IInv, NeverStops, [Next]_vars
    PROVE  \A s \in Streams : \A k \in Elements(m_operations'[s]) : k \notin Gone'
<1> USE DEF IInv
<1> SUFFICES ASSUME NEW s \in Streams, NEW k \in Elements(m_operations'[s]), k \in Gone'
             PROVE  FALSE
  OBVIOUS
<1>0. k \in Elements(m_operations[s]) => k \notin Gone
  BY DEF NeverStops
<1>1. CASE UNCHANGED <<m_operations, Gone>>
  BY <1>0, <1>1
<1>2. ASSUME NEW j \in Kernels, Accept(j), Queued(j), Gone' = Gone PROVE FALSE
  <2>1. j \notin Gone
    BY <1>2 DEF QueuedUntouched, Untouched
  <2>2. \/ m_operations'[s] = m_operations[s]
        \/ Elements(m_operations'[s]) = Elements(m_operations[s]) \cup {j}
    BY <1>2, AcceptEffect
  <2> QED BY <1>0, <1>2, <2>1, <2>2
<1>3. ASSUME NEW j \in Kernels, HostLaunch(j) PROVE FALSE
  BY <1>2, <1>3 DEF Gone, HostLaunch, Queued
<1>4. CASE EndCycle
  <2>1. CASE device_launch_op = <<>>
    BY <1>1, <1>4, <2>1 DEF Gone, EndCycle
  <2>2. CASE device_launch_op # <<>>
    <3>1. device_launch_op \in Seq(Kernels)
      BY DEF TypeOK
    <3>2. Head(device_launch_op) \in Kernels /\ Queued(Head(device_launch_op))
      BY <2>2, <3>1, TailElements DEF Queued
    <3> QED BY <1>2, <1>4, <2>2, <3>2 DEF Gone, EndCycle
  <2> QED BY <2>1, <2>2
<1>5. CASE RegisterFinished
  <2>1. m_operations[s] \in Seq(Kernels) /\ Gone' \subseteq Gone \cup {subject}
    BY <1>5, ZenonT(60) DEF Gone, TypeOK, RegisterFinished
  <2>2. CASE s = StreamOf[subject]
    <3>1. m_operations[s] # <<>> /\ m_operations'[s] = Tail(m_operations[s]) /\ Head(m_operations[s]) = subject
      BY <1>5, <2>2, RegisterEffect
    <3>2. Elements(m_operations'[s]) = Elements(m_operations[s]) \ {subject}
      BY <2>1, <3>1, TailElements DEF WaitsOnce, StreamsOnce
    <3> QED BY <1>0, <2>1, <3>2
  <2>3. CASE s # StreamOf[subject]
    <3>1. m_operations'[s] = m_operations[s]
      BY <1>5, <2>3, RegisterEffect
    <3>2. StreamOf[k] = s
      BY <3>1 DEF WaitsOnce, StreamsOnce
    <3> QED BY <1>0, <2>1, <2>3, <3>1, <3>2
  <2> QED BY <2>2, <2>3
<1>6. CASE \/ \E j \in Kernels : LaunchDevice(j)
           \/ \E c \in Cores : \E i \in Contexts : CtaExit(c, i)
           \/ Operate \/ IssueBlock2Core \/ CoresDone \/ CheckFinishedKernel
           \/ StopRunningKernel \/ DetectWork \/ UpdateStats \/ Quiet
  <2>1. UNCHANGED <<m_operations, Gone>>
    BY <1>6, OperateEffect
       DEF Gone, LaunchDevice, CtaExit, IssueBlock2Core, CoresDone, CheckFinishedKernel, StopRunningKernel,
           DetectWork, UpdateStats, Quiet, objects, streams, Operate, Starts
  <2> QED BY <1>1, <2>1
<1> QED BY <1>3, <1>4, <1>5, <1>6, Steps

\* Without limits nothing stops the kernels, and the thread never waits.
LEMMA NeverStopsNext ==
    ASSUME KernelManagerAssumption, NoLimit, IInv, NeverStops, [Next]_vars
    PROVE  NeverStops'
<1>1. ~MaxHit
  BY DEF MaxHit, NoLimit, NeverStops
<1>2. ~limit' /\ ~m_lock' /\ spc' # "stuck"
  <2> USE DEF NeverStops
  <2>1. ASSUME NEW k \in Kernels, HostLaunch(k) \/ LaunchDevice(k) PROVE <1>2!:
    BY <2>1 DEF HostLaunch, LaunchDevice, control, counts
  <2>2. ASSUME NEW c \in Cores, NEW i \in Contexts, CtaExit(c, i) PROVE <1>2!:
    BY <2>2 DEF CtaExit, control
  <2>3. CASE RegisterFinished
    BY <2>3 DEF RegisterFinished, counts
  <2>10. ASSUME NEW k \in Kernels, DeleteKernel(k) PROVE <1>2!:
    <3>1. spc' # "stuck"
      BY <2>10, RetiresAtOnce
    <3> QED BY <2>10, <3>1 DEF DeleteKernel, counts
  <2>4. CASE CheckFinishedKernel \/ RegisterUnfinished \/ RegisterUnknown
    BY <2>4 DEF CheckFinishedKernel, RegisterUnfinished, RegisterUnknown, Registered, counts
  <2>5. CASE StopAllRunningKernels
    BY <1>1, <2>5 DEF StopAllRunningKernels
  <2>6. CASE StopRunningKernel \/ Stopped
    BY <2>6 DEF StopRunningKernel, Stopped, counts
  <2>7. CASE CoresDone
    BY <2>7 DEF CoresDone, NoLimit
  <2>8. CASE Operate \/ EndCycle \/ DetectWork \/ IssueBlock2Core \/ UpdateStats
    BY <2>8 DEF Operate, EndCycle, DetectWork, IssueBlock2Core, UpdateStats, counts
  <2>9. CASE StartCycle \/ NoCycle \/ LoopTest \/ UNCHANGED vars
    BY <2>9 DEF StartCycle, NoCycle, LoopTest, vars, control, counts
  <2> QED BY <2>1, <2>2, <2>3, <2>4, <2>5, <2>6, <2>7, <2>8, <2>9, <2>10
          DEF Next, SomeCtaExits, SimStep, Cycle, Retire
<1>3. \A s \in Streams : \A k \in Elements(m_operations'[s]) : k \notin Gone'
  BY StreamsLiveNext
<1> QED BY <1>2, <1>3 DEF NeverStops, Elements

\* The simulation thread never waits for a stream that only it can empty, nor
\* for the mutex it holds, when no limit is set: the wait of destroy_stream()
\* for the streams a retired grid created is over at once
\* (cuda_device_runtime.cc, stream_manager.cc:218-245,268-297).
THEOREM NeverWaits == NoLimit => (Spec => []NeverWaitsForItself)
<1> SUFFICES ASSUME NoLimit PROVE Spec => []NeverWaitsForItself
  OBVIOUS
<1>1. Init => NeverStops
  BY NoElements DEF Init, NeverStops
<1>2. NeverStops /\ IInv /\ [Next]_vars => NeverStops'
  BY KernelManagerAssumption, NeverStopsNext
<1>3. NeverStops => NeverWaitsForItself
  BY DEF NeverStops, NeverWaitsForItself
<1> QED BY <1>1, <1>2, <1>3, Invariance, PTL DEF Spec

\* set_kernel_done() queues a kernel that is in the table, and so not queued yet.
LEMMA QueuesFinished ==
    ASSUME KernelManagerAssumption, TypeOK, NEW k \in Kernels, SetKernelDone(k),
           Once(m_finished_kernel), k \notin Elements(m_finished_kernel)
    PROVE  /\ Once(m_finished_kernel)' /\ Elements(m_finished_kernel)' = Elements(m_finished_kernel) \cup {k}
           /\ Running' = Running \ {k}
<1>1. m_finished_kernel \in Seq(Kernels) /\ m_finished_kernel' = Append(m_finished_kernel, k)
  BY DEF TypeOK, SetKernelDone
<1>2. Once(m_finished_kernel') /\ Elements(m_finished_kernel') = Elements(m_finished_kernel) \cup {k}
  BY <1>1, AppendElements
<1>3. Running' = Running \ {k}
  BY DEF SetKernelDone, Running
<1> QED BY <1>2, <1>3 DEF Once, Elements

\* What is written of a variable that keeps its value.
LEMMA SameFinished ==
    ASSUME UNCHANGED m_finished_kernel
    PROVE  /\ Once(m_finished_kernel)' <=> Once(m_finished_kernel)
           /\ Elements(m_finished_kernel)' = Elements(m_finished_kernel)
BY DEF Once, Elements

LEMMA SameTable == UNCHANGED m_running_kernels => Running' = Running
BY DEF Running

\* A grid queued as finished keeps its entry until it is registered.
LEMMA FinishedKnownNext ==
    ASSUME KernelManagerAssumption, NoDeviceLaunch, IInv, FinishedKnown, [Next]_vars
    PROVE  FinishedKnown'
<1> USE DEF IInv
<1> DEFINE F == Elements(m_finished_kernel)
<1>0. /\ F \subseteq Kernels
      /\ \A k \in F : /\ k \in DOMAIN m_grid_id_to_stream /\ k \notin Running
                      /\ m_lock \/ g_sim_done \/ m_num_cores_running[k] = 0
  BY DEF FinishedKnown, Elements, TypeOK
<1>1. CASE /\ UNCHANGED <<m_finished_kernel, m_grid_id_to_stream, m_num_cores_running, m_running_kernels,
                          subject, spc>>
           /\ m_lock' = m_lock /\ g_sim_done' = g_sim_done
  BY <1>1, SameFinished, SameTable DEF FinishedKnown
<1>2. CASE /\ UNCHANGED <<m_finished_kernel, m_grid_id_to_stream, m_num_cores_running, m_running_kernels>>
           /\ spc' \notin {"register", "crash"} /\ (m_lock \/ g_sim_done => m_lock' \/ g_sim_done')
  BY <1>2, SameFinished, SameTable DEF FinishedKnown
<1>3. ASSUME NEW k \in Kernels, HostLaunch(k) \/ LaunchDevice(k) PROVE FinishedKnown'
  <2>1. HostLaunch(k)
    BY <1>3 DEF LaunchDevice, NoDeviceLaunch
  <2> QED BY <1>1, <2>1 DEF HostLaunch, table, control
<1>4. ASSUME NEW c \in Cores, NEW i \in Contexts, CtaExit(c, i) PROVE FinishedKnown'
  <2> DEFINE j == m_cta_status[c][i]
  <2>1. /\ j \in Kernels /\ m_num_cores_running[j] > 0
        /\ \A x \in Kernels : m_num_cores_running'[x]
             = IF x = j THEN m_num_cores_running[j] - 1 ELSE m_num_cores_running[x]
        /\ IF Over(j) THEN SetKernelDone(j) ELSE UNCHANGED <<m_finished_kernel, m_running_kernels>>
        /\ UNCHANGED m_grid_id_to_stream
    BY <1>4, ExitCounts DEF streams
  <2>2. spc = "cores" /\ spc' = "cores" /\ ~m_lock /\ ~g_sim_done
    BY <1>4 DEF CtaExit, control, Phases
  <2>3. j \notin F /\ j \in DOMAIN m_grid_id_to_stream
    BY <1>0, <2>1, <2>2 DEF EntriesCover
  <2> HIDE DEF j
  <2>4. \A k \in F : m_num_cores_running'[k] = 0
    BY <1>0, <2>1, <2>2, <2>3
  <2>5. CASE Over(j)
    <3>1. Once(m_finished_kernel)' /\ F' = F \cup {j} /\ Running' = Running \ {j}
      BY <2>1, <2>3, <2>5, QueuesFinished DEF FinishedKnown
    <3>2. m_num_cores_running'[j] = 0
      BY <2>1, <2>5 DEF Over
    <3> QED BY <1>0, <2>1, <2>2, <2>3, <2>4, <3>1, <3>2 DEF FinishedKnown
  <2>6. CASE ~Over(j)
    <3>1. Once(m_finished_kernel)' /\ F' = F /\ Running' = Running
      BY <2>1, <2>6, SameFinished, SameTable DEF FinishedKnown
    <3> QED BY <1>0, <2>1, <2>2, <2>4, <3>1 DEF FinishedKnown
  <2> QED BY <2>5, <2>6
<1>5. CASE StopRunningKernel
  <2> DEFINE left == {n \in Slots : m_running_kernels[n] # None}
             k == m_running_kernels[FirstOf(left)]
  <2>0. UNCHANGED <<m_grid_id_to_stream, m_num_cores_running, m_lock, g_sim_done>> /\ spc = "halting" /\ m_lock
    BY <1>5 DEF StopRunningKernel, streams, objects, Phases
  <2>1. CASE left = {}
    BY <1>2, <1>5, <2>0, <2>1 DEF StopRunningKernel
  <2>2. CASE left # {}
    <3>1. FirstOf(left) \in left
      <4>1. left \in SUBSET Nat
        BY DEF Slots
      <4> HIDE DEF left
      <4> QED BY <2>2, <4>1, FirstOfIn
    <3>2. k \in Kernels /\ k \in Running /\ k \in DOMAIN m_grid_id_to_stream
      <4>1. FirstOf(left) \in Slots /\ k # None
        BY <3>1
      <4> HIDE DEF left
      <4> QED BY <4>1 DEF Running, EntriesCover, TypeOK
    <3>3. SetKernelDone(k) /\ spc' = spc
      BY <1>5, <2>2 DEF StopRunningKernel
    <3> HIDE DEF k
    <3>4. Once(m_finished_kernel)' /\ F' = F \cup {k} /\ Running' = Running \ {k}
      BY <1>0, <3>2, <3>3, QueuesFinished DEF FinishedKnown
    <3> QED BY <1>0, <2>0, <3>2, <3>3, <3>4 DEF FinishedKnown
  <2> QED BY <2>1, <2>2
<1>6. CASE CheckFinishedKernel
  <2>0. UNCHANGED <<m_grid_id_to_stream, m_num_cores_running, m_running_kernels, m_lock, g_sim_done>>
    BY <1>6 DEF CheckFinishedKernel, streams, objects
  <2>1. CASE m_finished_kernel = <<>>
    BY <1>2, <1>6, <2>0, <2>1 DEF CheckFinishedKernel
  <2>2. CASE m_finished_kernel # <<>>
    <3>1. m_finished_kernel \in Seq(Kernels) /\ Once(m_finished_kernel)
      BY DEF TypeOK, FinishedKnown
    <3>2. m_finished_kernel' = Tail(m_finished_kernel) /\ subject' = Head(m_finished_kernel)
          /\ spc' = "register"
      BY <1>6, <2>2 DEF CheckFinishedKernel
    <3>3. /\ Head(m_finished_kernel) \in F /\ Once(Tail(m_finished_kernel))
          /\ Elements(Tail(m_finished_kernel)) = F \ {Head(m_finished_kernel)}
      BY <2>2, <3>1, TailElements
    <3>4. Once(m_finished_kernel)' /\ F' = F \ {subject'} /\ subject' \in F /\ Running' = Running
      <4>1. Once(m_finished_kernel)' /\ F' = Elements(Tail(m_finished_kernel))
        BY <3>2, <3>3 DEF Once, Elements
      <4> QED BY <2>0, <3>2, <3>3, <4>1, SameTable
    <3> QED BY <1>0, <2>0, <3>2, <3>4 DEF FinishedKnown
  <2> QED BY <2>1, <2>2
<1>7. CASE RegisterFinished
  <2>1. /\ DOMAIN m_grid_id_to_stream' = DOMAIN m_grid_id_to_stream \ {subject}
        /\ Parent[subject] = None /\ spc = "register"
    BY <1>7, RegisterEffect DEF NoDeviceLaunch, RegisterFinished
  <2>2. spc' \notin {"register", "crash"} /\ m_lock' = m_lock /\ g_sim_done' = g_sim_done
    BY <1>7, <2>1 DEF RegisterFinished, Registered
  <2>3. UNCHANGED <<m_finished_kernel, m_num_cores_running, m_running_kernels>>
    BY <1>7 DEF RegisterFinished, table
  <2>4. subject \notin F
    BY <2>1 DEF FinishedKnown
  <2>5. Once(m_finished_kernel)' /\ F' = F /\ Running' = Running
    BY <2>3, SameFinished, SameTable DEF FinishedKnown
  <2> QED BY <1>0, <2>1, <2>2, <2>3, <2>4, <2>5 DEF FinishedKnown
<1>8. CASE Operate
  <2>0. /\ UNCHANGED <<m_finished_kernel, m_num_cores_running, m_lock, g_sim_done>>
        /\ spc' \notin {"register", "crash"}
    BY <1>8 DEF Operate, objects
  <2>1. ASSUME NEW s \in Streams, NEW n \in Slots, NEW k \in Kernels, Starts(s, n, k)
        PROVE  FinishedKnown'
    <3>1. k \notin F
      BY <1>0, <2>1, StartsQueued DEF Untouched
    <3>2. Running' \subseteq Running \cup {k} /\ DOMAIN m_grid_id_to_stream \subseteq DOMAIN m_grid_id_to_stream'
      <4>1. /\ \A x \in Slots : m_running_kernels'[x] = IF x = n THEN k ELSE m_running_kernels[x]
            /\ DOMAIN m_grid_id_to_stream' = DOMAIN m_grid_id_to_stream \cup {k}
        BY <2>1 DEF Starts
      <4>2. \A x \in Slots : m_running_kernels'[x] = k \/ m_running_kernels'[x] = m_running_kernels[x]
        BY <4>1
      <4> QED BY <4>1, <4>2 DEF Running
    <3>3. Once(m_finished_kernel)' /\ F' = F
      BY <2>0, SameFinished DEF FinishedKnown
    <3> QED BY <1>0, <2>0, <3>1, <3>2, <3>3 DEF FinishedKnown
  <2> QED BY <1>2, <1>8, <2>0, <2>1, OperateEffect DEF streams
<1>9. CASE IssueBlock2Core
  <2>0. /\ UNCHANGED <<m_finished_kernel, m_grid_id_to_stream, m_running_kernels, m_lock, g_sim_done, spc>>
        /\ spc = "issue" /\ ~m_lock /\ ~g_sim_done
    BY <1>9 DEF IssueBlock2Core, streams, Phases
  <2>1. PICK c \in Cores, j \in Kernels \cup {None} :
          /\ (Selects(c, j) /\ j \in Running /\ j \in Kernels) \/ SelectsNone(c, j)
          /\ (j \in Kernels /\ \E i \in Contexts : Puts(c, i, j)) \/ PutsNone(c, j)
    BY <1>9, IssueCases
  <2>2. \A k \in F : m_num_cores_running'[k] = 0
    <3>1. ASSUME j \in Kernels, NEW i \in Contexts, Puts(c, i, j)
          PROVE  \A k \in F : m_num_cores_running'[k] = 0
      <4>1. j \in Running \/ m_num_cores_running[j] > 0
        BY <2>1, <3>1, PutsKernel
      <4>2. j \notin F
        BY <1>0, <2>0, <4>1
      <4> QED BY <1>0, <2>0, <3>1, <4>2, PutsCounts
    <3>2. CASE PutsNone(c, j)
      BY <1>0, <2>0, <3>2 DEF PutsNone
    <3> QED BY <2>1, <3>1, <3>2
  <2>3. Once(m_finished_kernel)' /\ F' = F /\ Running' = Running
    BY <2>0, SameFinished, SameTable DEF FinishedKnown
  <2> QED BY <1>0, <2>0, <2>2, <2>3 DEF FinishedKnown
<1>10. CASE RegisterUnknown
  BY <1>10 DEF RegisterUnknown, FinishedKnown
<1>11. CASE \/ RegisterUnfinished \/ StopAllRunningKernels \/ Stopped \/ StartCycle \/ NoCycle \/ LoopTest
            \/ \E k \in Kernels : DeleteKernel(k)
  BY <1>2, <1>11 DEF RegisterUnfinished, DeleteKernel, Registered, StopAllRunningKernels, Stopped, StartCycle,
                     NoCycle, LoopTest, streams, table, objects
<1>12. CASE CoresDone \/ EndCycle \/ DetectWork \/ UpdateStats
  BY <1>2, <1>12 DEF CoresDone, EndCycle, DetectWork, UpdateStats, streams, table, objects
<1>13. CASE UNCHANGED vars
  BY <1>1, <1>13 DEF vars, streams, table, objects, control
<1> QED BY <1>3, <1>4, <1>5, <1>6, <1>7, <1>8, <1>9, <1>10, <1>11, <1>12, <1>13
        DEF Next, SomeCtaExits, SimStep, Cycle, Retire

\* register_finished_kernel() never dereferences the stream of a grid without an
\* entry, when no kernel launches kernels from the device: every grid is queued
\* as finished once and keeps its entry until then (stream_manager.cc:268-297,
\* gpu-sim.cc:842-879).
THEOREM FinishedHaveEntries == NoDeviceLaunch => (Spec => []FinishedGridsKnown)
<1> SUFFICES ASSUME NoDeviceLaunch PROVE Spec => []FinishedGridsKnown
  OBVIOUS
<1>1. Init => FinishedKnown
  BY NoElements DEF Init, FinishedKnown
<1>2. FinishedKnown /\ IInv /\ [Next]_vars => FinishedKnown'
  BY KernelManagerAssumption, FinishedKnownNext
<1>3. FinishedKnown => FinishedGridsKnown
  BY DEF FinishedKnown, FinishedGridsKnown
<1> QED BY <1>1, <1>2, <1>3, Invariance, PTL DEF Spec
=============================================================================
