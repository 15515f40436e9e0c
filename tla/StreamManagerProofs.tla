------------------------ MODULE StreamManagerProofs ------------------------
(***************************************************************************)
(* Proofs about StreamManager, for any hosts, streams, events and bounds.  *)
(* KernelBookkeeping is not inductive: that the launch at the front of a   *)
(* free stream is a new grid needs the ids of queued operations to be      *)
(* distinct across streams and bounded by the counter that hands them out, *)
(* and that retiring a grid leaves no second entry of it needs the queue   *)
(* of finished grids to be free of duplicates.                             *)
(***************************************************************************)
EXTENDS StreamManager, FiniteSetTheorems, TLAPS

IdsBounded ==
    \A s \in AllStreams : \A i \in 1..Len(m_operations[s]) : m_operations[s][i].id <= nops

IdsDistinct ==
    \A s, t \in AllStreams : s # t =>
        \A i \in 1..Len(m_operations[s]), j \in 1..Len(m_operations[t]) :
            m_operations[s][i].id # m_operations[t][j].id

FinishedOnce ==
    \A i, j \in 1..Len(m_finished_kernel) : m_finished_kernel[i] = m_finished_kernel[j] => i = j

\* The inductive strengthening of KernelBookkeeping.
Bookkeeping ==
    /\ IsFiniteSet(running)
    /\ KernelBookkeeping
    /\ FinishedOnce
    /\ IdsBounded
    /\ IdsDistinct

\* A host is in the loop over all streams only inside push() or between two
\* of its calls, and then it has an event.
PushingAll ==
    \A h \in Hosts :
        /\ walkall[h] # None => /\ hpc[h] \in {"pushall", "block", "enqueue", "drain"}
                               /\ arg[h].op.event \in Events
        /\ hpc[h] = "pushall" => walkall[h] # None

IInv == TypeOK /\ PushingAll /\ Bookkeeping

-----------------------------------------------------------------------------
(* Lemmas about the operators.                                              *)

\* Op builds a well-formed operation.
LEMMA OpType ==
    ASSUME StreamManagerAssumption,
           NEW type \in {"noop", "memcpy", "kernel", "event", "wait"},
           NEW e \in Events \cup {None}, NEW c \in Nat
    PROVE  Op(type, e, c) \in Operations
BY DEF Op, Operations, StreamManagerAssumption

\* A walk of m_streams stays among the streams.
LEMMA FirstType ==
    ASSUME m_streams \in Seq(Streams) PROVE First \in AllStreams
BY DEF First, AllStreams

LEMMA LiveStreams ==
    ASSUME m_streams \in Seq(Streams) PROVE Live \subseteq Streams
BY DEF Live

LEMMA AfterType ==
    ASSUME m_streams \in Seq(Streams), NEW s \in AllStreams, NEW t \in After(s)
    PROVE  t \in AllStreams
<1>1. CASE s \in Live
  <2>1. \E i \in 1..Len(m_streams) : m_streams[i] = s
    BY <1>1 DEF Live
  <2>2. CASE m_streams[Len(m_streams)] = s
    BY <1>1, <2>2 DEF After, AllStreams
  <2>3. CASE m_streams[Len(m_streams)] # s
    <3> DEFINE n == CHOOSE i \in 1..Len(m_streams) : m_streams[i] = s
    <3>1. n \in 1..Len(m_streams) /\ m_streams[n] = s
      BY <2>1
    <3>2. n + 1 \in 1..Len(m_streams)
      BY <3>1, <2>3
    <3> QED BY <1>1, <2>3, <3>2 DEF After, AllStreams
  <2> QED BY <2>2, <2>3
<1>2. CASE s \notin Live
  BY <1>2, LiveStreams DEF After, AllStreams
<1> QED BY <1>1, <1>2

\* The rotation of front() is a sequence of live streams.
LEMMA RotationType ==
    ASSUME m_streams \in Seq(Streams)
    PROVE  /\ Rotation \in Seq(Streams)
           /\ Len(Rotation) = Len(m_streams)
<1> DEFINE n == Len(m_streams)
           last == IF \E i \in 1..n : m_streams[i] = m_last_stream
                   THEN CHOOSE i \in 1..n : m_streams[i] = m_last_stream ELSE 0
<1>1. n \in Nat /\ last \in 0..n
  OBVIOUS
<1>2. \A i \in 1..n : ((last + i - 1) % n) + 1 \in 1..n
  BY <1>1
<1>3. Rotation = [i \in 1..n |-> m_streams[((last + i - 1) % n) + 1]]
  BY DEF Rotation
<1> HIDE DEF last
<1>4. Rotation \in [1..n -> Streams]
  BY <1>2, <1>3
<1> QED BY <1>1, <1>4

\* A sequence over a set is one over any larger set.
LEMMA SeqSubset ==
    ASSUME NEW S, NEW T, S \subseteq T, NEW q \in Seq(S) PROVE q \in Seq(T)
<1>1. q \in [1..Len(q) -> T] /\ Len(q) \in Nat
  OBVIOUS
<1> QED BY <1>1

\* Orders(D) lists distinct elements of D.
LEMMA OrdersType ==
    ASSUME NEW D, IsFiniteSet(D), NEW q \in Orders(D)
    PROVE  /\ q \in Seq(D)
           /\ \A i, j \in 1..Len(q) : q[i] = q[j] => i = j
<1>1. Cardinality(D) \in Nat
  BY FS_CardinalityType
<1> QED BY <1>1 DEF Orders

-----------------------------------------------------------------------------
(* Type correctness.                                                        *)

\* What push() stores for a host.
LEMMA PushType ==
    ASSUME TypeOK, NEW h \in Hosts, NEW s \in Streams \cup {None, Zero},
           NEW op \in Operations, Push(h, s, op)
    PROVE  /\ hpc' \in [Hosts -> HostPC]
           /\ arg' \in [Hosts -> Args]
BY DEF TypeOK, Push, HostPC, Args, Call

LEMMA NoArgType ==
    ASSUME StreamManagerAssumption
    PROVE  NoArg \in Args
BY OpType DEF NoArg, NoOp, Call, Args

LEMMA ReturnsType ==
    ASSUME StreamManagerAssumption, TypeOK, NEW h \in Hosts, Returns(h)
    PROVE  /\ hpc' \in [Hosts -> HostPC]
           /\ arg' \in [Hosts -> Args]
           /\ walkall' \in [Hosts -> AllStreams \cup {None}]
<1>1. CASE walkall[h] = None
  <2>1. /\ hpc' = [hpc EXCEPT ![h] = "idle"]
        /\ arg' = [arg EXCEPT ![h] = NoArg]
        /\ walkall' = walkall
    BY <1>1 DEF Returns
  <2> QED BY <2>1, NoArgType DEF TypeOK, HostPC
<1>2. CASE walkall[h] # None
  <2>1. PICK s \in After(walkall[h]) : walkall' = [walkall EXCEPT ![h] = s]
    BY <1>2 DEF Returns
  <2>2. s \in AllStreams
    BY <1>2, <2>1, AfterType DEF TypeOK
  <2>3. hpc' = [hpc EXCEPT ![h] = "pushall"] /\ arg' = arg
    BY <1>2 DEF Returns
  <2> QED BY <2>1, <2>2, <2>3 DEF TypeOK, HostPC
<1> QED BY <1>1, <1>2

LEMMA OutstandingType ==
    ASSUME TypeOK PROVE Outstanding \subseteq Nat
<1> SUFFICES ASSUME NEW k \in Outstanding PROVE k \in Nat
  OBVIOUS
<1>1. PICK s \in AllStreams : \E i \in 1..Len(m_operations[s]) : k = m_operations[s][i].id
  BY DEF Outstanding
<1>2. PICK i \in 1..Len(m_operations[s]) : k = m_operations[s][i].id
  BY <1>1
<1>3. m_operations[s][i] \in Operations
  BY <1>2 DEF TypeOK
<1> QED BY <1>2, <1>3 DEF Operations

\* The calls of a host.
LEMMA HostCallType ==
    ASSUME StreamManagerAssumption, TypeOK, NEW h \in Hosts, HostCall(h)
    PROVE  TypeOK'
<1> USE DEF manager, gpu, events, sim, host
<1>1. CASE StreamCreate(h)
  BY <1>1 DEF TypeOK, StreamCreate, StreamManagerAssumption
<1>2. ASSUME NEW type \in {"memcpy", "kernel"}, LaunchOrCopy(h, type)
      PROVE  TypeOK'
  <2>1. PICK s \in Targets(h) : Push(h, s, Op(type, None, 0))
    BY <1>2 DEF LaunchOrCopy
  <2>2. s \in Streams \cup {None, Zero}
    BY <2>1, LiveStreams DEF Targets, TypeOK
  <2>3. Op(type, None, 0) \in Operations
    BY OpType
  <2>4. hpc' \in [Hosts -> HostPC] /\ arg' \in [Hosts -> Args]
    BY <2>1, <2>2, <2>3, PushType
  <2> QED BY <1>2, <2>4 DEF TypeOK, LaunchOrCopy
<1>3. CASE EventRecord(h)
  <2>1. PICK e \in Events, s \in Targets(h) :
            /\ issued' = [issued EXCEPT ![e] = @ + 1]
            /\ Push(h, s, Op("event", e, issued[e] + 1))
    BY <1>3 DEF EventRecord
  <2>2. s \in Streams \cup {None, Zero}
    BY <2>1, LiveStreams DEF Targets, TypeOK
  <2>3. issued[e] + 1 \in Nat
    BY DEF TypeOK
  <2>4. Op("event", e, issued[e] + 1) \in Operations
    BY <2>3, OpType
  <2>5. hpc' \in [Hosts -> HostPC] /\ arg' \in [Hosts -> Args]
    BY <2>1, <2>2, <2>4, PushType
  <2>6. issued' \in [Events -> Nat]
    BY <2>1, <2>3 DEF TypeOK
  <2>7. /\ ncalls' = ncalls + 1
        /\ UNCHANGED <<manager, m_operations, nops, gpu, updates, recorded, sim, walk, walkall, due>>
    BY <1>3 DEF EventRecord
  <2> QED BY <2>5, <2>6, <2>7 DEF TypeOK
<1>4. CASE StreamWaitEvent(h)
  <2>1. PICK e \in Events, s \in Targets(h) : Push(h, s, Op("wait", e, issued[e]))
    BY <1>4 DEF StreamWaitEvent
  <2>2. s \in Streams \cup {None, Zero}
    BY <2>1, LiveStreams DEF Targets, TypeOK
  <2>3. Op("wait", e, issued[e]) \in Operations
    BY OpType DEF TypeOK
  <2>4. hpc' \in [Hosts -> HostPC] /\ arg' \in [Hosts -> Args]
    BY <2>1, <2>2, <2>3, PushType
  <2>5. /\ ncalls' = ncalls + 1
        /\ UNCHANGED <<manager, m_operations, nops, gpu, events, sim, walk, walkall, due>>
    BY <1>4 DEF StreamWaitEvent
  <2> QED BY <2>4, <2>5 DEF TypeOK
<1>5. CASE WaitAll(h)
  <2>1. PICK e \in Events : arg' = [arg EXCEPT ![h] = Call(Op("wait", e, issued[e]), None)]
    BY <1>5 DEF WaitAll
  <2>2. Op("wait", e, issued[e]) \in Operations
    BY OpType DEF TypeOK
  <2>3. First \in AllStreams
    BY FirstType DEF TypeOK
  <2>4. Call(Op("wait", e, issued[e]), None) \in Args
    BY <2>2 DEF Call, Args
  <2>5. /\ hpc' = [hpc EXCEPT ![h] = "pushall"]
        /\ walkall' = [walkall EXCEPT ![h] = First]
        /\ ncalls' = ncalls + 1
        /\ UNCHANGED <<manager, m_operations, nops, gpu, events, sim, walk, due>>
    BY <1>5 DEF WaitAll
  <2> QED BY <2>1, <2>3, <2>4, <2>5 DEF TypeOK, HostPC
<1>6. CASE Synchronize(h)
  BY <1>6, OutstandingType DEF TypeOK, HostPC, Synchronize
<1>7. CASE EventSynchronize(h)
  <2>1. PICK e \in Events : arg' = [arg EXCEPT ![h] = Call(Op("noop", e, 0), None)]
    BY <1>7 DEF EventSynchronize
  <2>2. Op("noop", e, 0) \in Operations
    BY OpType
  <2>3. Call(Op("noop", e, 0), None) \in Args
    BY <2>2 DEF Call, Args
  <2> QED BY <1>7, <2>1, <2>3 DEF TypeOK, HostPC, EventSynchronize
<1>8. CASE StreamDestroy(h)
  <2>1. PICK s \in Live : arg' = [arg EXCEPT ![h] = Call(NoOp, s)]
    BY <1>8 DEF StreamDestroy
  <2>2. Call(NoOp, s) \in Args
    BY <2>1, OpType, LiveStreams DEF TypeOK, NoOp, Call, Args
  <2> QED BY <1>8, <2>1, <2>2 DEF TypeOK, HostPC, StreamDestroy
<1>9. CASE ThreadExit(h)
  BY <1>9 DEF TypeOK, HostPC, ThreadExit
<1>10. CASE SynchronizeStream(h)
  <2>1. PICK s \in Live :
            due' = [due EXCEPT ![h] = {m_operations[s][i].id : i \in 1..Len(m_operations[s])}]
    BY <1>10 DEF SynchronizeStream
  <2>2. {m_operations[s][i].id : i \in 1..Len(m_operations[s])} \subseteq Nat
    <3>1. s \in AllStreams
      BY LiveStreams DEF TypeOK, AllStreams
    <3>2. \A i \in 1..Len(m_operations[s]) : m_operations[s][i] \in Operations
      BY <3>1 DEF TypeOK
    <3> QED BY <3>2 DEF Operations
  <2>3. due' \in [Hosts -> SUBSET Nat]
    BY <2>1, <2>2 DEF TypeOK
  <2> QED BY <1>10, <2>3 DEF TypeOK, HostPC, SynchronizeStream
<1> QED BY <1>1, <1>2, <1>3, <1>4, <1>5, <1>6, <1>7, <1>8, <1>9, <1>10 DEF HostCall

\* The steps inside a call.
LEMMA HostStepType ==
    ASSUME StreamManagerAssumption, TypeOK, PushingAll, NEW h \in Hosts, HostStep(h)
    PROVE  TypeOK'
<1> USE DEF manager, gpu, events, sim, host, HostPC
<1>1. CASE PushAllStep(h)
  <2>1. CASE walkall[h] = Zero
    <3>1. /\ hpc' = [hpc EXCEPT ![h] = "idle"]
          /\ arg' = [arg EXCEPT ![h] = NoArg]
          /\ walkall' = [walkall EXCEPT ![h] = None]
          /\ UNCHANGED <<manager, m_operations, nops, gpu, events, sim, walk, ncalls, due>>
      BY <1>1, <2>1 DEF PushAllStep
    <3> QED BY <3>1, NoArgType DEF TypeOK
  <2>2. CASE walkall[h] # Zero
    <3> DEFINE e == arg[h].op.event
    <3>1. Push(h, walkall[h], Op("wait", e, issued[e])) /\ UNCHANGED walkall
      BY <1>1, <2>2 DEF PushAllStep
    <3>2. e \in Events /\ walkall[h] # None
      BY <1>1 DEF PushAllStep, PushingAll
    <3>3. issued[e] \in Nat /\ walkall[h] \in Streams \cup {None, Zero}
      BY <3>2 DEF TypeOK, AllStreams
    <3>4. Op("wait", e, issued[e]) \in Operations
      BY <3>2, <3>3, OpType
    <3> HIDE DEF e
    <3>5. hpc' \in [Hosts -> HostPC] /\ arg' \in [Hosts -> Args]
      BY <3>1, <3>3, <3>4, PushType
    <3>6. UNCHANGED <<manager, m_operations, nops, gpu, events, sim, walk, ncalls, due>>
      BY <1>1 DEF PushAllStep
    <3> QED BY <3>1, <3>5, <3>6 DEF TypeOK
  <2> QED BY <2>1, <2>2
<1>2. CASE BlockEnds(h)
  BY <1>2 DEF TypeOK, BlockEnds
<1>3. CASE Enqueue(h)
  <2>1. /\ m_operations' \in [AllStreams -> Seq(Operations)]
        /\ nops' \in Nat
    <3>1. Queued(h) \in Operations
      <4>1. arg[h].op \in Operations
        BY DEF TypeOK, Args
      <4> QED BY <4>1 DEF TypeOK, Queued, Stamp, Operations
    <3>2. Queue(h) \in AllStreams
      BY DEF TypeOK, Args, Queue, Blocks, AllStreams
    <3>3. CASE limit_hit
      BY <1>3, <3>3 DEF TypeOK, Enqueue
    <3>4. CASE ~limit_hit
      <4>1. /\ m_operations' = [m_operations EXCEPT ![Queue(h)] = Append(@, Queued(h))]
            /\ nops' = nops + 1
        BY <1>3, <3>4 DEF Enqueue
      <4> QED BY <3>1, <3>2, <4>1 DEF TypeOK
    <3> QED BY <3>3, <3>4
  <2>2. /\ hpc' \in [Hosts -> HostPC]
        /\ arg' \in [Hosts -> Args]
        /\ walk' \in [Hosts -> AllStreams] /\ walkall' \in [Hosts -> AllStreams \cup {None}]
    <3>1. CASE Blocks(arg[h].stream)
      <4>1. /\ hpc' = [hpc EXCEPT ![h] = "drain"]
            /\ walk' = [walk EXCEPT ![h] = First]
            /\ UNCHANGED <<arg, walkall>>
        BY <1>3, <3>1 DEF Enqueue
      <4>2. First \in AllStreams
        BY FirstType DEF TypeOK
      <4> QED BY <4>1, <4>2 DEF TypeOK
    <3>2. CASE ~Blocks(arg[h].stream)
      <4>1. Returns(h) /\ UNCHANGED walk
        BY <1>3, <3>2 DEF Enqueue
      <4> QED BY <4>1, ReturnsType DEF TypeOK
    <3> QED BY <3>1, <3>2
  <2>3. Outstanding' \subseteq Nat
    <3> SUFFICES ASSUME NEW k \in Outstanding' PROVE k \in Nat
      OBVIOUS
    <3>1. PICK s \in AllStreams : \E i \in 1..Len(m_operations'[s]) : k = m_operations'[s][i].id
      BY DEF Outstanding
    <3>2. PICK i \in 1..Len(m_operations'[s]) : k = m_operations'[s][i].id
      BY <3>1
    <3>3. m_operations'[s][i] \in Operations
      BY <2>1, <3>2
    <3> QED BY <3>2, <3>3 DEF Operations
  <2>4. due' \in [Hosts -> SUBSET Nat]
    BY <1>3, <2>3, ZenonT(60) DEF TypeOK, Enqueue
  <2> QED BY <1>3, <2>1, <2>2, <2>4 DEF TypeOK, Enqueue
<1>4. CASE Drain(h)
  <2>1. /\ hpc' \in [Hosts -> HostPC]
        /\ arg' \in [Hosts -> Args]
        /\ walkall' \in [Hosts -> AllStreams \cup {None}]
    BY <1>4, ReturnsType DEF TypeOK, Drain
  <2>2. walk' \in [Hosts -> AllStreams]
    BY <1>4, FirstType, AfterType, ZenonT(60) DEF TypeOK, Drain
  <2> QED BY <1>4, <2>1, <2>2, ZenonT(60) DEF TypeOK, Drain
<1>5. CASE SyncLock(h)
  BY <1>5, FirstType DEF TypeOK, SyncLock
<1>6. CASE SyncWalk(h)
  <2>1. walk' \in [Hosts -> AllStreams]
    BY <1>6, AfterType, ZenonT(60) DEF TypeOK, SyncWalk
  <2>2. /\ hpc' \in [Hosts -> HostPC]
        /\ due' \in [Hosts -> SUBSET Nat]
    BY <1>6, ZenonT(60) DEF TypeOK, SyncWalk
  <2> QED BY <1>6, <2>1, <2>2 DEF TypeOK, SyncWalk
<1>7. CASE EventDone(h)
  BY <1>7, NoArgType DEF TypeOK, EventDone
<1>8. CASE StreamSynchronized(h)
  BY <1>8 DEF TypeOK, StreamSynchronized
<1>9. CASE DestroyLock(h)
  BY <1>9 DEF TypeOK, DestroyLock
<1>10. CASE DestroyErase(h)
  <2>1. PICK i \in 1..Len(m_streams) :
           m_streams' = SubSeq(m_streams, 1, i - 1) \o SubSeq(m_streams, i + 1, Len(m_streams))
    BY <1>10 DEF DestroyErase, Erase
  <2>2. m_streams' \in Seq(Streams)
    BY <2>1 DEF TypeOK
  <2>3. m_last_stream' \in Streams \cup {None}
    BY <1>10, <2>2 DEF DestroyErase
  <2> QED BY <1>10, <2>2, <2>3, NoArgType DEF TypeOK, DestroyErase
<1>11. CASE ExitSignaled(h)
  BY <1>11 DEF TypeOK, ExitSignaled
<1>12. CASE StreamReturn(h)
  BY <1>12 DEF TypeOK, StreamReturn
<1> QED BY <1>1, <1>2, <1>3, <1>4, <1>5, <1>6, <1>7, <1>8, <1>9, <1>10, <1>11, <1>12 DEF HostStep

\* do_operation on a ready stream.
LEMMA DoOperationType ==
    ASSUME TypeOK, NEW s \in AllStreams, Ready(s), DoOperation(s)
    PROVE  /\ m_operations' \in [AllStreams -> Seq(Operations)]
           /\ m_pending' \in [AllStreams -> BOOLEAN]
           /\ DOMAIN m_grid_id_to_stream' \subseteq Nat
           /\ \A k \in DOMAIN m_grid_id_to_stream' : m_grid_id_to_stream'[k] \in AllStreams
           /\ running' \subseteq Nat
           /\ issued' \in [Events -> Nat] /\ updates' \in [Events -> Nat]
           /\ recorded' \in [Events -> SUBSET Nat]
<1> DEFINE op == Head(m_operations[s])
<1>1. m_operations[s] \in Seq(Operations) /\ m_operations[s] # <<>>
  BY DEF TypeOK, Ready
<1>2. op \in Operations /\ Tail(m_operations[s]) \in Seq(Operations)
  BY <1>1
<1>3. op.id \in Nat /\ op.cnt \in Nat /\ op.latency \in Nat
  BY <1>2 DEF Operations
<1>4. PopFront(s) => m_operations' \in [AllStreams -> Seq(Operations)]
  BY <1>2 DEF PopFront, TypeOK
<1> HIDE DEF op
<1>5. CASE DoCopy(s)
  BY <1>4, <1>5 DEF DoCopy, TypeOK, events
<1>6. CASE DoEvent(s)
  <2>1. /\ PopFront(s)
        /\ updates' = [updates EXCEPT ![op.event] = @ + 1]
        /\ recorded' = [recorded EXCEPT ![op.event] = @ \cup {op.cnt}]
        /\ UNCHANGED <<m_pending, m_grid_id_to_stream, running, issued>>
    BY <1>6 DEF DoEvent, op
  <2>2. updates' \in [Events -> Nat]
    <3>1. CASE op.event \in Events
      <4>1. updates[op.event] + 1 \in Nat
        BY <3>1 DEF TypeOK
      <4> QED BY <2>1, <4>1 DEF TypeOK
    <3>2. CASE op.event \notin Events
      BY <2>1, <3>2 DEF TypeOK
    <3> QED BY <3>1, <3>2
  <2>3. recorded' \in [Events -> SUBSET Nat]
    BY <1>3, <2>1 DEF TypeOK
  <2> QED BY <1>4, <2>1, <2>2, <2>3 DEF TypeOK
<1>7. CASE DoWait(s)
  BY <1>4, <1>7 DEF DoWait, TypeOK, events
<1>8. CASE DoKernel(s)
  <2>1. CASE CanStartKernel /\ op.latency = 0
    <3>1. /\ running' = running \cup {op.id}
          /\ m_pending' = [m_pending EXCEPT ![s] = TRUE]
          /\ m_grid_id_to_stream' =
                [x \in DOMAIN m_grid_id_to_stream \cup {op.id} |->
                    IF x = op.id THEN s ELSE m_grid_id_to_stream[x]]
          /\ UNCHANGED <<m_operations, events>>
      BY <1>8, <2>1 DEF DoKernel, op
    <3> QED BY <1>3, <3>1 DEF TypeOK, events
  <2>2. CASE ~(CanStartKernel /\ op.latency = 0)
    <3>1. /\ m_operations' = IF op.latency > 0
                             THEN [m_operations EXCEPT ![s] = <<Stamp(op, op.id, op.latency - 1)>> \o Tail(@)]
                             ELSE m_operations
          /\ UNCHANGED <<running, m_pending, m_grid_id_to_stream, events>>
      BY <1>8, <2>2 DEF DoKernel, op
    <3>2. op.latency > 0 => Stamp(op, op.id, op.latency - 1) \in Operations
      BY <1>2, <1>3 DEF Stamp, Operations
    <3>3. op.latency > 0 => <<Stamp(op, op.id, op.latency - 1)>> \o Tail(m_operations[s]) \in Seq(Operations)
      BY <1>2, <3>2
    <3>4. m_operations' \in [AllStreams -> Seq(Operations)]
      BY <3>1, <3>3 DEF TypeOK
    <3> QED BY <3>1, <3>4 DEF TypeOK, events
  <2> QED BY <2>1, <2>2
<1> QED BY <1>5, <1>6, <1>7, <1>8 DEF DoOperation

\* The steps of the simulation thread.
LEMMA SimStepType ==
    ASSUME StreamManagerAssumption, TypeOK, Bookkeeping, SimStep
    PROVE  TypeOK'
<1> USE DEF manager, gpu, events, sim, host, SimPC
<1>1. CASE DetectWork
  BY <1>1 DEF TypeOK, DetectWork
<1>2. CASE Activate
  BY <1>2 DEF TypeOK, Activate
<1>3. CASE CheckFinishedKernel
  <2>1. CASE m_finished_kernel = <<>>
    BY <1>3, <2>1 DEF TypeOK, CheckFinishedKernel
  <2>2. CASE m_finished_kernel # <<>>
    <3> DEFINE k == Head(m_finished_kernel)
               s == m_grid_id_to_stream[k]
    <3>1. k \in Finished
      BY <2>2 DEF TypeOK, Finished
    <3>2. /\ k \in DOMAIN m_grid_id_to_stream
          /\ m_operations[s] # <<>>
      BY <3>1 DEF Bookkeeping, KernelBookkeeping
    <3>3. s \in AllStreams
      BY <3>2 DEF TypeOK
    <3>4. /\ m_operations' = [m_operations EXCEPT ![s] = Tail(@)]
          /\ m_pending' = [m_pending EXCEPT ![s] = FALSE]
          /\ m_grid_id_to_stream' = RemoveGrid(k)
          /\ m_finished_kernel' = Tail(m_finished_kernel)
          /\ check' = TRUE /\ spc' = "operate"
      BY <1>3, <2>2 DEF CheckFinishedKernel
    <3>5. UNCHANGED <<m_streams, m_last_stream, m_lock, created, nops, running, draining, limit_hit,
                      events, host, g_sim_active, g_sim_done, break_limit, g_sim_signal_exit>>
      BY <1>3 DEF CheckFinishedKernel
    <3>6. m_operations' \in [AllStreams -> Seq(Operations)]
      BY <3>2, <3>3, <3>4 DEF TypeOK
    <3>7. m_finished_kernel' \in Seq(Nat)
      BY <2>2, <3>4 DEF TypeOK
    <3>8. /\ DOMAIN m_grid_id_to_stream' \subseteq Nat
          /\ \A x \in DOMAIN m_grid_id_to_stream' : m_grid_id_to_stream'[x] \in AllStreams
      BY <3>4 DEF TypeOK, RemoveGrid
    <3>9. m_pending' \in [AllStreams -> BOOLEAN]
      BY <3>4 DEF TypeOK
    <3> HIDE DEF k, s
    <3> QED BY <3>4, <3>5, <3>6, <3>7, <3>8, <3>9 DEF TypeOK
  <2> QED BY <2>1, <2>2
<1>4. CASE Operate
  <2> DEFINE Typed ==
        /\ m_operations' \in [AllStreams -> Seq(Operations)]
        /\ m_pending' \in [AllStreams -> BOOLEAN]
        /\ DOMAIN m_grid_id_to_stream' \subseteq Nat
        /\ \A k \in DOMAIN m_grid_id_to_stream' : m_grid_id_to_stream'[k] \in AllStreams
        /\ running' \subseteq Nat
        /\ issued' \in [Events -> Nat] /\ updates' \in [Events -> Nat]
        /\ recorded' \in [Events -> SUBSET Nat]
        /\ m_last_stream' \in Streams \cup {None}
  <2>1. Typed
    <3>1. ASSUME NEW s \in Live \cup {Zero}, Selects(s), DoOperation(s),
                 m_last_stream' = IF s = Zero THEN m_last_stream ELSE s
          PROVE  Typed
      <4>1. s \in AllStreams /\ m_last_stream' \in Streams \cup {None}
        BY <3>1, LiveStreams DEF TypeOK, AllStreams
      <4>2. Ready(s)
        BY <3>1 DEF Selects
      <4> QED BY <3>1, <4>1, <4>2, DoOperationType
    <3>2. CASE /\ m_last_stream' = IF m_streams = <<>> THEN m_last_stream ELSE Rotation[Len(m_streams)]
               /\ UNCHANGED <<m_operations, m_pending, m_grid_id_to_stream, running, events>>
      BY <3>2, RotationType DEF TypeOK
    <3>3. \/ \E s \in Live \cup {Zero} :
                /\ Selects(s)
                /\ DoOperation(s)
                /\ m_last_stream' = IF s = Zero THEN m_last_stream ELSE s
          \/ /\ m_last_stream' = IF m_streams = <<>> THEN m_last_stream ELSE Rotation[Len(m_streams)]
             /\ UNCHANGED <<m_operations, m_pending, m_grid_id_to_stream, running, events>>
      BY <1>4 DEF Operate
    <3> HIDE DEF Typed
    <3> QED BY <3>1, <3>2, <3>3
  <2>2. UNCHANGED <<m_streams, m_lock, created, nops, m_finished_kernel, draining, limit_hit, host,
                    check, g_sim_active, g_sim_done, break_limit, g_sim_signal_exit>>
    BY <1>4 DEF Operate
  <2>3. spc' \in SimPC
    BY <1>4 DEF Operate
  <2> QED BY <2>1, <2>2, <2>3 DEF TypeOK
<1>5. CASE GpuCycle
  <2>1. PICK D \in SUBSET running :
          /\ running' = running \ D
          /\ \E q \in Orders(D) : m_finished_kernel' = m_finished_kernel \o q
          /\ draining' \in {FALSE, D # {} /\ D = running}
    BY <1>5 DEF GpuCycle
  <2>2. PICK q \in Orders(D) : m_finished_kernel' = m_finished_kernel \o q
    BY <2>1
  <2>3. q \in Seq(Nat)
    <3>1. IsFiniteSet(D)
      BY FS_Subset DEF Bookkeeping
    <3>2. q \in Seq(D) /\ D \subseteq Nat
      BY <3>1, OrdersType DEF TypeOK
    <3> QED BY <3>2, SeqSubset
  <2>4. m_finished_kernel' \in Seq(Nat)
    BY <2>2, <2>3 DEF TypeOK
  <2>6. running' \subseteq Nat /\ draining' \in BOOLEAN
    BY <2>1 DEF TypeOK
  <2>5. /\ limit_hit' \in BOOLEAN /\ spc' = "loop"
        /\ UNCHANGED <<manager, m_operations, nops, events, host,
                       check, g_sim_active, g_sim_done, break_limit, g_sim_signal_exit>>
    BY <1>5 DEF GpuCycle, StreamManagerAssumption
  <2> QED BY <2>4, <2>5, <2>6 DEF TypeOK
<1>6. CASE NoCycle
  BY <1>6 DEF TypeOK, NoCycle
<1>7. CASE StopAllRunningKernels
  <2> DEFINE over == {m_grid_id_to_stream[k] : k \in Finished}
  <2>1. /\ m_operations' = [s \in AllStreams |-> IF s \in over THEN Tail(m_operations[s]) ELSE m_operations[s]]
        /\ m_pending' = [s \in AllStreams |-> m_pending[s] /\ s \notin over]
        /\ m_grid_id_to_stream' = [k \in DOMAIN m_grid_id_to_stream \ Finished |-> m_grid_id_to_stream[k]]
        /\ \E q \in Orders(running) : m_finished_kernel' = IF q = <<>> THEN <<>> ELSE Tail(q)
        /\ running' = {} /\ g_sim_done' = TRUE /\ break_limit' = TRUE /\ spc' = "loop"
        /\ UNCHANGED <<m_streams, m_last_stream, m_lock, created, nops, draining, limit_hit, events, host,
                       check, g_sim_active, g_sim_signal_exit>>
    BY <1>7 DEF StopAllRunningKernels, Finished
  <2>2. \A s \in over : m_operations[s] # <<>>
    BY DEF Bookkeeping, KernelBookkeeping
  <2>3. m_operations' \in [AllStreams -> Seq(Operations)]
    BY <2>1, <2>2 DEF TypeOK
  <2>4. /\ m_pending' \in [AllStreams -> BOOLEAN]
        /\ DOMAIN m_grid_id_to_stream' \subseteq Nat
        /\ \A k \in DOMAIN m_grid_id_to_stream' : m_grid_id_to_stream'[k] \in AllStreams
    BY <2>1 DEF TypeOK
  <2>5. m_finished_kernel' \in Seq(Nat)
    <3>1. PICK q \in Orders(running) : m_finished_kernel' = IF q = <<>> THEN <<>> ELSE Tail(q)
      BY <2>1
    <3>2. q \in Seq(running) /\ running \subseteq Nat
      BY OrdersType DEF Bookkeeping, TypeOK
    <3>3. q \in Seq(Nat)
      BY <3>2, SeqSubset
    <3> QED BY <3>1, <3>3
  <2> HIDE DEF over
  <2> QED BY <2>1, <2>3, <2>4, <2>5 DEF TypeOK
<1>8. CASE LoopTest
  BY <1>8 DEF TypeOK, LoopTest
<1>9. CASE Deactivate
  BY <1>9 DEF TypeOK, Deactivate
<1>10. CASE OuterTest
  BY <1>10 DEF TypeOK, OuterTest
<1> QED BY <1>1, <1>2, <1>3, <1>4, <1>5, <1>6, <1>7, <1>8, <1>9, <1>10 DEF SimStep

-----------------------------------------------------------------------------
(* The loop over all streams.                                               *)

LEMMA PushingAllCall ==
    ASSUME StreamManagerAssumption, TypeOK, PushingAll, NEW h \in Hosts, HostCall(h)
    PROVE  PushingAll'
<1>1. CASE WaitAll(h)
  <2>1. PICK e \in Events : arg' = [arg EXCEPT ![h] = Call(Op("wait", e, issued[e]), None)]
    BY <1>1 DEF WaitAll
  <2>2. Call(Op("wait", e, issued[e]), None).op.event = e
    BY DEF Call, Op
  <2>3. First # None
    BY FirstType DEF TypeOK, AllStreams, StreamManagerAssumption
  <2>4. /\ hpc' = [hpc EXCEPT ![h] = "pushall"]
        /\ walkall' = [walkall EXCEPT ![h] = First]
    BY <1>1 DEF WaitAll
  <2> QED BY <2>1, <2>2, <2>3, <2>4 DEF TypeOK, PushingAll
<1>2. CASE ~WaitAll(h)
  <2>1. hpc[h] = "idle" /\ UNCHANGED walkall
    BY <1>2 DEF HostCall, Idle, StreamCreate, LaunchOrCopy, EventRecord, StreamWaitEvent,
                Synchronize, EventSynchronize, StreamDestroy, ThreadExit, SynchronizeStream, host
  <2>2. /\ \A g \in Hosts \ {h} : hpc'[g] = hpc[g] /\ arg'[g] = arg[g]
        /\ hpc'[h] # "pushall"
    BY <1>2 DEF HostCall, TypeOK, StreamCreate, LaunchOrCopy, EventRecord, StreamWaitEvent, Push,
                Synchronize, EventSynchronize, StreamDestroy, ThreadExit, SynchronizeStream, host, Idle
  <2> QED BY <2>1, <2>2 DEF PushingAll
<1> QED BY <1>1, <1>2

LEMMA PushingAllHostStep ==
    ASSUME StreamManagerAssumption, TypeOK, PushingAll, NEW h \in Hosts, HostStep(h)
    PROVE  PushingAll'
<1>1. CASE PushAllStep(h)
  <2>1. CASE walkall[h] = Zero
    <3>1. /\ hpc' = [hpc EXCEPT ![h] = "idle"]
          /\ arg' = [arg EXCEPT ![h] = NoArg]
          /\ walkall' = [walkall EXCEPT ![h] = None]
      BY <1>1, <2>1 DEF PushAllStep
    <3> QED BY <3>1 DEF TypeOK, PushingAll
  <2>2. CASE walkall[h] # Zero
    <3> DEFINE e == arg[h].op.event
    <3>1. Push(h, walkall[h], Op("wait", e, issued[e])) /\ UNCHANGED walkall
      BY <1>1, <2>2 DEF PushAllStep
    <3>2. e \in Events
      BY <1>1 DEF PushAllStep, PushingAll
    <3>3. /\ hpc'[h] \in {"block", "enqueue"}
          /\ arg'[h].op.event = e
          /\ \A g \in Hosts \ {h} : hpc'[g] = hpc[g] /\ arg'[g] = arg[g]
      BY <3>1 DEF TypeOK, Push, Op, Call
    <3> QED BY <3>1, <3>2, <3>3 DEF PushingAll
  <2> QED BY <2>1, <2>2
<1>2. ASSUME Returns(h), hpc[h] \in {"enqueue", "drain"} PROVE PushingAll'
  <2>1. CASE walkall[h] = None
    <3>1. /\ hpc' = [hpc EXCEPT ![h] = "idle"]
          /\ arg' = [arg EXCEPT ![h] = NoArg]
          /\ walkall' = walkall
      BY <1>2, <2>1 DEF Returns
    <3> QED BY <2>1, <3>1 DEF TypeOK, PushingAll
  <2>2. CASE walkall[h] # None
    <3>1. PICK s \in After(walkall[h]) : walkall' = [walkall EXCEPT ![h] = s]
      BY <1>2, <2>2 DEF Returns
    <3>2. s # None
      BY <2>2, AfterType DEF TypeOK, AllStreams, StreamManagerAssumption
    <3>3. hpc' = [hpc EXCEPT ![h] = "pushall"] /\ arg' = arg
      BY <1>2, <2>2 DEF Returns
    <3> QED BY <2>2, <3>1, <3>2, <3>3 DEF TypeOK, PushingAll
  <2> QED BY <2>1, <2>2
<1>3. CASE Enqueue(h)
  <2>1. CASE Blocks(arg[h].stream)
    <3>1. hpc' = [hpc EXCEPT ![h] = "drain"] /\ UNCHANGED <<arg, walkall>>
      BY <1>3, <2>1 DEF Enqueue
    <3> QED BY <3>1 DEF TypeOK, PushingAll
  <2>2. CASE ~Blocks(arg[h].stream)
    BY <1>2, <1>3, <2>2 DEF Enqueue
  <2> QED BY <2>1, <2>2
<1>4. CASE Drain(h)
  BY <1>2, <1>4 DEF Drain, PushingAll
<1>5. CASE BlockEnds(h)
  BY <1>5 DEF BlockEnds, TypeOK, PushingAll
<1>6. CASE SyncLock(h) \/ SyncWalk(h) \/ EventDone(h) \/ StreamSynchronized(h)
           \/ DestroyLock(h) \/ DestroyErase(h) \/ ExitSignaled(h) \/ StreamReturn(h)
  <2>1. /\ walkall[h] = None /\ walkall' = walkall
        /\ hpc'[h] # "pushall"
        /\ \A g \in Hosts \ {h} : hpc'[g] = hpc[g] /\ arg'[g] = arg[g]
    BY <1>6, ZenonT(60) DEF SyncLock, SyncWalk, EventDone, StreamSynchronized, DestroyLock, DestroyErase,
                ExitSignaled, StreamReturn, TypeOK, PushingAll
  <2> QED BY <2>1 DEF PushingAll
<1> QED BY <1>1, <1>3, <1>4, <1>5, <1>6 DEF HostStep

-----------------------------------------------------------------------------
(* The books of the simulation thread.                                      *)

\* Queued operations are numbered.
LEMMA QueuedIds ==
    ASSUME TypeOK, NEW s \in AllStreams, NEW i \in 1..Len(m_operations[s])
    PROVE  m_operations[s][i].id \in Nat
<1>1. m_operations[s][i] \in Operations
  BY DEF TypeOK
<1> QED BY <1>1 DEF Operations

bookvars == <<m_operations, m_pending, m_grid_id_to_stream, running, m_finished_kernel, nops>>

\* The steps that leave the books alone.
LEMMA BookkeepingFrame ==
    ASSUME Bookkeeping, UNCHANGED bookvars
    PROVE  Bookkeeping'
BY DEF Bookkeeping, KernelBookkeeping, FinishedOnce, IdsBounded, IdsDistinct, Finished, bookvars

LEMMA HostFrame ==
    ASSUME NEW h \in Hosts, HostCall(h) \/ HostStep(h), ~Enqueue(h)
    PROVE  UNCHANGED bookvars
<1> USE DEF manager, gpu, bookvars
<1>1. CASE HostCall(h)
  BY <1>1 DEF HostCall, StreamCreate, LaunchOrCopy, EventRecord, StreamWaitEvent, WaitAll,
              Synchronize, EventSynchronize, StreamDestroy, ThreadExit, SynchronizeStream
<1>2. CASE HostStep(h)
  BY <1>2 DEF HostStep, PushAllStep, BlockEnds, Drain, SyncLock, SyncWalk, EventDone,
              StreamSynchronized, DestroyLock, DestroyErase, ExitSignaled, StreamReturn
<1> QED BY <1>1, <1>2

\* push() appends an operation with a new id behind whatever is in progress.
LEMMA BookkeepingEnqueue ==
    ASSUME StreamManagerAssumption, TypeOK, Bookkeeping, NEW h \in Hosts, Enqueue(h)
    PROVE  Bookkeeping'
<1>1. CASE limit_hit
  BY <1>1, BookkeepingFrame DEF Enqueue, bookvars, manager, gpu
<1>2. CASE ~limit_hit
  <2> DEFINE q == Queue(h)
             old == m_operations[q]
             op == Queued(h)
  <2>1. /\ m_operations' = [m_operations EXCEPT ![q] = Append(@, op)]
        /\ nops' = nops + 1
        /\ UNCHANGED <<m_pending, m_grid_id_to_stream, running, m_finished_kernel>>
    BY <1>2 DEF Enqueue, manager, gpu
  <2>2. q \in AllStreams
    BY DEF TypeOK, Args, Queue, Blocks, AllStreams
  <2>3. op.id = nops + 1 /\ nops \in Nat
    BY DEF Queued, Stamp, TypeOK
  <2>4. old \in Seq(Operations)
    BY <2>2 DEF TypeOK
  <2> HIDE DEF q, op, old
  <2>10. m_operations'[q] = Append(old, op) /\ m_operations[q] = old
    BY <2>1, <2>2 DEF TypeOK, old
  <2>5. /\ Len(m_operations'[q]) = Len(old) + 1
        /\ \A i \in 1..Len(old) : m_operations'[q][i] = old[i]
        /\ m_operations'[q][Len(old) + 1] = op
        /\ \A s \in AllStreams \ {q} : m_operations'[s] = m_operations[s]
    BY <2>1, <2>2, <2>4, <2>10 DEF TypeOK
  <2>6. \A s \in AllStreams : \A i \in 1..Len(m_operations[s]) :
            m_operations[s][i].id \in Nat /\ m_operations[s][i].id <= nops
    BY QueuedIds DEF Bookkeeping, IdsBounded
  <2>7. IdsBounded'
    BY <2>1, <2>3, <2>4, <2>5, <2>6 DEF IdsBounded
  <2>8. IdsDistinct'
    <3> SUFFICES ASSUME NEW s \in AllStreams, NEW t \in AllStreams, s # t,
                        NEW i \in 1..Len(m_operations'[s]), NEW j \in 1..Len(m_operations'[t])
                 PROVE  m_operations'[s][i].id # m_operations'[t][j].id
      BY DEF IdsDistinct
    <3>1. CASE s # q /\ t # q
      BY <2>5, <3>1 DEF Bookkeeping, IdsDistinct
    <3>2. CASE s = q
      <4>1. CASE i \in 1..Len(old)
        <5>1. m_operations'[s][i] = m_operations[s][i] /\ m_operations'[t] = m_operations[t]
          BY <2>5, <3>2, <4>1 DEF old
        <5> QED BY <3>2, <4>1, <5>1 DEF Bookkeeping, IdsDistinct, old
      <4>2. CASE i = Len(old) + 1
        <5>1. m_operations'[s][i].id = nops + 1 /\ m_operations'[t] = m_operations[t]
          BY <2>3, <2>5, <3>2, <4>2
        <5> QED BY <2>3, <2>6, <5>1
      <4> QED BY <2>4, <2>5, <3>2, <4>1, <4>2
    <3>3. CASE t = q
      <4>1. CASE j \in 1..Len(old)
        <5>1. m_operations'[t][j] = m_operations[t][j] /\ m_operations'[s] = m_operations[s]
          BY <2>5, <3>3, <4>1 DEF old
        <5> QED BY <3>3, <4>1, <5>1 DEF Bookkeeping, IdsDistinct, old
      <4>2. CASE j = Len(old) + 1
        <5>1. m_operations'[t][j].id = nops + 1 /\ m_operations'[s] = m_operations[s]
          BY <2>3, <2>5, <3>3, <4>2
        <5> QED BY <2>3, <2>6, <5>1
      <4> QED BY <2>4, <2>5, <3>3, <4>1, <4>2
    <3> QED BY <3>1, <3>2, <3>3
  <2>9. KernelBookkeeping'
    <3>1. \A s \in AllStreams : m_operations[s] # <<>> =>
              m_operations'[s] # <<>> /\ Head(m_operations'[s]) = Head(m_operations[s])
      <4> SUFFICES ASSUME NEW s \in AllStreams, m_operations[s] # <<>>
                   PROVE  m_operations'[s] # <<>> /\ Head(m_operations'[s]) = Head(m_operations[s])
        OBVIOUS
      <4>1. CASE s = q
        <5>1. m_operations'[s] = Append(old, op) /\ old # <<>>
          BY <2>1, <2>2, <4>1 DEF TypeOK, old
        <5> QED BY <2>4, <4>1, <5>1 DEF old
      <4>2. CASE s # q
        BY <2>5, <4>2
      <4> QED BY <4>1, <4>2
    <3>2. \A k \in running \cup Finished : m_grid_id_to_stream[k] \in AllStreams
      BY DEF Bookkeeping, KernelBookkeeping, TypeOK
    <3>3. Finished' = Finished
      BY <2>1 DEF Finished
    <3> QED BY <2>1, <3>1, <3>2, <3>3 DEF Bookkeeping, KernelBookkeeping
  <2> QED BY <2>1, <2>7, <2>8, <2>9 DEF Bookkeeping, FinishedOnce
<1> QED BY <1>1, <1>2

\* Where a tail's elements come from.
LEMMA TailElements ==
    ASSUME NEW S, NEW q \in Seq(S), q # <<>>, NEW i \in 1..Len(Tail(q))
    PROVE  i + 1 \in 1..Len(q) /\ Tail(q)[i] = q[i + 1]
OBVIOUS

\* Steps that only remove operations, or change other fields than the id.
LEMMA IdsKept ==
    ASSUME IdsBounded, IdsDistinct, nops' = nops,
           \A s \in AllStreams : \A i \in 1..Len(m_operations'[s]) :
               \E j \in 1..Len(m_operations[s]) : m_operations'[s][i].id = m_operations[s][j].id
    PROVE  IdsBounded' /\ IdsDistinct'
<1>1. IdsBounded'
  BY DEF IdsBounded
<1>2. ASSUME NEW s \in AllStreams, NEW t \in AllStreams, s # t,
             NEW i \in 1..Len(m_operations'[s]), NEW j \in 1..Len(m_operations'[t])
      PROVE  m_operations'[s][i].id # m_operations'[t][j].id
  <2>1. PICK x \in 1..Len(m_operations[s]) : m_operations'[s][i].id = m_operations[s][x].id
    OBVIOUS
  <2>2. PICK y \in 1..Len(m_operations[t]) : m_operations'[t][j].id = m_operations[t][y].id
    OBVIOUS
  <2> QED BY <1>2, <2>1, <2>2 DEF IdsDistinct
<1> QED BY <1>1, <1>2 DEF IdsDistinct

\* Popping the front of the streams in S keeps the ids apart.
LEMMA IdsPopped ==
    ASSUME TypeOK, Bookkeeping, nops' = nops, NEW S,
           \A s \in AllStreams :
               IF s \in S THEN m_operations[s] # <<>> /\ m_operations'[s] = Tail(m_operations[s])
                          ELSE m_operations'[s] = m_operations[s]
    PROVE  IdsBounded' /\ IdsDistinct'
<1>1. ASSUME NEW s \in AllStreams, NEW i \in 1..Len(m_operations'[s])
      PROVE  \E j \in 1..Len(m_operations[s]) : m_operations'[s][i].id = m_operations[s][j].id
  <2>1. m_operations[s] \in Seq(Operations)
    BY DEF TypeOK
  <2>2. CASE s \in S
    <3>1. i + 1 \in 1..Len(m_operations[s]) /\ m_operations'[s][i] = m_operations[s][i + 1]
      BY <2>1, <2>2, TailElements
    <3> QED BY <3>1
  <2>3. CASE s \notin S
    BY <2>3
  <2> QED BY <2>2, <2>3
<1> QED BY <1>1, IdsKept DEF Bookkeeping

\* Two grids are in progress in two streams.
LEMMA GridsApart ==
    ASSUME Bookkeeping, NEW j \in running \cup Finished, NEW k \in running \cup Finished, j # k
    PROVE  m_grid_id_to_stream[j] # m_grid_id_to_stream[k]
BY DEF Bookkeeping, KernelBookkeeping

\* A stream whose front is not in progress belongs to no grid.
LEMMA ReadyStreamFree ==
    ASSUME Bookkeeping, NEW s \in AllStreams, Ready(s), NEW k \in running \cup Finished
    PROVE  m_grid_id_to_stream[k] # s
BY DEF Bookkeeping, KernelBookkeeping, Ready

LEMMA BookkeepingCheck ==
    ASSUME TypeOK, Bookkeeping, CheckFinishedKernel
    PROVE  Bookkeeping'
<1>1. CASE m_finished_kernel = <<>>
  BY <1>1, BookkeepingFrame DEF CheckFinishedKernel, bookvars
<1>2. CASE m_finished_kernel # <<>>
  <2> DEFINE k == Head(m_finished_kernel)
             s == m_grid_id_to_stream[k]
  <2>1. m_finished_kernel \in Seq(Nat) /\ k = m_finished_kernel[1] /\ Len(m_finished_kernel) > 0
    BY <1>2 DEF TypeOK
  <2>2. k \in Finished
    BY <2>1 DEF Finished
  <2>3. k \in DOMAIN m_grid_id_to_stream /\ m_operations[s] # <<>>
    BY <2>2 DEF Bookkeeping, KernelBookkeeping
  <2>4. s \in AllStreams
    BY <2>3 DEF TypeOK
  <2>5. /\ m_operations' = [m_operations EXCEPT ![s] = Tail(@)]
        /\ m_pending' = [m_pending EXCEPT ![s] = FALSE]
        /\ m_grid_id_to_stream' = RemoveGrid(k)
        /\ m_finished_kernel' = Tail(m_finished_kernel)
        /\ running' = running /\ nops' = nops
    BY <1>2 DEF CheckFinishedKernel
  <2> HIDE DEF k
  <2>6. ASSUME NEW i \in 1..Len(m_finished_kernel')
        PROVE  /\ i + 1 \in 1..Len(m_finished_kernel)
               /\ m_finished_kernel'[i] = m_finished_kernel[i + 1]
    BY <2>1, <2>5, <1>2, TailElements
  <2>7. FinishedOnce'
    <3>1. ASSUME NEW i \in 1..Len(m_finished_kernel'), NEW j \in 1..Len(m_finished_kernel'),
                 m_finished_kernel'[i] = m_finished_kernel'[j]
          PROVE  i = j
      <4>1. i + 1 = j + 1
        BY <2>6, <3>1 DEF Bookkeeping, FinishedOnce
      <4> QED BY <4>1
    <3> QED BY <3>1 DEF FinishedOnce
  <2>8. ASSUME NEW j \in Finished' PROVE j \in Finished /\ j # k
    <3>1. PICK i \in 1..Len(m_finished_kernel') : j = m_finished_kernel'[i]
      BY <2>8 DEF Finished
    <3>2. i + 1 \in 1..Len(m_finished_kernel) /\ j = m_finished_kernel[i + 1] /\ i + 1 # 1
      BY <2>6, <3>1
    <3>3. 1 \in 1..Len(m_finished_kernel)
      BY <2>1
    <3> QED BY <2>1, <3>2, <3>3 DEF Bookkeeping, FinishedOnce, Finished
  <2>9. \A j \in running : j # k
    BY <2>2 DEF Bookkeeping, KernelBookkeeping
  <2>10. KernelBookkeeping'
    <3>1. running' \cap Finished' = {}
      BY <2>5, <2>8 DEF Bookkeeping, KernelBookkeeping
    <3>2. ASSUME NEW j \in running' \cup Finished'
          PROVE  /\ j \in DOMAIN m_grid_id_to_stream'
                 /\ m_grid_id_to_stream'[j] = m_grid_id_to_stream[j]
                 /\ m_grid_id_to_stream[j] \in AllStreams \ {s}
                 /\ j \in running \cup Finished
      <4>1. j \in running \cup Finished /\ j # k
        BY <2>5, <2>8, <2>9
      <4>2. j \in DOMAIN m_grid_id_to_stream
        BY <4>1 DEF Bookkeeping, KernelBookkeeping
      <4> QED BY <2>2, <2>5, <4>1, <4>2, GridsApart DEF TypeOK, RemoveGrid
    <3> HIDE DEF s
    <3>3. \A t \in AllStreams \ {s} : m_operations'[t] = m_operations[t] /\ m_pending'[t] = m_pending[t]
      BY <2>5 DEF TypeOK
    <3> QED BY <3>1, <3>2, <3>3 DEF Bookkeeping, KernelBookkeeping
  <2>11. IdsBounded' /\ IdsDistinct'
    <3>1. \A t \in AllStreams :
            IF t \in {s} THEN m_operations[t] # <<>> /\ m_operations'[t] = Tail(m_operations[t])
                         ELSE m_operations'[t] = m_operations[t]
      BY <2>3, <2>4, <2>5 DEF TypeOK
    <3> QED BY <2>5, <3>1, IdsPopped
  <2> QED BY <2>5, <2>7, <2>10, <2>11 DEF Bookkeeping
<1> QED BY <1>1, <1>2

\* An operation that completes at once is popped from a stream of no grid.
LEMMA BookkeepingPop ==
    ASSUME TypeOK, Bookkeeping, NEW s \in AllStreams, Ready(s), PopFront(s),
           UNCHANGED <<m_pending, m_grid_id_to_stream, running, m_finished_kernel, nops>>
    PROVE  Bookkeeping'
<1>1. /\ m_operations[s] # <<>> /\ m_operations'[s] = Tail(m_operations[s])
      /\ \A t \in AllStreams \ {s} : m_operations'[t] = m_operations[t]
  BY DEF TypeOK, PopFront, Ready
<1>2. IdsBounded' /\ IdsDistinct'
  <2>1. \A t \in AllStreams :
          IF t \in {s} THEN m_operations[t] # <<>> /\ m_operations'[t] = Tail(m_operations[t])
                       ELSE m_operations'[t] = m_operations[t]
    BY <1>1
  <2> QED BY <2>1, IdsPopped
<1>3. ASSUME NEW k \in running \cup Finished
      PROVE  m_operations'[m_grid_id_to_stream[k]] = m_operations[m_grid_id_to_stream[k]]
  <2>1. m_grid_id_to_stream[k] \in AllStreams
    BY DEF Bookkeeping, KernelBookkeeping, TypeOK
  <2> QED BY <1>1, <2>1, ReadyStreamFree
<1>4. Finished' = Finished
  BY DEF Finished
<1>5. KernelBookkeeping'
  BY <1>3, <1>4 DEF Bookkeeping, KernelBookkeeping
<1> QED BY <1>2, <1>5 DEF Bookkeeping, FinishedOnce

\* A launch that starts is a new grid, and its stream had none.
LEMMA BookkeepingKernel ==
    ASSUME TypeOK, Bookkeeping, NEW s \in AllStreams, Ready(s), DoKernel(s),
           UNCHANGED <<m_finished_kernel, nops>>
    PROVE  Bookkeeping'
<1> DEFINE op == Head(m_operations[s])
<1>1. m_operations[s] \in Seq(Operations) /\ m_operations[s] # <<>>
  BY DEF TypeOK, Ready
<1>2. /\ op \in Operations /\ op = m_operations[s][1] /\ 1 \in 1..Len(m_operations[s])
      /\ op.type = "kernel"
  BY <1>1 DEF DoKernel
<1>3. op.id \in Nat /\ op.latency \in Nat
  BY <1>2 DEF Operations
<1>4. Finished' = Finished
  BY DEF Finished
<1>5. CASE CanStartKernel /\ op.latency = 0
  <2>1. /\ running' = running \cup {op.id}
        /\ m_pending' = [m_pending EXCEPT ![s] = TRUE]
        /\ m_grid_id_to_stream' =
              [x \in DOMAIN m_grid_id_to_stream \cup {op.id} |->
                  IF x = op.id THEN s ELSE m_grid_id_to_stream[x]]
        /\ m_operations' = m_operations
    BY <1>5 DEF DoKernel
  <2>2. ASSUME NEW k \in running \cup Finished
        PROVE  /\ k # op.id
               /\ k \in DOMAIN m_grid_id_to_stream
               /\ m_grid_id_to_stream[k] \in AllStreams \ {s}
    <3> DEFINE t == m_grid_id_to_stream[k]
    <3>1. /\ k \in DOMAIN m_grid_id_to_stream
          /\ m_operations[t] # <<>> /\ Head(m_operations[t]).id = k
      BY DEF Bookkeeping, KernelBookkeeping
    <3>2. t \in AllStreams \ {s}
      BY <3>1, ReadyStreamFree DEF TypeOK
    <3>3. m_operations[t] \in Seq(Operations)
      BY <3>2 DEF TypeOK
    <3>4. 1 \in 1..Len(m_operations[t]) /\ m_operations[t][1].id = k
      BY <3>1, <3>3
    <3>5. m_operations[t][1].id # m_operations[s][1].id
      BY <1>2, <3>2, <3>4 DEF Bookkeeping, IdsDistinct
    <3> QED BY <1>2, <3>1, <3>2, <3>4, <3>5
  <2>3. \A k \in running \cup Finished :
            /\ m_grid_id_to_stream'[k] = m_grid_id_to_stream[k]
            /\ m_pending'[m_grid_id_to_stream[k]] = m_pending[m_grid_id_to_stream[k]]
    BY <2>1, <2>2 DEF TypeOK
  <2>4. m_grid_id_to_stream'[op.id] = s /\ op.id \in DOMAIN m_grid_id_to_stream' /\ m_pending'[s]
    BY <2>1 DEF TypeOK
  <2>5. DOMAIN m_grid_id_to_stream \subseteq DOMAIN m_grid_id_to_stream'
    BY <2>1
  <2> HIDE DEF op
  <2>6. KernelBookkeeping'
    <3>1. running' \cap Finished' = {}
      BY <1>4, <2>1, <2>2 DEF Bookkeeping, KernelBookkeeping
    <3>2. ASSUME NEW k \in running \cup Finished
          PROVE  /\ k \in DOMAIN m_grid_id_to_stream'
                 /\ LET t == m_grid_id_to_stream'[k]
                    IN  /\ m_operations'[t] # <<>> /\ m_pending'[t]
                        /\ Head(m_operations'[t]).id = k
                        /\ Head(m_operations'[t]).type = "kernel"
      BY <2>1, <2>2, <2>3, <2>5 DEF Bookkeeping, KernelBookkeeping
    <3>3. /\ m_operations'[s] # <<>>
          /\ Head(m_operations'[s]).id = op.id
          /\ Head(m_operations'[s]).type = "kernel"
      BY <1>1, <1>2, <2>1 DEF op
    <3> QED BY <1>4, <2>1, <2>4, <3>1, <3>2, <3>3 DEF KernelBookkeeping
  <2>7. IsFiniteSet(running')
    BY <2>1, FS_AddElement DEF Bookkeeping
  <2>8. FinishedOnce' /\ IdsBounded' /\ IdsDistinct'
    BY <2>1 DEF Bookkeeping, FinishedOnce, IdsBounded, IdsDistinct
  <2> QED BY <2>6, <2>7, <2>8 DEF Bookkeeping
<1>6. CASE ~(CanStartKernel /\ op.latency = 0)
  <2>1. /\ m_operations' = IF op.latency > 0
                           THEN [m_operations EXCEPT ![s] = <<Stamp(op, op.id, op.latency - 1)>> \o Tail(@)]
                           ELSE m_operations
        /\ UNCHANGED <<running, m_pending, m_grid_id_to_stream>>
    BY <1>6 DEF DoKernel
  <2>2. CASE op.latency > 0
    <3> DEFINE new == Stamp(op, op.id, op.latency - 1)
               tail == Tail(m_operations[s])
    <3>1. /\ m_operations'[s] = <<new>> \o tail
          /\ \A t \in AllStreams \ {s} : m_operations'[t] = m_operations[t]
      BY <2>1, <2>2 DEF TypeOK
    <3>2. new.id = op.id
      BY DEF Stamp
    <3>3. new \in Operations
      BY <1>2, <1>3, <2>2 DEF Stamp, Operations
    <3>4. tail \in Seq(Operations) /\ Len(tail) = Len(m_operations[s]) - 1
      BY <1>1
    <3> HIDE DEF new
    <3>5. ASSUME NEW i \in 1..Len(m_operations'[s])
          PROVE  i \in 1..Len(m_operations[s]) /\ m_operations'[s][i].id = m_operations[s][i].id
      <4>1. i \in 1..Len(m_operations[s])
        BY <3>1, <3>3, <3>4
      <4>2. CASE i = 1
        BY <1>2, <3>1, <3>2, <3>3, <3>4, <4>1, <4>2
      <4>3. CASE i # 1
        <5>1. i - 1 \in 1..Len(tail) /\ m_operations'[s][i] = tail[i - 1]
          BY <3>1, <3>3, <3>4, <4>1, <4>3
        <5>2. tail[i - 1] = m_operations[s][i - 1 + 1]
          BY <1>1, <5>1, TailElements
        <5> QED BY <4>1, <5>1, <5>2
      <4> QED BY <4>2, <4>3
    <3>6. IdsBounded' /\ IdsDistinct'
      <4>1. ASSUME NEW t \in AllStreams, NEW i \in 1..Len(m_operations'[t])
            PROVE  \E j \in 1..Len(m_operations[t]) : m_operations'[t][i].id = m_operations[t][j].id
        BY <3>1, <3>5
      <4> QED BY <4>1, IdsKept DEF Bookkeeping
    <3>7. \A k \in running \cup Finished : m_grid_id_to_stream[k] \in AllStreams \ {s}
      BY ReadyStreamFree DEF Bookkeeping, KernelBookkeeping, TypeOK
    <3>8. KernelBookkeeping'
      BY <1>4, <2>1, <3>1, <3>7 DEF Bookkeeping, KernelBookkeeping
    <3> QED BY <2>1, <3>6, <3>8 DEF Bookkeeping, FinishedOnce
  <2>3. CASE ~(op.latency > 0)
    BY <2>1, <2>3, BookkeepingFrame DEF bookvars
  <2> QED BY <2>2, <2>3
<1> QED BY <1>5, <1>6

LEMMA BookkeepingOperate ==
    ASSUME StreamManagerAssumption, TypeOK, Bookkeeping, Operate
    PROVE  Bookkeeping'
<1>1. UNCHANGED <<m_finished_kernel, nops>>
  BY DEF Operate
<1>2. ASSUME NEW s \in Live \cup {Zero}, Selects(s), DoOperation(s)
      PROVE  Bookkeeping'
  <2>1. s \in AllStreams /\ Ready(s)
    BY <1>2, LiveStreams DEF TypeOK, AllStreams, Selects
  <2>2. CASE DoCopy(s) \/ DoEvent(s)
    BY <1>1, <2>1, <2>2, BookkeepingPop DEF DoCopy, DoEvent
  <2>3. CASE DoWait(s)
    <3>1. CASE PopFront(s)
      BY <1>1, <2>1, <2>3, <3>1, BookkeepingPop DEF DoWait
    <3>2. CASE UNCHANGED m_operations
      BY <1>1, <2>3, <3>2, BookkeepingFrame DEF DoWait, bookvars
    <3> QED BY <2>3, <3>1, <3>2 DEF DoWait
  <2>4. CASE DoKernel(s)
    BY <1>1, <2>1, <2>4, BookkeepingKernel
  <2> QED BY <1>2, <2>2, <2>3, <2>4 DEF DoOperation
<1>3. CASE UNCHANGED <<m_operations, m_pending, m_grid_id_to_stream, running, events>>
  BY <1>1, <1>3, BookkeepingFrame DEF bookvars
<1> QED BY <1>2, <1>3 DEF Operate

\* Kernels that complete move from the GPU to the queue of finished grids.
LEMMA BookkeepingCycle ==
    ASSUME TypeOK, Bookkeeping, GpuCycle
    PROVE  Bookkeeping'
<1>1. PICK D \in SUBSET running :
         /\ running' = running \ D
         /\ \E q \in Orders(D) : m_finished_kernel' = m_finished_kernel \o q
  BY DEF GpuCycle
<1>2. PICK q \in Orders(D) : m_finished_kernel' = m_finished_kernel \o q
  BY <1>1
<1>3. IsFiniteSet(D)
  BY FS_Subset DEF Bookkeeping
<1>4. /\ q \in Seq(D)
      /\ \A i, j \in 1..Len(q) : q[i] = q[j] => i = j
  BY <1>3, OrdersType
<1>5. UNCHANGED <<m_operations, m_pending, m_grid_id_to_stream, nops>>
  BY DEF GpuCycle, manager
<1> DEFINE n == Len(m_finished_kernel)
<1>6. n \in Nat /\ Len(q) \in Nat /\ Len(m_finished_kernel') = n + Len(q)
  BY <1>2, <1>4 DEF TypeOK
<1>7. /\ \A i \in 1..n : m_finished_kernel'[i] = m_finished_kernel[i] /\ m_finished_kernel[i] \in Finished
      /\ \A i \in (n + 1)..(n + Len(q)) :
            m_finished_kernel'[i] = q[i - n] /\ i - n \in 1..Len(q) /\ q[i - n] \in D
  BY <1>2, <1>4 DEF TypeOK, Finished
<1>8. D \cap Finished = {}
  BY DEF Bookkeeping, KernelBookkeeping
<1>9. FinishedOnce'
  <2>1. ASSUME NEW i \in 1..Len(m_finished_kernel'), NEW j \in 1..Len(m_finished_kernel'),
               m_finished_kernel'[i] = m_finished_kernel'[j]
        PROVE  i = j
    <3>1. CASE i \in 1..n /\ j \in 1..n
      BY <1>7, <2>1, <3>1 DEF Bookkeeping, FinishedOnce
    <3>2. CASE i \in (n + 1)..(n + Len(q)) /\ j \in (n + 1)..(n + Len(q))
      <4>1. i - n = j - n
        BY <1>4, <1>7, <2>1, <3>2, ZenonT(60)
      <4> QED BY <1>6, <4>1
    <3>3. CASE \/ i \in 1..n /\ j \in (n + 1)..(n + Len(q))
               \/ j \in 1..n /\ i \in (n + 1)..(n + Len(q))
      BY <1>7, <1>8, <2>1, <3>3
    <3> QED BY <1>6, <3>1, <3>2, <3>3
  <2> QED BY <2>1 DEF FinishedOnce
<1>10. Finished' \subseteq Finished \cup D
  <2>1. ASSUME NEW k \in Finished' PROVE k \in Finished \cup D
    <3>1. PICK i \in 1..Len(m_finished_kernel') : k = m_finished_kernel'[i]
      BY <2>1 DEF Finished
    <3> QED BY <1>6, <1>7, <3>1
  <2> QED BY <2>1
<1>11. KernelBookkeeping'
  BY <1>1, <1>5, <1>10 DEF Bookkeeping, KernelBookkeeping
<1>12. IsFiniteSet(running')
  BY <1>1, FS_Subset DEF Bookkeeping
<1> QED BY <1>5, <1>9, <1>11, <1>12 DEF Bookkeeping, IdsBounded, IdsDistinct

\* The stopped kernels become the finished ones; those that had finished are
\* retired, each from its own stream.
LEMMA BookkeepingStop ==
    ASSUME TypeOK, Bookkeeping, StopAllRunningKernels
    PROVE  Bookkeeping'
<1> DEFINE over == {m_grid_id_to_stream[k] : k \in Finished}
<1>1. /\ m_operations' = [s \in AllStreams |-> IF s \in over THEN Tail(m_operations[s]) ELSE m_operations[s]]
      /\ m_pending' = [s \in AllStreams |-> m_pending[s] /\ s \notin over]
      /\ m_grid_id_to_stream' = [k \in DOMAIN m_grid_id_to_stream \ Finished |-> m_grid_id_to_stream[k]]
      /\ \E q \in Orders(running) : m_finished_kernel' = IF q = <<>> THEN <<>> ELSE Tail(q)
      /\ running' = {} /\ nops' = nops
  BY DEF StopAllRunningKernels, Finished
<1>2. \A s \in over : m_operations[s] # <<>>
  BY DEF Bookkeeping, KernelBookkeeping
<1>3. PICK q \in Orders(running) : m_finished_kernel' = IF q = <<>> THEN <<>> ELSE Tail(q)
  BY <1>1
<1>4. q \in Seq(running) /\ \A i, j \in 1..Len(q) : q[i] = q[j] => i = j
  BY OrdersType DEF Bookkeeping
<1>5. ASSUME NEW i \in 1..Len(m_finished_kernel')
      PROVE  /\ q # <<>> /\ i + 1 \in 1..Len(q) /\ m_finished_kernel'[i] = q[i + 1]
             /\ m_finished_kernel'[i] \in running
  <2>1. q # <<>> /\ m_finished_kernel' = Tail(q)
    BY <1>3
  <2>2. i + 1 \in 1..Len(q) /\ m_finished_kernel'[i] = q[i + 1]
    BY <1>4, <2>1, TailElements
  <2> QED BY <1>4, <2>1, <2>2
<1>6. FinishedOnce'
  <2>1. ASSUME NEW i \in 1..Len(m_finished_kernel'), NEW j \in 1..Len(m_finished_kernel'),
               m_finished_kernel'[i] = m_finished_kernel'[j]
        PROVE  i = j
    <3>1. i + 1 = j + 1
      BY <1>4, <1>5, <2>1
    <3> QED BY <3>1
  <2> QED BY <2>1 DEF FinishedOnce
<1>7. Finished' \subseteq running
  BY <1>5 DEF Finished
<1>8. ASSUME NEW k \in running
      PROVE  /\ k \in DOMAIN m_grid_id_to_stream'
             /\ m_grid_id_to_stream'[k] = m_grid_id_to_stream[k]
             /\ m_grid_id_to_stream[k] \in AllStreams \ over
  <2>1. k \in DOMAIN m_grid_id_to_stream /\ k \notin Finished
    BY DEF Bookkeeping, KernelBookkeeping
  <2>2. m_grid_id_to_stream[k] \notin over
    BY <2>1, GridsApart
  <2> QED BY <1>1, <2>1, <2>2 DEF TypeOK
<1>9. IdsBounded' /\ IdsDistinct'
  <2>1. \A s \in AllStreams :
          IF s \in over THEN m_operations[s] # <<>> /\ m_operations'[s] = Tail(m_operations[s])
                        ELSE m_operations'[s] = m_operations[s]
    BY <1>1, <1>2
  <2> HIDE DEF over
  <2> QED BY <1>1, <2>1, IdsPopped
<1> HIDE DEF over
<1>10. KernelBookkeeping'
  <2>1. \A s \in AllStreams \ over : m_operations'[s] = m_operations[s] /\ (m_pending[s] => m_pending'[s])
    BY <1>1
  <2> QED BY <1>1, <1>7, <1>8, <2>1 DEF Bookkeeping, KernelBookkeeping
<1>11. IsFiniteSet(running')
  BY <1>1, FS_EmptySet
<1> QED BY <1>6, <1>9, <1>10, <1>11 DEF Bookkeeping

-----------------------------------------------------------------------------
(* The theorems.                                                            *)

LEMMA InitIInv ==
    ASSUME StreamManagerAssumption, Init PROVE IInv
<1> USE DEF Init
<1>1. NoArg \in Args
  BY NoArgType
<1>2. TypeOK
  <2>1. /\ m_streams \in Seq(Streams) /\ m_finished_kernel \in Seq(Nat)
        /\ m_operations \in [AllStreams -> Seq(Operations)]
        /\ m_pending \in [AllStreams -> BOOLEAN]
    OBVIOUS
  <2>2. DOMAIN m_grid_id_to_stream = {}
    OBVIOUS
  <2>3. /\ issued \in [Events -> Nat] /\ updates \in [Events -> Nat]
        /\ recorded \in [Events -> SUBSET Nat] /\ due \in [Hosts -> SUBSET Nat]
    OBVIOUS
  <2>4. /\ hpc \in [Hosts -> HostPC] /\ spc \in SimPC /\ arg \in [Hosts -> Args]
    BY <1>1 DEF HostPC, SimPC
  <2>5. walk \in [Hosts -> AllStreams] /\ walkall \in [Hosts -> AllStreams \cup {None}]
    BY DEF AllStreams
  <2> QED BY <2>1, <2>2, <2>3, <2>4, <2>5 DEF TypeOK
<1>3. PushingAll
  BY DEF PushingAll
<1>4. Finished = {} /\ IsFiniteSet(running)
  BY FS_EmptySet DEF Finished
<1>5. Bookkeeping
  BY <1>4 DEF Bookkeeping, KernelBookkeeping, FinishedOnce, IdsBounded, IdsDistinct
<1> QED BY <1>2, <1>3, <1>5 DEF IInv

LEMMA NextIInv ==
    ASSUME StreamManagerAssumption, IInv, [Next]_vars PROVE IInv'
<1> USE DEF IInv
<1>1. CASE SimStep
  <2>1. TypeOK'
    BY <1>1, SimStepType
  <2>2. PushingAll'
    <3>1. UNCHANGED host
      BY <1>1 DEF SimStep, DetectWork, Activate, CheckFinishedKernel, Operate, GpuCycle, NoCycle,
                  StopAllRunningKernels, LoopTest, Deactivate, OuterTest
    <3> QED BY <3>1 DEF PushingAll, host
  <2>3. Bookkeeping'
    <3>1. CASE DetectWork \/ Activate \/ NoCycle \/ LoopTest \/ Deactivate \/ OuterTest
      <4>1. UNCHANGED bookvars
        BY <3>1 DEF DetectWork, Activate, NoCycle, LoopTest, Deactivate, OuterTest, bookvars, manager, gpu
      <4> QED BY <4>1, BookkeepingFrame
    <3> QED BY <1>1, <3>1, BookkeepingCheck, BookkeepingOperate, BookkeepingCycle, BookkeepingStop
            DEF SimStep
  <2> QED BY <2>1, <2>2, <2>3
<1>2. ASSUME NEW h \in Hosts, HostCall(h) \/ HostStep(h) PROVE IInv'
  <2>1. TypeOK' /\ PushingAll'
    BY <1>2, HostCallType, HostStepType, PushingAllCall, PushingAllHostStep
  <2>2. Bookkeeping'
    BY <1>2, HostFrame, BookkeepingFrame, BookkeepingEnqueue
  <2> QED BY <2>1, <2>2
<1>3. CASE UNCHANGED vars
  <2> USE <1>3 DEF vars, manager, gpu, events, sim, host
  <2>1. TypeOK'
    BY DEF TypeOK
  <2>2. PushingAll'
    BY DEF PushingAll
  <2>3. Bookkeeping'
    BY BookkeepingFrame DEF bookvars
  <2> QED BY <2>1, <2>2, <2>3
<1> QED BY <1>1, <1>2, <1>3 DEF Next

\* Every variable stays in its domain: no step of a host or of the simulation
\* thread reads a queue or a map entry that is not there.
THEOREM TypeCorrect ==
    ASSUME StreamManagerAssumption PROVE Spec => []TypeOK
<1>1. Init => IInv
  BY InitIInv
<1>2. IInv /\ [Next]_vars => IInv'
  BY NextIInv
<1>3. IInv => TypeOK
  BY DEF IInv
<1> QED BY <1>1, <1>2, <1>3, PTL DEF Spec

\* register_finished_kernel always finds the stream of the grid it retires,
\* that grid's launch at its front and in progress (stream_manager.cc:270-272),
\* for any hosts, streams, calls and limits.
THEOREM BooksKept ==
    ASSUME StreamManagerAssumption PROVE Spec => []KernelBookkeeping
<1>1. Init => IInv
  BY InitIInv
<1>2. IInv /\ [Next]_vars => IInv'
  BY NextIInv
<1>3. IInv => KernelBookkeeping
  BY DEF IInv, Bookkeeping
<1> QED BY <1>1, <1>2, <1>3, PTL DEF Spec
=============================================================================
