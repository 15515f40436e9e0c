------------------------- MODULE StreamOrderProofs -------------------------
(***************************************************************************)
(* What the stream manager promises the hosts, proved from the bookkeeping *)
(* of StreamManagerProofs.  The list of streams and its iterators are      *)
(* sound for any hosts.  The order of operations is kept for one host      *)
(* thread (SingleHost); two hosts can break it, as run SMzero shows.    *)
(* Blocking calls wait for what they must as long as no thread erases a    *)
(* stream under the iterator of another (KeptStreams).                     *)
(***************************************************************************)
EXTENDS StreamManagerProofs

SingleHost     == \A g, h \in Hosts : g = h
SingleRecorder == \A e \in Events : \A s, t \in RecordedOn[e] : s = t
KeptStreams    == SingleHost \/ "destroy" \notin Calls

\* The list of streams holds no stream twice, and only created ones.
ListSound ==
    /\ LastStreamValid
    /\ Live \subseteq created
    /\ \A i, j \in 1..Len(m_streams) : m_streams[i] = m_streams[j] => i = j

\* Hosts name only streams that exist, and no stream outside the list has
\* operations: what a walk of the list can rely on.
Named(h) ==
    /\ hpc[h] \in {"block", "enqueue"} => arg[h].stream \in Live \cup {None}
    /\ walkall[h] \in Live \cup {Zero, None}
    /\ hpc[h] \in {"drain", "syncwalk"} => walk[h] \in Live \cup {Zero}
    /\ hpc[h] \in {"streamsync", "destroy", "spin"} => "destroy" \in Calls

DeadEmpty == \A s \in Streams \ Live : m_operations[s] = <<>>

StreamsNamed == DeadEmpty /\ \A h \in Hosts : Named(h)

\* With one host: what push() has waited for stays true until its operation
\* has drained, and what cudaStreamDestroy has waited for until it erases.
Exclusive ==
    /\ m_operations[Zero] # <<>> => \E h \in Hosts : hpc[h] = "drain"
    /\ \A h \in Hosts :
        /\ (hpc[h] = "drain" \/ (hpc[h] = "enqueue" /\ Blocks(arg[h].stream)))
              => ConcurrentStreamsEmpty
        /\ hpc[h] \in {"streamsync", "destroy", "spin"} => arg[h].stream \in Streams
        /\ hpc[h] \in {"destroy", "spin"} => m_operations[arg[h].stream] = <<>>

\* A blocking call leaves behind only streams that hold nothing it waits for:
\* what is queued behind the walk is younger than the call.
Ids(s) == {m_operations[s][i].id : i \in 1..Len(m_operations[s])}

Precedes(s, w) ==
    w = Zero \/ \E i, j \in 1..Len(m_streams) : i < j /\ m_streams[i] = s /\ m_streams[j] = w

WalksBehind ==
    \A h \in Hosts :
        /\ \A k \in due[h] : k <= nops
        /\ hpc[h] \in {"drain", "syncwalk"} =>
              \A s \in Live : Precedes(s, walk[h]) => due[h] \cap Ids(s) = {}

\* With one host and one stream per event, the records of an event that are
\* queued are the next ones, without gaps and in order; those that have been
\* issued and not executed are queued or about to be, until a limit drops them.
QueueOf(s)      == IF Blocks(s) THEN Zero ELSE s
IsRecord(op, e) == op.type = "event" /\ op.event = e
Asks(h, type)   == hpc[h] \in {"block", "enqueue"} /\ arg[h].op.type = type

RecordsOf(e) ==
    /\ recorded[e] = 1..updates[e] /\ updates[e] <= issued[e]
    /\ \A s \in AllStreams : \A i \in 1..Len(m_operations[s]) :
          LET op == m_operations[s][i]
          IN  IsRecord(op, e) =>
                /\ updates[e] < op.cnt /\ op.cnt <= issued[e]
                /\ \E t \in RecordedOn[e] : s = QueueOf(t)
                /\ op.cnt > updates[e] + 1 =>
                     \E j \in 1..(i - 1) : /\ IsRecord(m_operations[s][j], e)
                                           /\ m_operations[s][j].cnt = op.cnt - 1
                /\ \A j \in 1..(i - 1) :
                     IsRecord(m_operations[s][j], e) => m_operations[s][j].cnt < op.cnt
    /\ ~limit_hit => \A c \in (updates[e] + 1)..issued[e] :
          \/ \E h \in Hosts : Asks(h, "event") /\ arg[h].op.event = e /\ arg[h].op.cnt = c
          \/ \E s \in AllStreams : \E i \in 1..Len(m_operations[s]) :
                IsRecord(m_operations[s][i], e) /\ m_operations[s][i].cnt = c

RecordAsked(h) ==
    Asks(h, "event") =>
        LET e == arg[h].op.event
        IN  /\ e \in Events /\ arg[h].stream \in RecordedOn[e]
            /\ arg[h].op.cnt = issued[e] /\ updates[e] < issued[e]
            /\ \A s \in AllStreams : \A i \in 1..Len(m_operations[s]) :
                  IsRecord(m_operations[s][i], e) => m_operations[s][i].cnt < issued[e]

\* A wait is for a record that has been issued.
WaitAsked(h) ==
    /\ Asks(h, "wait") => arg[h].op.event \in Events /\ arg[h].op.cnt > 0
    /\ walkall[h] # None => issued[arg[h].op.event] > 0

EventsQueued ==
    \A s \in AllStreams : \A i \in 1..Len(m_operations[s]) :
        LET op == m_operations[s][i]
        IN  /\ op.type \in {"event", "wait"} => op.event \in Events
            /\ op.type = "wait" => op.cnt > 0

RecordsInOrder ==
    /\ EventsQueued
    /\ \A e \in Events : RecordsOf(e)
    /\ \A h \in Hosts : RecordAsked(h) /\ WaitAsked(h)

-----------------------------------------------------------------------------
(* What a step leaves alone.                                                *)

listvars == <<m_streams, m_last_stream, created>>

LEMMA SimFrame ==
    ASSUME SimStep
    PROVE  /\ UNCHANGED <<m_streams, created, nops, issued, host>>
           /\ Operate \/ UNCHANGED m_last_stream
BY DEF SimStep, DetectWork, Activate, CheckFinishedKernel, Operate, GpuCycle, NoCycle,
       StopAllRunningKernels, LoopTest, Deactivate, OuterTest, manager, events,
       DoOperation, DoCopy, DoEvent, DoWait, DoKernel

LEMMA HostListFrame ==
    ASSUME NEW h \in Hosts,
           (HostCall(h) /\ ~StreamCreate(h)) \/ (HostStep(h) /\ ~DestroyErase(h))
    PROVE  UNCHANGED listvars
<1> USE DEF manager, listvars
<1>1. CASE HostCall(h) /\ ~StreamCreate(h)
  BY <1>1 DEF HostCall, LaunchOrCopy, EventRecord, StreamWaitEvent, WaitAll,
              Synchronize, EventSynchronize, StreamDestroy, ThreadExit, SynchronizeStream
<1>2. CASE HostStep(h) /\ ~DestroyErase(h)
  BY <1>2 DEF HostStep, PushAllStep, BlockEnds, Enqueue, Drain, SyncLock, SyncWalk, EventDone,
              StreamSynchronized, DestroyLock, ExitSignaled, StreamReturn
<1> QED BY <1>1, <1>2

\* A host leaves the other hosts' control points and arguments alone.
LEMMA OtherHosts ==
    ASSUME TypeOK, NEW h \in Hosts, HostCall(h) \/ HostStep(h), NEW g \in Hosts, g # h
    PROVE  /\ hpc'[g] = hpc[g] /\ arg'[g] = arg[g] /\ walk'[g] = walk[g]
           /\ walkall'[g] = walkall[g] /\ due'[g] = due[g]
<1> USE DEF host, TypeOK, Push, Returns
<1>1. CASE HostCall(h)
  BY <1>1 DEF HostCall, StreamCreate, LaunchOrCopy, EventRecord, StreamWaitEvent, WaitAll,
              Synchronize, EventSynchronize, StreamDestroy, ThreadExit, SynchronizeStream
<1>2. CASE HostStep(h)
  <2>1. CASE PushAllStep(h) \/ BlockEnds(h) \/ EventDone(h)
    BY <2>1 DEF PushAllStep, BlockEnds, EventDone
  <2>2. CASE Enqueue(h)
    BY <2>2 DEF Enqueue
  <2>3. CASE Drain(h)
    BY <2>3 DEF Drain
  <2>4. CASE SyncLock(h) \/ SyncWalk(h)
    BY <2>4 DEF SyncLock, SyncWalk
  <2>5. CASE \/ StreamSynchronized(h) \/ DestroyLock(h) \/ DestroyErase(h) \/ ExitSignaled(h)
             \/ StreamReturn(h)
    BY <2>5 DEF StreamSynchronized, DestroyLock, DestroyErase, ExitSignaled, StreamReturn
  <2> QED BY <1>2, <2>1, <2>2, <2>3, <2>4, <2>5 DEF HostStep
<1> QED BY <1>1, <1>2

\* Creating a stream adds it at the end of the list.
LEMMA CreateGrows ==
    ASSUME StreamManagerAssumption, TypeOK, NEW h \in Hosts, StreamCreate(h)
    PROVE  \E s \in Streams \ created :
              /\ created' = created \cup {s} /\ m_streams' = Append(m_streams, s)
              /\ Live' = Live \cup {s}
<1>1. PICK s \in StreamsOf[h] \ created : created' = created \cup {s} /\ m_streams' = Append(m_streams, s)
  BY DEF StreamCreate
<1>2. s \in Streams
  BY <1>1 DEF StreamManagerAssumption
<1>3. Live' = Live \cup {s}
  <2>1. Len(m_streams') = Len(m_streams) + 1 /\ m_streams'[Len(m_streams) + 1] = s
        /\ \A i \in 1..Len(m_streams) : m_streams'[i] = m_streams[i]
    BY <1>1, <1>2 DEF TypeOK
  <2>2. 1..(Len(m_streams) + 1) = 1..Len(m_streams) \cup {Len(m_streams) + 1}
    BY DEF TypeOK
  <2> QED BY <2>1, <2>2 DEF Live
<1> QED BY <1>1, <1>2, <1>3

LEMMA Concatenated ==
    ASSUME NEW S, NEW a \in Seq(S), NEW b \in Seq(S)
    PROVE  /\ a \o b \in Seq(S) /\ Len(a \o b) = Len(a) + Len(b)
           /\ \A i \in 1..Len(a) : (a \o b)[i] = a[i]
           /\ \A i \in (Len(a) + 1)..(Len(a) + Len(b)) : (a \o b)[i] = b[i - Len(a)]
OBVIOUS

\* Erasing takes one stream out of the list and keeps the others in order.
LEMMA EraseShrinks ==
    ASSUME m_streams \in Seq(Streams), NEW s, Erase(s)
    PROVE  /\ m_streams' \in Seq(Streams)
           /\ Live' \subseteq Live /\ Live \subseteq Live' \cup {s}
           /\ (\A i, j \in 1..Len(m_streams) : m_streams[i] = m_streams[j] => i = j)
              => \A i, j \in 1..Len(m_streams') : m_streams'[i] = m_streams'[j] => i = j
<1>1. PICK n \in 1..Len(m_streams) :
         /\ m_streams[n] = s
         /\ m_streams' = SubSeq(m_streams, 1, n - 1) \o SubSeq(m_streams, n + 1, Len(m_streams))
  BY DEF Erase
<1>2. /\ m_streams' \in Seq(Streams) /\ Len(m_streams') = Len(m_streams) - 1
      /\ \A i \in 1..(n - 1) : m_streams'[i] = m_streams[i]
      /\ \A i \in n..(Len(m_streams) - 1) : m_streams'[i] = m_streams[i + 1]
  <2> DEFINE a == SubSeq(m_streams, 1, n - 1)
             b == SubSeq(m_streams, n + 1, Len(m_streams))
  <2>1. a \in Seq(Streams) /\ Len(a) = n - 1 /\ \A i \in 1..(n - 1) : a[i] = m_streams[i]
    BY <1>1
  <2>2. /\ b \in Seq(Streams) /\ Len(b) = Len(m_streams) - n
        /\ \A i \in 1..(Len(m_streams) - n) : b[i] = m_streams[n + i]
    BY <1>1
  <2>3. m_streams' = a \o b
    BY <1>1
  <2> HIDE DEF a, b
  <2>4. /\ m_streams' \in Seq(Streams) /\ Len(m_streams') = Len(a) + Len(b)
        /\ \A i \in 1..Len(a) : m_streams'[i] = a[i]
        /\ \A i \in (Len(a) + 1)..(Len(a) + Len(b)) : m_streams'[i] = b[i - Len(a)]
    <3>1. a \in Seq(Streams) /\ b \in Seq(Streams)
      BY <2>1, <2>2
    <3> QED BY <2>3, <3>1, Concatenated
  <2>5. Len(m_streams') = Len(m_streams) - 1
    <3>1. n \in Int /\ Len(m_streams) \in Int
      OBVIOUS
    <3>2. Len(m_streams') = (n - 1) + (Len(m_streams) - n)
      BY <2>1, <2>2, <2>4
    <3> QED BY <3>1, <3>2
  <2>6. ASSUME NEW i \in n..(Len(m_streams) - 1)
        PROVE  m_streams'[i] = m_streams[i + 1]
    <3>1. i - (n - 1) \in 1..(Len(m_streams) - n) /\ n + (i - (n - 1)) = i + 1
      BY <1>1, <2>6
    <3>2. m_streams'[i] = b[i - (n - 1)]
      BY <2>1, <2>2, <2>4, <3>1
    <3> QED BY <2>2, <3>1, <3>2
  <2>7. \A i \in 1..(n - 1) : m_streams'[i] = m_streams[i]
    BY <2>1, <2>4
  <2> QED BY <2>4, <2>5, <2>6, <2>7
<1>3. \A i \in 1..Len(m_streams') :
         \E j \in 1..Len(m_streams) : m_streams'[i] = m_streams[j] /\ j = IF i < n THEN i ELSE i + 1
  BY <1>2, SMTT(30)
<1>4. \A j \in 1..Len(m_streams) : j # n =>
         \E i \in 1..Len(m_streams') : m_streams'[i] = m_streams[j]
  <2>1. ASSUME NEW j \in 1..Len(m_streams), j < n
        PROVE  j \in 1..Len(m_streams') /\ m_streams'[j] = m_streams[j]
    BY <1>2, <2>1
  <2>2. ASSUME NEW j \in 1..Len(m_streams), j > n
        PROVE  j - 1 \in 1..Len(m_streams') /\ m_streams'[j - 1] = m_streams[j]
    BY <1>2, <2>2
  <2> QED BY <2>1, <2>2
<1>5. Live' \subseteq Live
  BY <1>3 DEF Live
<1>6. Live \subseteq Live' \cup {s}
  BY <1>1, <1>4 DEF Live
<1>7. ASSUME \A i, j \in 1..Len(m_streams) : m_streams[i] = m_streams[j] => i = j,
             NEW i \in 1..Len(m_streams'), NEW j \in 1..Len(m_streams'), m_streams'[i] = m_streams'[j]
      PROVE  i = j
  <2> DEFINE At(x) == IF x < n THEN x ELSE x + 1
  <2>1. At(i) \in 1..Len(m_streams) /\ m_streams'[i] = m_streams[At(i)]
    BY <1>3
  <2>2. At(j) \in 1..Len(m_streams) /\ m_streams'[j] = m_streams[At(j)]
    BY <1>3
  <2>3. At(i) = At(j)
    BY <1>7, <2>1, <2>2
  <2> QED BY <2>3
<1> QED BY <1>2, <1>5, <1>6, <1>7
-----------------------------------------------------------------------------
(* What a step of the simulation thread does to the queues: it pops the     *)
(* front of some and leaves the others as they were, but for a latency.     *)

Popped(s) == m_operations[s] # <<>> /\ m_operations'[s] = Tail(m_operations[s])

\* The streams in S are popped; waits only when the counter has got there,
\* records one at a time and counted.
Serves(S) ==
    /\ \A s \in S : Popped(s)
    /\ \A s \in AllStreams \ S : Accepted'[s] = Accepted[s]
    /\ \A s \in S : LET op == Head(m_operations[s])
                    IN  op.type = "wait" => updates[op.event] >= op.cnt
    /\ \/ /\ UNCHANGED <<updates, recorded>>
          /\ \A s \in S : Head(m_operations[s]).type # "event"
       \/ \E s \in S :
            LET op == Head(m_operations[s])
            IN  /\ S = {s} /\ op.type = "event"
                /\ updates' = [updates EXCEPT ![op.event] = @ + 1]
                /\ recorded' = [recorded EXCEPT ![op.event] = @ \cup {op.cnt}]

LEMMA SameQueue ==
    ASSUME NEW s \in AllStreams, m_operations'[s] = m_operations[s]
    PROVE  Accepted'[s] = Accepted[s]
BY DEF Accepted

LEMMA ServesOthers ==
    ASSUME UNCHANGED <<m_operations, updates, recorded>>
    PROVE  Serves({})
BY SameQueue DEF Serves

\* One stream is popped by do_operation().
LEMMA ServesPop ==
    ASSUME TypeOK, NEW s \in AllStreams, m_operations[s] # <<>>, PopFront(s),
           Head(m_operations[s]).type = "wait" =>
               updates[Head(m_operations[s]).event] >= Head(m_operations[s]).cnt,
           \/ UNCHANGED events /\ Head(m_operations[s]).type # "event"
           \/ DoEvent(s)
    PROVE  Serves({s})
<1>1. Popped(s) /\ \A t \in AllStreams \ {s} : m_operations'[t] = m_operations[t]
  BY DEF TypeOK, PopFront, Popped
<1>2. \A t \in AllStreams \ {s} : Accepted'[t] = Accepted[t]
  BY <1>1, SameQueue
<1>3. CASE UNCHANGED events /\ Head(m_operations[s]).type # "event"
  BY <1>1, <1>2, <1>3 DEF Serves, events
<1>4. CASE DoEvent(s)
  <2>1. \E t \in {s} :
            LET op == Head(m_operations[t])
            IN  /\ {s} = {t} /\ op.type = "event"
                /\ updates' = [updates EXCEPT ![op.event] = @ + 1]
                /\ recorded' = [recorded EXCEPT ![op.event] = @ \cup {op.cnt}]
    BY <1>4 DEF DoEvent
  <2> QED BY <1>1, <1>2, <2>1 DEF Serves
<1> QED BY <1>3, <1>4

\* The launch latency of the front operation counts down, or it starts.
LEMMA ServesKernel ==
    ASSUME TypeOK, NEW s \in AllStreams, m_operations[s] # <<>>, DoKernel(s)
    PROVE  Serves({})
<1> DEFINE op == Head(m_operations[s])
<1>1. UNCHANGED <<updates, recorded>>
  BY DEF DoKernel, events
<1>2. CASE UNCHANGED m_operations
  BY <1>1, <1>2, ServesOthers
<1>3. CASE m_operations' = [m_operations EXCEPT ![s] = <<Stamp(op, op.id, op.latency - 1)>> \o Tail(@)]
  <2> DEFINE new  == Stamp(op, op.id, op.latency - 1)
             tail == Tail(m_operations[s])
  <2>1. /\ m_operations'[s] = <<new>> \o tail
        /\ \A t \in AllStreams \ {s} : m_operations'[t] = m_operations[t]
    BY <1>3 DEF TypeOK
  <2>2. m_operations[s] \in Seq(Operations) /\ op = m_operations[s][1]
    BY DEF TypeOK
  <2>3. tail \in Seq(Operations) /\ Len(tail) = Len(m_operations[s]) - 1
    BY <2>2
  <2>4. Stamp(new, new.id, 0) = Stamp(op, op.id, 0)
    BY DEF Stamp
  <2> HIDE DEF new
  <2>5. /\ Len(m_operations'[s]) = Len(m_operations[s]) /\ m_operations'[s][1] = new
        /\ \A i \in 2..Len(m_operations[s]) : m_operations'[s][i] = tail[i - 1]
    BY <2>1, <2>3
  <2>6. \A i \in 2..Len(m_operations[s]) : m_operations'[s][i] = m_operations[s][i]
    <3>1. \A j \in 1..Len(tail) : tail[j] = m_operations[s][j + 1]
      BY <2>2
    <3> HIDE DEF tail
    <3>2. ASSUME NEW i \in 2..Len(m_operations[s])
          PROVE  m_operations'[s][i] = m_operations[s][i]
      <4>1. i - 1 \in 1..Len(tail) /\ (i - 1) + 1 = i
        BY <2>3
      <4> QED BY <2>5, <3>1, <4>1
    <3> QED BY <3>2
  <2>7. ASSUME NEW i \in 1..Len(m_operations[s])
        PROVE  Stamp(m_operations'[s][i], m_operations'[s][i].id, 0)
                 = Stamp(m_operations[s][i], m_operations[s][i].id, 0)
    BY <2>2, <2>4, <2>5, <2>6
  <2>8. Accepted'[s] = Accepted[s]
    BY <2>5, <2>7 DEF Accepted
  <2>9. \A t \in AllStreams : Accepted'[t] = Accepted[t]
    BY <2>1, <2>8, SameQueue
  <2> QED BY <1>1, <2>9 DEF Serves
<1> QED BY <1>2, <1>3 DEF DoKernel

LEMMA SimServes ==
    ASSUME StreamManagerAssumption, TypeOK, Bookkeeping, SimStep
    PROVE  \E S \in SUBSET AllStreams : Serves(S)
<1>1. CASE DetectWork \/ Activate \/ GpuCycle \/ NoCycle \/ LoopTest \/ Deactivate \/ OuterTest
  <2>1. UNCHANGED <<m_operations, updates, recorded>>
    BY <1>1 DEF DetectWork, Activate, GpuCycle, NoCycle, LoopTest, Deactivate, OuterTest, events
  <2> QED BY <2>1, ServesOthers
<1>2. CASE CheckFinishedKernel
  <2>1. UNCHANGED <<updates, recorded>>
    BY <1>2 DEF CheckFinishedKernel, events
  <2>2. CASE m_finished_kernel = <<>>
    BY <1>2, <2>1, <2>2, ServesOthers DEF CheckFinishedKernel
  <2>3. CASE m_finished_kernel # <<>>
    <3> DEFINE k == Head(m_finished_kernel)
               s == m_grid_id_to_stream[k]
    <3>1. m_operations' = [m_operations EXCEPT ![s] = Tail(@)]
      BY <1>2, <2>3 DEF CheckFinishedKernel
    <3>2. k \in Finished
      BY <2>3 DEF TypeOK, Finished
    <3>3. s \in AllStreams /\ m_operations[s] # <<>> /\ Head(m_operations[s]).type = "kernel"
      BY <3>2 DEF Bookkeeping, KernelBookkeeping, TypeOK
    <3> HIDE DEF s
    <3>4. Popped(s) /\ \A t \in AllStreams \ {s} : m_operations'[t] = m_operations[t]
      BY <3>1, <3>3 DEF Popped, TypeOK
    <3>5. Serves({s})
      BY <2>1, <3>3, <3>4, SameQueue DEF Serves
    <3> QED BY <3>3, <3>5
  <2> QED BY <2>2, <2>3
<1>3. CASE Operate
  <2>1. ASSUME NEW s \in Live \cup {Zero}, Selects(s), DoOperation(s)
        PROVE  \E S \in SUBSET AllStreams : Serves(S)
    <3>1. s \in AllStreams /\ m_operations[s] # <<>>
      BY <2>1, LiveStreams DEF TypeOK, AllStreams, Selects, Ready
    <3>2. CASE DoCopy(s)
      BY <3>1, <3>2, ServesPop DEF DoCopy
    <3>3. CASE DoEvent(s)
      BY <3>1, <3>3, ServesPop DEF DoEvent
    <3>4. CASE DoWait(s)
      <4>1. CASE PopFront(s) /\ updates[Head(m_operations[s]).event] >= Head(m_operations[s]).cnt
        BY <3>1, <3>4, <4>1, ServesPop DEF DoWait
      <4>2. CASE UNCHANGED m_operations
        BY <3>4, <4>2, ServesOthers DEF DoWait, events
      <4> QED BY <3>4, <4>1, <4>2 DEF DoWait
    <3>5. CASE DoKernel(s)
      BY <3>1, <3>5, ServesKernel
    <3> QED BY <2>1, <3>2, <3>3, <3>4, <3>5 DEF DoOperation
  <2>2. CASE UNCHANGED <<m_operations, m_pending, m_grid_id_to_stream, running, events>>
    BY <2>2, ServesOthers DEF events
  <2> QED BY <1>3, <2>1, <2>2 DEF Operate
<1>4. CASE StopAllRunningKernels
  <2> DEFINE over == {m_grid_id_to_stream[k] : k \in Finished}
  <2>1. /\ m_operations' = [s \in AllStreams |-> IF s \in over THEN Tail(m_operations[s]) ELSE m_operations[s]]
        /\ UNCHANGED <<updates, recorded>>
    BY <1>4 DEF StopAllRunningKernels, Finished, events
  <2>2. \A s \in over : s \in AllStreams /\ m_operations[s] # <<>> /\ Head(m_operations[s]).type = "kernel"
    <3>1. ASSUME NEW k \in Finished
          PROVE  LET s == m_grid_id_to_stream[k]
                 IN  s \in AllStreams /\ m_operations[s] # <<>> /\ Head(m_operations[s]).type = "kernel"
      BY DEF Bookkeeping, KernelBookkeeping, TypeOK
    <3> QED BY <3>1
  <2> HIDE DEF over
  <2>3. Serves(over)
    BY <2>1, <2>2, SameQueue DEF Serves, Popped
  <2> QED BY <2>2, <2>3
<1> QED BY <1>1, <1>2, <1>3, <1>4 DEF SimStep
\* Nothing enters a queue while the simulation thread moves.
LEMMA SimShrinks ==
    ASSUME StreamManagerAssumption, TypeOK, Bookkeeping, SimStep,
           NEW s \in AllStreams, m_operations[s] = <<>>
    PROVE  m_operations'[s] = <<>>
<1>1. PICK S \in SUBSET AllStreams : Serves(S)
  BY SimServes
<1>2. s \notin S
  BY <1>1 DEF Serves, Popped
<1>3. Accepted'[s] = Accepted[s]
  BY <1>1, <1>2 DEF Serves
<1>4. m_operations'[s] \in Seq(Operations)
  BY SimStepType DEF TypeOK
<1>5. DOMAIN Accepted'[s] = 1..Len(m_operations'[s])
  BY DEF Accepted
<1>6. DOMAIN Accepted[s] = {}
  BY DEF Accepted
<1>7. 1 \notin 1..Len(m_operations'[s])
  BY <1>3, <1>5, <1>6
<1> QED BY <1>4, <1>7

-----------------------------------------------------------------------------
(* The list of streams.                                                     *)

\* front() looks at live streams only.
LEMMA RotationLive ==
    ASSUME m_streams \in Seq(Streams), NEW i \in 1..Len(m_streams)
    PROVE  Rotation[i] \in Live
<1> DEFINE n == Len(m_streams)
           last == IF \E j \in 1..n : m_streams[j] = m_last_stream
                   THEN CHOOSE j \in 1..n : m_streams[j] = m_last_stream ELSE 0
<1>1. n \in Nat /\ n > 0 /\ last \in 0..n
  OBVIOUS
<1>2. ((last + i - 1) % n) + 1 \in 1..n
  BY <1>1
<1>3. Rotation = [j \in 1..n |-> m_streams[((last + j - 1) % n) + 1]]
  BY DEF Rotation
<1> HIDE DEF last
<1> QED BY <1>2, <1>3 DEF Live

LEMMA ListSoundSim ==
    ASSUME StreamManagerAssumption, TypeOK, ListSound, SimStep
    PROVE  ListSound'
<1>1. UNCHANGED <<m_streams, created>>
  BY SimFrame
<1>2. Live' = Live
  BY <1>1 DEF Live
<1>3. m_last_stream' \in Live \cup {None}
  <2>1. CASE Operate
    <3>1. CASE \E s \in Live \cup {Zero} : m_last_stream' = IF s = Zero THEN m_last_stream ELSE s
      BY <3>1 DEF ListSound, LastStreamValid
    <3>2. CASE m_streams = <<>> /\ m_last_stream' = m_last_stream
      BY <3>2 DEF ListSound, LastStreamValid
    <3>3. CASE m_streams # <<>> /\ m_last_stream' = Rotation[Len(m_streams)]
      <4>1. Rotation[Len(m_streams)] \in Live
        BY <3>3, RotationLive DEF TypeOK
      <4> QED BY <3>3, <4>1
    <3> QED BY <2>1, <3>1, <3>2, <3>3 DEF Operate
  <2>2. CASE UNCHANGED m_last_stream
    BY <2>2 DEF ListSound, LastStreamValid
  <2> QED BY <2>1, <2>2, SimFrame
<1> QED BY <1>1, <1>2, <1>3 DEF ListSound, LastStreamValid

LEMMA ListSoundHost ==
    ASSUME StreamManagerAssumption, TypeOK, ListSound, NEW h \in Hosts, HostCall(h) \/ HostStep(h)
    PROVE  ListSound'
<1>1. CASE StreamCreate(h)
  <2>1. PICK s \in Streams \ created :
           created' = created \cup {s} /\ m_streams' = Append(m_streams, s) /\ Live' = Live \cup {s}
    BY <1>1, CreateGrows
  <2>2. m_last_stream' = m_last_stream
    BY <1>1 DEF StreamCreate
  <2>3. \A i \in 1..Len(m_streams) : m_streams[i] # s
    BY <2>1 DEF ListSound, Live
  <2>4. /\ Len(m_streams') = Len(m_streams) + 1 /\ m_streams'[Len(m_streams) + 1] = s
        /\ \A i \in 1..Len(m_streams) : m_streams'[i] = m_streams[i]
    BY <2>1 DEF TypeOK
  <2>5. \A i, j \in 1..Len(m_streams') : m_streams'[i] = m_streams'[j] => i = j
    <3>1. \A i \in 1..Len(m_streams') : i \in 1..Len(m_streams) \/ i = Len(m_streams) + 1
      <4>1. Len(m_streams) \in Nat
        BY DEF TypeOK
      <4>2. Len(m_streams') = Len(m_streams) + 1
        BY <2>4
      <4> QED BY <4>1, <4>2
    <3> QED BY <2>3, <2>4, <3>1 DEF ListSound
  <2> QED BY <2>1, <2>2, <2>5 DEF ListSound, LastStreamValid
<1>2. CASE DestroyErase(h)
  <2>1. /\ Erase(arg[h].stream) /\ created' = created
        /\ m_last_stream' = IF m_streams' = <<>> THEN None ELSE Head(m_streams')
    BY <1>2 DEF DestroyErase
  <2>2. /\ m_streams' \in Seq(Streams) /\ Live' \subseteq Live
        /\ \A i, j \in 1..Len(m_streams') : m_streams'[i] = m_streams'[j] => i = j
    BY <2>1, EraseShrinks DEF TypeOK, ListSound
  <2>3. m_streams' # <<>> => Head(m_streams') \in Live'
    BY <2>2 DEF Live
  <2> QED BY <2>1, <2>2, <2>3 DEF ListSound, LastStreamValid
<1>3. CASE ~StreamCreate(h) /\ ~DestroyErase(h)
  BY <1>3, HostListFrame DEF listvars, ListSound, LastStreamValid, Live
<1> QED BY <1>1, <1>2, <1>3
-----------------------------------------------------------------------------
(* The streams that hosts name.                                             *)

LEMMA FirstLive ==
    ASSUME m_streams \in Seq(Streams) PROVE First \in Live \cup {Zero}
BY DEF First, Live

LEMMA AfterLive ==
    ASSUME m_streams \in Seq(Streams), NEW s, NEW t \in After(s)
    PROVE  t \in Live \cup {Zero}
<1>1. CASE s \in Live /\ m_streams[Len(m_streams)] # s
  <2> DEFINE n == CHOOSE i \in 1..Len(m_streams) : m_streams[i] = s
  <2>1. n \in 1..Len(m_streams) /\ m_streams[n] = s
    BY <1>1 DEF Live
  <2>2. n + 1 \in 1..Len(m_streams)
    BY <1>1, <2>1
  <2>3. t = m_streams[n + 1]
    BY <1>1 DEF After
  <2> QED BY <2>2, <2>3 DEF Live
<1>2. CASE s \in Live /\ m_streams[Len(m_streams)] = s
  BY <1>2 DEF After
<1>3. CASE s \notin Live
  BY <1>3 DEF After
<1> QED BY <1>1, <1>2, <1>3

LEMMA LiveGrows ==
    ASSUME StreamManagerAssumption, TypeOK, NEW h \in Hosts, HostCall(h) \/ HostStep(h),
           ~DestroyErase(h)
    PROVE  Live \subseteq Live'
<1>1. CASE StreamCreate(h)
  BY <1>1, CreateGrows
<1>2. CASE ~StreamCreate(h)
  BY <1>2, HostListFrame DEF listvars, Live
<1> QED BY <1>1, <1>2

LEMMA PushNamed ==
    ASSUME TypeOK, NEW h \in Hosts, Named(h), NEW s \in Live \cup {None}, NEW op,
           Push(h, s, op), UNCHANGED <<walkall, m_streams>>
    PROVE  Named(h)'
<1>1. hpc'[h] \in {"block", "enqueue"} /\ arg'[h].stream = s
  BY DEF TypeOK, Push, Call
<1>2. Live' = Live /\ walkall'[h] = walkall[h]
  BY DEF Live
<1> QED BY <1>1, <1>2 DEF Named

LEMMA ReturnsNamed ==
    ASSUME TypeOK, NEW h \in Hosts, Named(h), Returns(h), UNCHANGED m_streams
    PROVE  Named(h)'
<1>1. Live' = Live
  BY DEF Live
<1>2. CASE walkall[h] = None
  <2>1. hpc'[h] = "idle" /\ walkall'[h] = None
    BY <1>2 DEF Returns, TypeOK
  <2> QED BY <2>1 DEF Named
<1>3. CASE walkall[h] # None
  <2>1. PICK s \in After(walkall[h]) : walkall' = [walkall EXCEPT ![h] = s]
    BY <1>3 DEF Returns
  <2>2. hpc'[h] = "pushall"
    BY <1>3 DEF Returns, TypeOK
  <2>3. walkall'[h] \in Live \cup {Zero}
    BY <2>1, AfterLive DEF TypeOK
  <2> QED BY <1>1, <2>2, <2>3 DEF Named
<1> QED BY <1>2, <1>3

LEMMA NamedCall ==
    ASSUME TypeOK, NEW h \in Hosts, Named(h), HostCall(h), ~StreamCreate(h)
    PROVE  Named(h)'
<1> USE DEF manager, sim, host, Idle
<1>1. UNCHANGED m_streams
  BY DEF HostCall, LaunchOrCopy, EventRecord, StreamWaitEvent, WaitAll,
         Synchronize, EventSynchronize, StreamDestroy, ThreadExit, SynchronizeStream
<1>2. Live' = Live
  BY <1>1 DEF Live
<1>3. ASSUME NEW type, LaunchOrCopy(h, type) PROVE Named(h)'
  BY <1>1, <1>3, PushNamed DEF LaunchOrCopy, Targets
<1>4. CASE EventRecord(h)
  BY <1>1, <1>4, PushNamed DEF EventRecord, Targets
<1>5. CASE StreamWaitEvent(h)
  BY <1>1, <1>5, PushNamed DEF StreamWaitEvent, Targets
<1>6. CASE WaitAll(h)
  <2>1. hpc'[h] = "pushall" /\ walkall'[h] = First
    BY <1>6 DEF WaitAll, TypeOK
  <2>2. First \in Live \cup {Zero}
    BY FirstLive DEF TypeOK
  <2> QED BY <1>2, <2>1, <2>2 DEF Named
<1>7. CASE Synchronize(h) \/ EventSynchronize(h) \/ ThreadExit(h) \/ SynchronizeStream(h)
  <2>1. hpc'[h] \in {"sync", "eventsync", "waitexit", "streamreturn"} /\ walkall' = walkall
    BY <1>7 DEF Synchronize, EventSynchronize, ThreadExit, SynchronizeStream, TypeOK
  <2> QED BY <1>2, <2>1 DEF Named
<1>8. CASE StreamDestroy(h)
  <2>1. hpc'[h] = "streamsync" /\ walkall' = walkall /\ "destroy" \in Calls
    BY <1>8 DEF StreamDestroy, TypeOK
  <2> QED BY <1>2, <2>1 DEF Named
<1> QED BY <1>3, <1>4, <1>5, <1>6, <1>7, <1>8 DEF HostCall

LEMMA NamedStep ==
    ASSUME TypeOK, PushingAll, NEW h \in Hosts, Named(h), HostStep(h)
    PROVE  Named(h)'
<1> USE DEF manager, sim, host
<1>1. CASE DestroyErase(h)
  <2>1. hpc'[h] = "idle" /\ hpc[h] = "spin" /\ walkall'[h] = walkall[h]
    BY <1>1 DEF DestroyErase, TypeOK
  <2>2. walkall[h] = None
    BY <2>1 DEF PushingAll
  <2> QED BY <2>1, <2>2 DEF Named
<1>2. CASE ~DestroyErase(h)
  <2>1. UNCHANGED m_streams /\ Live' = Live
    BY <1>2, HostListFrame DEF listvars, Live
  <2>2. CASE PushAllStep(h)
    <3>1. CASE walkall[h] = Zero
      <4>1. hpc'[h] = "idle" /\ walkall'[h] = None
        BY <2>2, <3>1 DEF PushAllStep, TypeOK
      <4> QED BY <4>1 DEF Named
    <3>2. CASE walkall[h] # Zero
      <4>1. walkall[h] \in Live
        BY <2>2, <3>2 DEF Named, PushAllStep, PushingAll
      <4>2. \E op : Push(h, walkall[h], op)
        BY <2>2, <3>2 DEF PushAllStep
      <4>3. UNCHANGED walkall
        BY <2>2, <3>2 DEF PushAllStep
      <4> QED BY <2>1, <4>1, <4>2, <4>3, PushNamed
    <3> QED BY <3>1, <3>2
  <2>3. CASE BlockEnds(h)
    <3>1. hpc[h] = "block" /\ hpc'[h] = "enqueue" /\ arg' = arg /\ walkall' = walkall
      BY <2>3 DEF BlockEnds, TypeOK
    <3> QED BY <2>1, <3>1 DEF Named
  <2>4. CASE Enqueue(h)
    <3>1. CASE Blocks(arg[h].stream)
      <4>1. hpc'[h] = "drain" /\ walk'[h] = First /\ walkall' = walkall
        BY <2>4, <3>1 DEF Enqueue, TypeOK
      <4>2. First \in Live \cup {Zero}
        BY FirstLive DEF TypeOK
      <4> QED BY <2>1, <4>1, <4>2 DEF Named
    <3>2. CASE ~Blocks(arg[h].stream)
      BY <2>1, <2>4, <3>2, ReturnsNamed DEF Enqueue
    <3> QED BY <3>1, <3>2
  <2>5. CASE Drain(h)
    <3>1. CASE Returns(h)
      BY <2>1, <3>1, ReturnsNamed
    <3>2. CASE walk' = [walk EXCEPT ![h] = First] /\ UNCHANGED <<hpc, walkall, arg>>
      <4>1. First \in Live \cup {Zero}
        BY FirstLive DEF TypeOK
      <4> QED BY <2>1, <2>5, <3>2, <4>1 DEF Named, Drain, TypeOK
    <3>3. CASE /\ \E s \in After(walk[h]) : walk' = [walk EXCEPT ![h] = s]
               /\ UNCHANGED <<hpc, walkall, arg>>
      <4>1. walk'[h] \in Live \cup {Zero}
        BY <3>3, AfterLive DEF TypeOK
      <4> QED BY <2>1, <2>5, <3>3, <4>1 DEF Named, Drain
    <3> QED BY <2>5, <3>1, <3>2, <3>3 DEF Drain
  <2>6. CASE SyncLock(h)
    <3>1. hpc'[h] = "syncwalk" /\ walk'[h] = First /\ walkall' = walkall
      BY <2>6 DEF SyncLock, TypeOK
    <3>2. First \in Live \cup {Zero}
      BY FirstLive DEF TypeOK
    <3> QED BY <2>1, <3>1, <3>2 DEF Named
  <2>7. CASE SyncWalk(h)
    <3>1. CASE /\ \E s \in After(walk[h]) : walk' = [walk EXCEPT ![h] = s]
               /\ UNCHANGED hpc
      <4>1. walk'[h] \in Live \cup {Zero}
        BY <3>1, AfterLive DEF TypeOK
      <4> QED BY <2>1, <2>7, <3>1, <4>1 DEF Named, SyncWalk
    <3>2. CASE hpc'[h] \in {"idle", "sync"}
      BY <2>1, <2>7, <3>2 DEF Named, SyncWalk
    <3> QED BY <2>7, <3>1, <3>2 DEF SyncWalk, TypeOK
  <2>8. CASE EventDone(h) \/ ExitSignaled(h) \/ StreamReturn(h)
    <3>1. hpc'[h] \in {"idle", "gone"} /\ walkall' = walkall
      BY <2>8 DEF EventDone, ExitSignaled, StreamReturn, TypeOK
    <3> QED BY <2>1, <3>1 DEF Named
  <2>9. CASE StreamSynchronized(h) \/ DestroyLock(h)
    <3>1. hpc[h] \in {"streamsync", "destroy"} /\ hpc'[h] \in {"destroy", "spin"} /\ walkall' = walkall
      BY <2>9 DEF StreamSynchronized, DestroyLock, TypeOK
    <3> QED BY <2>1, <3>1 DEF Named
  <2> QED BY <1>2, <2>2, <2>3, <2>4, <2>5, <2>6, <2>7, <2>8, <2>9 DEF HostStep
<1> QED BY <1>1, <1>2
LEMMA StreamsNamedSim ==
    ASSUME StreamManagerAssumption, TypeOK, Bookkeeping, StreamsNamed, SimStep
    PROVE  StreamsNamed'
<1>1. UNCHANGED <<m_streams, host>> /\ Live' = Live
  BY SimFrame DEF Live
<1>2. DeadEmpty'
  BY <1>1, SimShrinks DEF StreamsNamed, DeadEmpty, AllStreams
<1>3. \A h \in Hosts : Named(h)'
  BY <1>1 DEF StreamsNamed, Named, host
<1> QED BY <1>2, <1>3 DEF StreamsNamed

\* push() appends to a stream of the list, or to stream zero.
LEMMA EnqueueLive ==
    ASSUME NEW h \in Hosts, Enqueue(h), Named(h)
    PROVE  Queue(h) \in Live \cup {Zero}
BY DEF Enqueue, Named, Queue, Blocks

LEMMA StreamsNamedHost ==
    ASSUME StreamManagerAssumption, KeptStreams, TypeOK, PushingAll, StreamsNamed,
           NEW h \in Hosts, HostCall(h) \/ HostStep(h)
    PROVE  StreamsNamed'
<1>1. Named(h)'
  <2>1. CASE StreamCreate(h)
    <3>1. Live \subseteq Live' /\ UNCHANGED host
      BY <2>1, CreateGrows DEF StreamCreate
    <3> QED BY <3>1 DEF StreamsNamed, Named, host
  <2>2. CASE ~StreamCreate(h)
    BY <2>2, NamedCall, NamedStep DEF StreamsNamed
  <2> QED BY <2>1, <2>2
<1>2. ASSUME NEW g \in Hosts, g # h PROVE Named(g)'
  <2>1. ~DestroyErase(h)
    BY <1>2 DEF KeptStreams, SingleHost, DestroyErase, StreamsNamed, Named
  <2>2. Live \subseteq Live'
    BY <2>1, LiveGrows
  <2>3. /\ hpc'[g] = hpc[g] /\ arg'[g] = arg[g] /\ walk'[g] = walk[g]
        /\ walkall'[g] = walkall[g]
    BY <1>2, OtherHosts
  <2> QED BY <2>2, <2>3 DEF StreamsNamed, Named
<1>3. DeadEmpty'
  <2>1. CASE DestroyErase(h)
    <3>1. Erase(arg[h].stream) /\ m_operations[arg[h].stream] = <<>> /\ m_operations' = m_operations
      BY <2>1 DEF DestroyErase
    <3>2. Live \subseteq Live' \cup {arg[h].stream}
      BY <3>1, EraseShrinks DEF TypeOK
    <3> QED BY <3>1, <3>2 DEF StreamsNamed, DeadEmpty
  <2>2. CASE Enqueue(h) /\ ~limit_hit
    <3>1. m_operations' = [m_operations EXCEPT ![Queue(h)] = Append(@, Queued(h))] /\ Live' = Live
      BY <2>2 DEF Enqueue, manager, Live
    <3>2. Queue(h) \in Live \cup {Zero}
      BY <2>2, EnqueueLive DEF StreamsNamed
    <3>3. Zero \notin Streams
      BY DEF StreamManagerAssumption
    <3> QED BY <3>1, <3>2, <3>3 DEF StreamsNamed, DeadEmpty, TypeOK, AllStreams
  <2>3. CASE ~DestroyErase(h) /\ ~(Enqueue(h) /\ ~limit_hit)
    <3>1. Live \subseteq Live'
      BY <2>3, LiveGrows
    <3>2. m_operations' = m_operations
      BY <2>3, HostFrame DEF bookvars, Enqueue
    <3> QED BY <3>1, <3>2 DEF StreamsNamed, DeadEmpty
  <2> QED BY <2>1, <2>2, <2>3
<1> QED BY <1>1, <1>2, <1>3 DEF StreamsNamed

-----------------------------------------------------------------------------
(* One host and the default stream.                                         *)

LEMMA ExclusiveSim ==
    ASSUME StreamManagerAssumption, TypeOK, Bookkeeping, Exclusive, SimStep
    PROVE  Exclusive'
<1>1. UNCHANGED <<m_streams, host>> /\ Live' = Live
  BY SimFrame DEF Live
<1>2. Live \subseteq AllStreams /\ Zero \in AllStreams
  BY LiveStreams DEF TypeOK, AllStreams
<1>3. \A s \in AllStreams : m_operations[s] = <<>> => m_operations'[s] = <<>>
  BY SimShrinks
<1>4. ConcurrentStreamsEmpty => ConcurrentStreamsEmpty'
  BY <1>1, <1>2, <1>3 DEF ConcurrentStreamsEmpty
<1>5. \A h \in Hosts : Blocks(arg[h].stream)' = Blocks(arg[h].stream)
  BY <1>1 DEF Blocks, host
<1>6. \A h \in Hosts : hpc[h] \in {"destroy", "spin"} => arg[h].stream \in AllStreams
  BY DEF Exclusive, AllStreams
<1> QED BY <1>1, <1>2, <1>3, <1>4, <1>5, <1>6 DEF Exclusive, host

\* A step of the one host that is not inside a blocking push() and queues
\* nothing keeps stream zero empty; NewPc lists where it may go.
LEMMA ExclusiveQuiet ==
    ASSUME SingleHost, TypeOK, Exclusive, NEW h \in Hosts, hpc[h] # "drain",
           UNCHANGED m_operations, hpc'[h] # "drain",
           ~(hpc'[h] = "enqueue" /\ Blocks(arg'[h].stream)),
           hpc'[h] \in {"streamsync", "destroy", "spin"} => arg'[h].stream \in Streams,
           hpc'[h] \in {"destroy", "spin"} => m_operations[arg'[h].stream] = <<>>
    PROVE  Exclusive'
<1>1. m_operations[Zero] = <<>>
  BY DEF Exclusive, SingleHost
<1>2. \A g \in Hosts : g = h
  BY DEF SingleHost
<1>3. \A g \in Hosts : Blocks(arg[g].stream)' <=> Blocks(arg'[g].stream)
  BY DEF Blocks
<1> QED BY <1>1, <1>2, <1>3 DEF Exclusive

LEMMA ExclusivePush ==
    ASSUME SingleHost, TypeOK, Exclusive, NEW h \in Hosts, hpc[h] # "drain",
           UNCHANGED m_operations, NEW s, NEW op, Push(h, s, op)
    PROVE  Exclusive'
<1>1. arg'[h].stream = s /\ hpc'[h] = IF Blocks(s) THEN "block" ELSE "enqueue"
  BY DEF Push, TypeOK, Call
<1> QED BY <1>1, ExclusiveQuiet

\* push() returns when the queues are empty, or its stream is not zero.
LEMMA ExclusiveReturns ==
    ASSUME SingleHost, TypeOK, Exclusive, NEW h \in Hosts, Returns(h),
           m_operations'[Zero] = <<>>
    PROVE  Exclusive'
<1>1. hpc'[h] \in {"idle", "pushall"}
  BY DEF Returns, TypeOK
<1>2. \A g \in Hosts : g = h
  BY DEF SingleHost
<1> QED BY <1>1, <1>2 DEF Exclusive

LEMMA ExclusiveHost ==
    ASSUME StreamManagerAssumption, SingleHost, TypeOK, Exclusive, NEW h \in Hosts, Named(h),
           HostCall(h) \/ HostStep(h)
    PROVE  Exclusive'
<1> USE DEF Idle, host
<1>1. CASE StreamCreate(h)
  <2>1. hpc[h] = "idle" /\ UNCHANGED <<host, m_operations>>
    BY <1>1 DEF StreamCreate
  <2> QED BY <2>1, ExclusiveQuiet
<1>2. CASE \/ \E type : LaunchOrCopy(h, type)
           \/ EventRecord(h) \/ StreamWaitEvent(h)
  <2>1. hpc[h] = "idle" /\ UNCHANGED m_operations /\ \E s, op : Push(h, s, op)
    BY <1>2 DEF LaunchOrCopy, EventRecord, StreamWaitEvent
  <2> QED BY <2>1, ExclusivePush
<1>3. CASE \/ WaitAll(h) \/ Synchronize(h) \/ EventSynchronize(h) \/ ThreadExit(h)
           \/ SynchronizeStream(h) \/ SyncLock(h) \/ SyncWalk(h) \/ EventDone(h)
           \/ ExitSignaled(h) \/ StreamReturn(h) \/ DestroyErase(h)
  <2>1. UNCHANGED m_operations /\ hpc[h] # "drain"
    BY <1>3 DEF WaitAll, Synchronize, EventSynchronize, ThreadExit, SynchronizeStream,
                SyncLock, SyncWalk, EventDone, ExitSignaled, StreamReturn, DestroyErase
  <2>2. hpc'[h] \in {"pushall", "sync", "eventsync", "waitexit", "streamreturn", "syncwalk",
                     "idle", "gone"}
    BY <1>3 DEF WaitAll, Synchronize, EventSynchronize, ThreadExit, SynchronizeStream,
                SyncLock, SyncWalk, EventDone, ExitSignaled, StreamReturn, DestroyErase, TypeOK
  <2> QED BY <2>1, <2>2, ExclusiveQuiet
<1>4. CASE StreamDestroy(h)
  <2>1. hpc[h] = "idle" /\ UNCHANGED m_operations /\ hpc'[h] = "streamsync"
    BY <1>4 DEF StreamDestroy, TypeOK
  <2>2. arg'[h].stream \in Streams
    BY <1>4, LiveStreams DEF StreamDestroy, TypeOK, Call
  <2> QED BY <2>1, <2>2, ExclusiveQuiet
<1>5. CASE StreamSynchronized(h) \/ DestroyLock(h)
  <2>1. /\ hpc[h] \in {"streamsync", "destroy"} /\ hpc'[h] \in {"destroy", "spin"}
        /\ UNCHANGED <<m_operations, arg>>
    BY <1>5 DEF StreamSynchronized, DestroyLock, TypeOK
  <2>2. m_operations[arg[h].stream] = <<>>
    BY <1>5 DEF StreamSynchronized, DestroyLock, Exclusive
  <2> QED BY <2>1, <2>2, ExclusiveQuiet DEF Exclusive
<1>6. CASE PushAllStep(h)
  <2>1. hpc[h] # "drain" /\ UNCHANGED m_operations
    BY <1>6 DEF PushAllStep
  <2>2. CASE walkall[h] = Zero
    <3>1. hpc'[h] = "idle"
      BY <1>6, <2>2 DEF PushAllStep, TypeOK
    <3> QED BY <2>1, <3>1, ExclusiveQuiet
  <2>3. CASE walkall[h] # Zero
    <3>1. \E s, op : Push(h, s, op)
      BY <1>6, <2>3 DEF PushAllStep
    <3> QED BY <2>1, <3>1, ExclusivePush
  <2> QED BY <2>2, <2>3
<1>7. CASE BlockEnds(h)
  <2>1. /\ hpc[h] = "block" /\ hpc'[h] = "enqueue" /\ ConcurrentStreamsEmpty
        /\ UNCHANGED <<m_operations, m_streams>>
    BY <1>7 DEF BlockEnds, manager, TypeOK
  <2>2. ConcurrentStreamsEmpty'
    BY <2>1 DEF ConcurrentStreamsEmpty, Live
  <2>3. m_operations[Zero] = <<>>
    BY <2>1 DEF Exclusive, SingleHost
  <2>4. \A g \in Hosts : g = h
    BY DEF SingleHost
  <2> QED BY <2>1, <2>2, <2>3, <2>4 DEF Exclusive
<1>8. CASE Enqueue(h)
  <2>1. hpc[h] = "enqueue" /\ UNCHANGED m_streams /\ Live' = Live
    BY <1>8 DEF Enqueue, manager, Live
  <2>2. m_operations[Zero] = <<>>
    BY <2>1 DEF Exclusive, SingleHost
  <2>3. Zero \in AllStreams /\ Live \subseteq AllStreams \ {Zero}
    BY LiveStreams DEF AllStreams, StreamManagerAssumption, TypeOK
  <2>4. CASE Blocks(arg[h].stream)
    <3>1. \A s \in Live : m_operations'[s] = m_operations[s]
      BY <1>8, <2>3, <2>4 DEF Enqueue, Queue, TypeOK
    <3>2. ConcurrentStreamsEmpty
      BY <2>1, <2>4 DEF Exclusive
    <3>3. ConcurrentStreamsEmpty'
      BY <2>1, <3>1, <3>2 DEF ConcurrentStreamsEmpty
    <3>4. hpc'[h] = "drain"
      BY <1>8, <2>4 DEF Enqueue, TypeOK
    <3>5. \A g \in Hosts : g = h
      BY DEF SingleHost
    <3> QED BY <3>3, <3>4, <3>5 DEF Exclusive
  <2>5. CASE ~Blocks(arg[h].stream)
    <3>1. Returns(h)
      BY <1>8, <2>5 DEF Enqueue
    <3>2. arg[h].stream # Zero
      BY <2>1, <2>3, <2>5 DEF Named, Blocks
    <3>3. m_operations'[Zero] = m_operations[Zero]
      BY <1>8, <2>3, <2>5, <3>2 DEF Enqueue, Queue, TypeOK
    <3> QED BY <2>2, <3>1, <3>3, ExclusiveReturns
  <2> QED BY <2>4, <2>5
<1>9. CASE Drain(h)
  <2>1. UNCHANGED <<m_operations, m_streams>> /\ Live' = Live /\ hpc[h] = "drain"
    BY <1>9 DEF Drain, manager, Live
  <2>2. CASE UNCHANGED <<hpc, arg>>
    <3>1. ConcurrentStreamsEmpty' = ConcurrentStreamsEmpty
      BY <2>1 DEF ConcurrentStreamsEmpty
    <3>2. \A g \in Hosts : Blocks(arg[g].stream)' = Blocks(arg[g].stream)
      BY <2>2 DEF Blocks
    <3> QED BY <2>1, <2>2, <3>1, <3>2 DEF Exclusive
  <2>3. CASE m_operations[Zero] = <<>> /\ Returns(h)
    BY <2>1, <2>3, ExclusiveReturns
  <2> QED BY <1>9, <2>2, <2>3 DEF Drain
<1> QED BY <1>1, <1>2, <1>3, <1>4, <1>5, <1>6, <1>7, <1>8, <1>9 DEF HostCall, HostStep

-----------------------------------------------------------------------------
(* The list, for any hosts; the names, if no thread erases a stream another *)
(* may be looking at; exclusion, for one host.                              *)

ListInv  == IInv /\ ListSound
NamedInv == ListInv /\ StreamsNamed
HostInv  == NamedInv /\ Exclusive

LEMMA InitStreams ==
    ASSUME StreamManagerAssumption, Init PROVE HostInv
<1> USE DEF Init
<1>1. IInv
  BY InitIInv
<1>2. Live = {}
  BY DEF Live
<1>3. ListSound
  BY <1>2 DEF ListSound, LastStreamValid
<1>4. StreamsNamed
  BY DEF StreamsNamed, DeadEmpty, Named, AllStreams
<1>5. Exclusive
  BY DEF Exclusive, AllStreams
<1> QED BY <1>1, <1>3, <1>4, <1>5 DEF HostInv, NamedInv, ListInv

LEMMA NextList ==
    ASSUME StreamManagerAssumption, ListInv, [Next]_vars PROVE ListInv'
<1>1. IInv'
  BY NextIInv DEF ListInv
<1>2. CASE SimStep
  BY <1>1, <1>2, ListSoundSim DEF ListInv, IInv
<1>3. ASSUME NEW h \in Hosts, HostCall(h) \/ HostStep(h) PROVE ListInv'
  BY <1>1, <1>3, ListSoundHost DEF ListInv, IInv
<1>4. CASE UNCHANGED vars
  BY <1>1, <1>4 DEF ListInv, ListSound, LastStreamValid, Live, vars, manager
<1> QED BY <1>2, <1>3, <1>4 DEF Next

LEMMA NextNamed ==
    ASSUME StreamManagerAssumption, KeptStreams, NamedInv, [Next]_vars PROVE NamedInv'
<1>1. ListInv'
  BY NextList DEF NamedInv
<1>2. CASE SimStep
  BY <1>1, <1>2, StreamsNamedSim DEF NamedInv, ListInv, IInv
<1>3. ASSUME NEW h \in Hosts, HostCall(h) \/ HostStep(h) PROVE NamedInv'
  BY <1>1, <1>3, StreamsNamedHost DEF NamedInv, ListInv, IInv
<1>4. CASE UNCHANGED vars
  BY <1>1, <1>4 DEF NamedInv, StreamsNamed, DeadEmpty, Named, Live, vars, manager, host
<1> QED BY <1>2, <1>3, <1>4 DEF Next

LEMMA NextExclusive ==
    ASSUME StreamManagerAssumption, SingleHost, HostInv, [Next]_vars PROVE HostInv'
<1>1. NamedInv'
  BY NextNamed DEF HostInv, KeptStreams
<1>2. CASE SimStep
  BY <1>1, <1>2, ExclusiveSim DEF HostInv, NamedInv, ListInv, IInv
<1>3. ASSUME NEW h \in Hosts, HostCall(h) \/ HostStep(h) PROVE HostInv'
  BY <1>1, <1>3, ExclusiveHost DEF HostInv, NamedInv, ListInv, IInv, StreamsNamed
<1>4. CASE UNCHANGED vars
  <2>1. UNCHANGED <<m_operations, m_streams, hpc, arg>>
    BY <1>4 DEF vars, manager, host
  <2>2. \A h \in Hosts : Blocks(arg[h].stream)' = Blocks(arg[h].stream)
    BY <2>1 DEF Blocks
  <2>3. ConcurrentStreamsEmpty' = ConcurrentStreamsEmpty
    BY <2>1 DEF ConcurrentStreamsEmpty, Live
  <2> QED BY <1>1, <2>1, <2>2, <2>3 DEF HostInv, Exclusive
<1> QED BY <1>2, <1>3, <1>4 DEF Next

\* The round-robin iterator of front() is always end() or a stream of the list,
\* for any hosts that create and destroy streams (stream_manager.cc:336-346, 380).
THEOREM IteratorValid ==
    ASSUME StreamManagerAssumption PROVE Spec => []LastStreamValid
<1>1. Init => ListInv
  BY InitStreams DEF HostInv, NamedInv
<1>2. ListInv /\ [Next]_vars => ListInv'
  BY NextList
<1>3. ListInv => LastStreamValid
  BY DEF ListInv, ListSound
<1> QED BY <1>1, <1>2, <1>3, PTL DEF Spec

\* With one host thread no operation of stream zero is ever queued together
\* with one of a concurrent stream (stream_manager.cc:434-443), whatever the
\* numbers of streams and calls.  Two hosts can break it: run SMzero.
THEOREM DefaultExclusive ==
    ASSUME StreamManagerAssumption, SingleHost PROVE Spec => []DefaultStreamExclusive
<1>1. Init => HostInv
  BY InitStreams
<1>2. HostInv /\ [Next]_vars => HostInv'
  BY NextExclusive
<1>3. HostInv => DefaultStreamExclusive
  BY DEF HostInv, Exclusive, DefaultStreamExclusive
<1> QED BY <1>1, <1>2, <1>3, PTL DEF Spec

\* With one host thread destroy_stream never spins with m_lock for a stream
\* that the simulation thread would have to empty (cuda_runtime_api.cc:2018-2022).
THEOREM DestroyNeverSpins ==
    ASSUME StreamManagerAssumption, SingleHost PROVE Spec => []DestroyFindsStreamEmpty
<1>1. Init => HostInv
  BY InitStreams
<1>2. HostInv /\ [Next]_vars => HostInv'
  BY NextExclusive
<1>3. HostInv => DestroyFindsStreamEmpty
  BY DEF HostInv, Exclusive, DestroyFindsStreamEmpty
<1> QED BY <1>1, <1>2, <1>3, PTL DEF Spec

-----------------------------------------------------------------------------
(* Blocking calls.                                                          *)

Distinct == \A i, j \in 1..Len(m_streams) : m_streams[i] = m_streams[j] => i = j

\* A walk starts with nothing behind it.
LEMMA FirstPrecedes ==
    ASSUME StreamManagerAssumption, m_streams \in Seq(Streams), Distinct, NEW t \in Live
    PROVE  ~Precedes(t, First)
<1>1. m_streams # <<>>
  BY DEF Live
<1>2. First = m_streams[1] /\ 1 \in 1..Len(m_streams) /\ First \in Streams
  BY <1>1 DEF First
<1>3. First # Zero
  BY <1>2 DEF StreamManagerAssumption
<1> QED BY <1>2, <1>3 DEF Precedes, Distinct

\* ++ leaves one more stream behind, the one the walk was at.
LEMMA AfterPrecedes ==
    ASSUME StreamManagerAssumption, m_streams \in Seq(Streams), Distinct,
           NEW w \in Live, NEW v \in After(w), NEW t \in Live, Precedes(t, v)
    PROVE  t = w \/ Precedes(t, w)
<1> DEFINE n == CHOOSE i \in 1..Len(m_streams) : m_streams[i] = w
<1>1. n \in 1..Len(m_streams) /\ m_streams[n] = w
  BY DEF Live
<1>2. PICK k \in 1..Len(m_streams) : m_streams[k] = t
  BY DEF Live
<1> HIDE DEF n
<1>3. CASE m_streams[Len(m_streams)] = w
  <2>1. n = Len(m_streams)
    BY <1>1, <1>3 DEF Distinct
  <2>2. k = n \/ k < n
    BY <1>1, <1>2, <2>1
  <2> QED BY <1>1, <1>2, <2>2 DEF Precedes
<1>4. CASE m_streams[Len(m_streams)] # w
  <2>1. v = m_streams[n + 1] /\ n + 1 \in 1..Len(m_streams)
    BY <1>1, <1>4 DEF After, n
  <2>2. v # Zero
    BY <2>1 DEF StreamManagerAssumption
  <2>3. PICK i \in 1..Len(m_streams), j \in 1..Len(m_streams) :
            i < j /\ m_streams[i] = t /\ m_streams[j] = v
    BY <2>2 DEF Precedes
  <2>4. j = n + 1
    BY <2>1, <2>3 DEF Distinct
  <2>5. i = n \/ i < n
    BY <1>1, <2>3, <2>4
  <2> QED BY <1>1, <2>3, <2>5 DEF Precedes
<1> QED BY <1>3, <1>4

LEMMA IdsShrink ==
    ASSUME StreamManagerAssumption, TypeOK, Bookkeeping, SimStep, NEW s \in AllStreams
    PROVE  Ids(s)' \subseteq Ids(s)
<1>1. PICK S \in SUBSET AllStreams : Serves(S)
  BY SimServes
<1>2. CASE s \in S
  <2>1. m_operations[s] # <<>> /\ m_operations'[s] = Tail(m_operations[s])
    BY <1>1, <1>2 DEF Serves, Popped
  <2>2. m_operations[s] \in Seq(Operations)
    BY DEF TypeOK
  <2>3. \A i \in 1..Len(m_operations'[s]) :
           i + 1 \in 1..Len(m_operations[s]) /\ m_operations'[s][i] = m_operations[s][i + 1]
    BY <2>1, <2>2, TailElements
  <2> QED BY <2>3 DEF Ids
<1>3. CASE s \notin S
  <2>1. Accepted'[s] = Accepted[s]
    BY <1>1, <1>3 DEF Serves
  <2>2. Ids(s) = {Accepted[s][i].id : i \in DOMAIN Accepted[s]}
    BY DEF Ids, Accepted, Stamp
  <2>3. Ids(s)' = {Accepted'[s][i].id : i \in DOMAIN Accepted'[s]}
    BY DEF Ids, Accepted, Stamp
  <2> QED BY <2>1, <2>2, <2>3
<1> QED BY <1>2, <1>3

LEMMA OutstandingBounded ==
    ASSUME TypeOK, IdsBounded
    PROVE  /\ \A k \in Outstanding : k <= nops
           /\ \A s \in AllStreams : \A k \in Ids(s) : k <= nops
BY DEF Outstanding, Ids, IdsBounded

LEMMA WalksBehindSim ==
    ASSUME StreamManagerAssumption, TypeOK, Bookkeeping, WalksBehind, SimStep
    PROVE  WalksBehind'
<1>1. UNCHANGED <<m_streams, nops, host>> /\ Live' = Live
  BY SimFrame DEF Live
<1>2. \A s \in Live : Ids(s)' \subseteq Ids(s)
  BY IdsShrink, LiveStreams DEF TypeOK, AllStreams
<1>3. \A s, w : Precedes(s, w)' <=> Precedes(s, w)
  BY <1>1 DEF Precedes
<1>4. \A h \in Hosts : due'[h] = due[h] /\ hpc'[h] = hpc[h] /\ walk'[h] = walk[h]
  BY <1>1 DEF host
<1>5. ASSUME NEW h \in Hosts, hpc'[h] \in {"drain", "syncwalk"}, NEW s \in Live',
             Precedes(s, walk[h])'
      PROVE  due'[h] \cap Ids(s)' = {}
  <2>1. Precedes(s, walk[h])
    BY <1>1, <1>4, <1>5 DEF Precedes
  <2>2. due[h] \cap Ids(s) = {}
    BY <1>1, <1>4, <1>5, <2>1 DEF WalksBehind
  <2> QED BY <1>1, <1>2, <1>4, <2>2
<1>6. \A h \in Hosts : \A k \in due'[h] : k <= nops'
  BY <1>1, <1>4 DEF WalksBehind
<1> QED BY <1>5, <1>6 DEF WalksBehind

\* A new stream goes behind no walk, but for one that has reached stream zero,
\* and it holds nothing.
LEMMA WalksBehindCreate ==
    ASSUME StreamManagerAssumption, TypeOK, ListSound, ListSound', StreamsNamed, WalksBehind,
           NEW h \in Hosts, StreamCreate(h)
    PROVE  WalksBehind'
<1>1. PICK s \in Streams \ created :
         created' = created \cup {s} /\ m_streams' = Append(m_streams, s) /\ Live' = Live \cup {s}
  BY CreateGrows
<1>2. UNCHANGED <<m_operations, nops, hpc, walk, due>>
  BY DEF StreamCreate, host
<1>3. \A t : Ids(t)' = Ids(t)
  BY <1>2 DEF Ids
<1>4. Ids(s) = {}
  <2>1. m_operations[s] = <<>>
    BY <1>1 DEF ListSound, StreamsNamed, DeadEmpty
  <2> QED BY <2>1 DEF Ids
<1>5. ASSUME NEW g \in Hosts, hpc[g] \in {"drain", "syncwalk"}, NEW t \in Live,
             Precedes(t, walk[g])'
      PROVE  Precedes(t, walk[g])
  <2>1. CASE walk[g] = Zero
    BY <2>1 DEF Precedes
  <2>2. CASE walk[g] # Zero
    <3>1. PICK n \in 1..Len(m_streams) : m_streams[n] = walk[g]
      BY <1>5, <2>2 DEF StreamsNamed, Named, Live
    <3>2. PICK i \in 1..Len(m_streams'), j \in 1..Len(m_streams') :
              i < j /\ m_streams'[i] = t /\ m_streams'[j] = walk[g]
      BY <1>2, <1>5, <2>2 DEF Precedes
    <3>3. /\ Len(m_streams') = Len(m_streams) + 1
          /\ \A k \in 1..Len(m_streams) : m_streams'[k] = m_streams[k]
      BY <1>1 DEF TypeOK
    <3>4. n \in 1..Len(m_streams') /\ m_streams'[n] = walk[g]
      BY <3>1, <3>3 DEF TypeOK
    <3>5. j = n
      BY <3>2, <3>4 DEF ListSound
    <3>6. i \in 1..Len(m_streams) /\ m_streams[i] = t
      BY <3>2, <3>3, <3>5
    <3> QED BY <3>1, <3>2, <3>5, <3>6 DEF Precedes
  <2> QED BY <2>1, <2>2
<1>6. ASSUME NEW g \in Hosts, hpc'[g] \in {"drain", "syncwalk"}, NEW t \in Live',
             Precedes(t, walk[g])'
      PROVE  due'[g] \cap Ids(t)' = {}
  <2>1. CASE t = s
    BY <1>3, <1>4, <2>1
  <2>2. CASE t # s
    <3>1. t \in Live /\ Precedes(t, walk[g])'
      BY <1>1, <1>2, <1>6, <2>2 DEF Precedes
    <3>2. due[g] \cap Ids(t) = {}
      BY <1>2, <1>5, <1>6, <3>1 DEF WalksBehind
    <3> QED BY <1>2, <1>3, <3>2
  <2> QED BY <2>1, <2>2
<1>7. \A g \in Hosts : \A k \in due'[g] : k <= nops'
  BY <1>2 DEF WalksBehind
<1> QED BY <1>6, <1>7 DEF WalksBehind

\* It is enough to look at the host that moves, if the others' queues only
\* shrink or get younger operations.
LEMMA WalksBehindOthers ==
    ASSUME TypeOK, WalksBehind, NEW h \in Hosts, UNCHANGED m_streams, Live' = Live,
           nops' \in {nops, nops + 1},
           \A s \in AllStreams : Ids(s)' \subseteq Ids(s) \cup {nops + 1},
           \A g \in Hosts : g # h =>
               hpc'[g] = hpc[g] /\ walk'[g] = walk[g] /\ due'[g] = due[g],
           \A k \in due'[h] : k <= nops',
           \/ hpc'[h] \notin {"drain", "syncwalk"}
           \/ \A s \in Live : Precedes(s, walk[h])' => due'[h] \cap Ids(s)' = {}
    PROVE  WalksBehind'
<1>1. nops \in Nat /\ nops <= nops'
  BY DEF TypeOK
<1>2. ASSUME NEW g \in Hosts, g # h
      PROVE  /\ \A k \in due'[g] : k <= nops'
             /\ hpc'[g] \in {"drain", "syncwalk"} =>
                   \A s \in Live' : Precedes(s, walk[g])' => due'[g] \cap Ids(s)' = {}
  <2>1. due'[g] = due[g] /\ \A k \in due[g] : k <= nops /\ k \in Nat
    BY <1>2 DEF WalksBehind, TypeOK
  <2>2. ASSUME hpc'[g] \in {"drain", "syncwalk"}, NEW s \in Live, Precedes(s, walk[g])'
        PROVE  due[g] \cap Ids(s)' = {}
    <3>1. Precedes(s, walk[g])
      BY <1>2, <2>2 DEF Precedes
    <3>2. due[g] \cap Ids(s) = {}
      BY <1>2, <2>2, <3>1 DEF WalksBehind
    <3>3. s \in AllStreams
      BY LiveStreams DEF TypeOK, AllStreams
    <3>4. nops + 1 \notin due[g]
      BY <1>1, <2>1
    <3> QED BY <3>2, <3>3, <3>4
  <2> QED BY <1>1, <2>1, <2>2
<1> QED BY <1>2 DEF WalksBehind

\* push() queues an operation younger than anything a call waits for.
LEMMA WalksBehindEnqueue ==
    ASSUME StreamManagerAssumption, TypeOK, TypeOK', Bookkeeping, Bookkeeping', ListSound,
           WalksBehind, NEW h \in Hosts, Enqueue(h)
    PROVE  WalksBehind'
<1>1. UNCHANGED m_streams /\ Live' = Live /\ hpc[h] = "enqueue"
  BY DEF Enqueue, manager, Live
<1>2. nops' \in {nops, nops + 1} /\ nops \in Nat
  BY DEF Enqueue, TypeOK
<1>3. \A s \in AllStreams : Ids(s)' \subseteq Ids(s) \cup {nops + 1}
  <2>1. CASE limit_hit
    BY <2>1 DEF Enqueue, Ids
  <2>2. CASE ~limit_hit
    <3>1. m_operations' = [m_operations EXCEPT ![Queue(h)] = Append(@, Queued(h))]
      BY <2>2 DEF Enqueue
    <3>2. Queued(h).id = nops + 1
      BY DEF Queued, Stamp
    <3>3. ASSUME NEW s \in AllStreams, NEW i \in 1..Len(m_operations'[s])
          PROVE  m_operations'[s][i].id \in Ids(s) \cup {nops + 1}
      <4>1. CASE s # Queue(h)
        <5>1. m_operations'[s] = m_operations[s]
          BY <3>1, <4>1 DEF TypeOK
        <5> QED BY <3>3, <5>1 DEF Ids
      <4>2. CASE s = Queue(h)
        <5>1. m_operations'[s] = Append(m_operations[s], Queued(h)) /\ m_operations[s] \in Seq(Operations)
          BY <3>1, <4>2 DEF TypeOK
        <5>2. \/ i \in 1..Len(m_operations[s]) /\ m_operations'[s][i] = m_operations[s][i]
              \/ m_operations'[s][i] = Queued(h)
          BY <3>3, <5>1
        <5> QED BY <3>2, <5>2 DEF Ids
      <4> QED BY <4>1, <4>2
    <3> QED BY <3>3 DEF Ids
  <2> QED BY <2>1, <2>2
<1>4. CASE Blocks(arg[h].stream)
  <2>1. hpc'[h] = "drain" /\ walk'[h] = First /\ due'[h] = Outstanding'
    BY <1>4 DEF Enqueue, TypeOK
  <2>2. \A k \in due'[h] : k <= nops'
    BY <2>1, OutstandingBounded DEF Bookkeeping, Outstanding, IdsBounded
  <2>3. \A s \in Live : ~Precedes(s, walk[h])'
    <3>1. ASSUME NEW s \in Live PROVE ~Precedes(s, First)
      BY FirstPrecedes DEF ListSound, Distinct, TypeOK
    <3> QED BY <1>1, <2>1, <3>1 DEF Precedes
  <2>4. ASSUME NEW g \in Hosts, g # h
        PROVE  hpc'[g] = hpc[g] /\ walk'[g] = walk[g] /\ due'[g] = due[g]
    BY <2>4, OtherHosts DEF HostStep
  <2> QED BY <1>1, <1>2, <1>3, <2>1, <2>2, <2>3, <2>4, WalksBehindOthers
<1>5. CASE ~Blocks(arg[h].stream)
  <2>1. hpc'[h] \in {"idle", "pushall"} /\ UNCHANGED <<walk, due>>
    BY <1>5 DEF Enqueue, Returns, TypeOK
  <2>2. \A k \in due'[h] : k <= nops'
    BY <1>2, <2>1 DEF WalksBehind, TypeOK
  <2>3. ASSUME NEW g \in Hosts, g # h
        PROVE  hpc'[g] = hpc[g] /\ walk'[g] = walk[g] /\ due'[g] = due[g]
    BY <2>3, OtherHosts DEF HostStep
  <2> QED BY <1>1, <1>2, <1>3, <2>1, <2>2, <2>3, WalksBehindOthers
<1> QED BY <1>4, <1>5

\* The steps that queue nothing and leave the list alone.
LEMMA WalksBehindQuiet ==
    ASSUME StreamManagerAssumption, TypeOK, Bookkeeping, ListSound, StreamsNamed, WalksBehind,
           NEW h \in Hosts, HostCall(h) \/ HostStep(h),
           ~StreamCreate(h), ~DestroyErase(h), ~Enqueue(h)
    PROVE  WalksBehind'
<1>1. UNCHANGED <<m_streams, m_operations, nops>> /\ Live' = Live
  BY HostListFrame, HostFrame DEF listvars, bookvars, Live
<1>2. \A s \in AllStreams : Ids(s)' \subseteq Ids(s)
  BY <1>1 DEF Ids
<1>3. ASSUME NEW g \in Hosts, g # h
      PROVE  hpc'[g] = hpc[g] /\ walk'[g] = walk[g] /\ due'[g] = due[g]
  BY <1>3, OtherHosts
<1>4. ASSUME \A k \in due'[h] : k <= nops,
             \/ hpc'[h] \notin {"drain", "syncwalk"}
             \/ \A s \in Live : Precedes(s, walk[h])' => due'[h] \cap Ids(s) = {}
      PROVE  WalksBehind'
  <2>1. \A s \in Live : s \in AllStreams
    BY LiveStreams DEF TypeOK, AllStreams
  <2>2. nops \in Nat
    BY DEF TypeOK
  <2> QED BY <1>1, <1>2, <1>3, <1>4, <2>1, <2>2, WalksBehindOthers
<1>5. \A s \in Live : \A w : Precedes(s, w)' <=> Precedes(s, w)
  BY <1>1 DEF Precedes
<1>6. \A s \in Live : ~Precedes(s, First)
  BY FirstPrecedes DEF ListSound, Distinct, TypeOK
<1>7. ASSUME hpc'[h] \notin {"drain", "syncwalk"}, due'[h] = due[h] \/ due'[h] = {}
      PROVE  WalksBehind'
  BY <1>4, <1>7 DEF WalksBehind
<1>8. ASSUME walk'[h] = First, due'[h] = due[h]
      PROVE  WalksBehind'
  <2>1. \A s \in Live : ~Precedes(s, walk[h])'
    BY <1>1, <1>6, <1>8 DEF Precedes
  <2> QED BY <1>4, <1>8, <2>1 DEF WalksBehind
<1>9. ASSUME hpc[h] \in {"drain", "syncwalk"}, walk[h] # Zero, m_operations[walk[h]] = <<>>,
             walk'[h] \in After(walk[h]), due'[h] = due[h]
      PROVE  WalksBehind'
  <2>1. walk[h] \in Live
    BY <1>9 DEF StreamsNamed, Named
  <2>2. ASSUME NEW s \in Live, Precedes(s, walk[h])'
        PROVE  due[h] \cap Ids(s) = {}
    <3>1. Precedes(s, walk'[h])
      BY <1>1, <2>2 DEF Precedes
    <3>2. s = walk[h] \/ Precedes(s, walk[h])
      BY <1>9, <2>1, <3>1, AfterPrecedes DEF ListSound, Distinct, TypeOK
    <3>3. Ids(walk[h]) = {}
      BY <1>9 DEF Ids
    <3> QED BY <1>9, <3>2, <3>3 DEF WalksBehind
  <2> QED BY <1>4, <1>9, <2>2 DEF WalksBehind
<1>10. CASE HostCall(h) /\ ~Synchronize(h) /\ ~SynchronizeStream(h)
  <2>1. hpc'[h] \notin {"drain", "syncwalk"} /\ due' = due
    BY <1>10 DEF HostCall, LaunchOrCopy, EventRecord, StreamWaitEvent, WaitAll, EventSynchronize,
                 StreamDestroy, ThreadExit, Push, TypeOK
  <2> QED BY <1>7, <2>1
<1>11. CASE Synchronize(h) \/ SynchronizeStream(h)
  <2>1. hpc'[h] \in {"sync", "streamreturn"}
    BY <1>11 DEF Synchronize, SynchronizeStream, TypeOK
  <2>2. due'[h] = Outstanding \/ \E s \in Live : due'[h] = Ids(s)
    BY <1>11 DEF Synchronize, SynchronizeStream, Ids, TypeOK
  <2>3. \A k \in due'[h] : k <= nops
    BY <2>2, OutstandingBounded, LiveStreams DEF Bookkeeping, TypeOK, AllStreams
  <2> QED BY <1>4, <2>1, <2>3
<1>12. CASE \/ PushAllStep(h) \/ BlockEnds(h) \/ EventDone(h) \/ StreamSynchronized(h)
            \/ DestroyLock(h) \/ ExitSignaled(h) \/ StreamReturn(h)
  <2>1. hpc'[h] \notin {"drain", "syncwalk"} /\ (due'[h] = due[h] \/ due'[h] = {})
    BY <1>12 DEF PushAllStep, BlockEnds, EventDone, StreamSynchronized, DestroyLock, ExitSignaled,
                 StreamReturn, Push, TypeOK
  <2> QED BY <1>7, <2>1
<1>13. CASE Drain(h)
  <2>1. CASE walk' = [walk EXCEPT ![h] = First] /\ due' = due
    BY <1>8, <2>1 DEF TypeOK
  <2>2. CASE /\ m_operations[walk[h]] = <<>> /\ walk[h] # Zero /\ due' = due
             /\ \E s \in After(walk[h]) : walk' = [walk EXCEPT ![h] = s]
    BY <1>9, <1>13, <2>2 DEF Drain, TypeOK
  <2>3. CASE due' = [due EXCEPT ![h] = {}] /\ Returns(h)
    <3>1. hpc'[h] \notin {"drain", "syncwalk"} /\ due'[h] = {}
      BY <2>3 DEF Returns, TypeOK
    <3> QED BY <1>7, <3>1
  <2> QED BY <1>13, <2>1, <2>2, <2>3 DEF Drain
<1>14. CASE SyncLock(h)
  <2>1. walk'[h] = First /\ due'[h] = due[h]
    BY <1>14 DEF SyncLock, TypeOK
  <2> QED BY <1>8, <2>1
<1>15. CASE SyncWalk(h)
  <2>1. CASE /\ m_operations[walk[h]] = <<>> /\ walk[h] # Zero /\ due' = due
             /\ \E s \in After(walk[h]) : walk' = [walk EXCEPT ![h] = s]
    BY <1>9, <1>15, <2>1 DEF SyncWalk, TypeOK
  <2>2. CASE hpc'[h] \in {"idle", "sync"} /\ (due'[h] = due[h] \/ due'[h] = {})
    BY <1>7, <2>2
  <2> QED BY <1>15, <2>1, <2>2 DEF SyncWalk, TypeOK
<1> QED BY <1>10, <1>11, <1>12, <1>13, <1>14, <1>15 DEF HostStep

LEMMA WalksBehindHost ==
    ASSUME StreamManagerAssumption, KeptStreams, NamedInv, NamedInv', WalksBehind,
           NEW h \in Hosts, HostCall(h) \/ HostStep(h)
    PROVE  WalksBehind'
<1> USE DEF NamedInv, ListInv, IInv
<1>1. CASE StreamCreate(h)
  BY <1>1, WalksBehindCreate
<1>2. CASE Enqueue(h)
  BY <1>2, WalksBehindEnqueue
<1>3. CASE DestroyErase(h)
  <2>1. hpc'[h] = "idle" /\ UNCHANGED <<due, nops>> /\ hpc[h] = "spin"
    BY <1>3 DEF DestroyErase, TypeOK
  <2>2. \A g \in Hosts : g = h
    BY <2>1 DEF KeptStreams, SingleHost, StreamsNamed, Named
  <2> QED BY <2>1, <2>2 DEF WalksBehind
<1>4. CASE ~StreamCreate(h) /\ ~DestroyErase(h) /\ ~Enqueue(h)
  BY <1>4, WalksBehindQuiet
<1> QED BY <1>1, <1>2, <1>3, <1>4

WaitInv == NamedInv /\ WalksBehind

LEMMA NextWait ==
    ASSUME StreamManagerAssumption, KeptStreams, WaitInv, [Next]_vars PROVE WaitInv'
<1>1. NamedInv'
  BY NextNamed DEF WaitInv
<1>2. CASE SimStep
  BY <1>1, <1>2, WalksBehindSim DEF WaitInv, NamedInv, ListInv, IInv
<1>3. ASSUME NEW h \in Hosts, HostCall(h) \/ HostStep(h) PROVE WaitInv'
  BY <1>1, <1>3, WalksBehindHost DEF WaitInv
<1>4. CASE UNCHANGED vars
  <2>1. UNCHANGED <<m_operations, m_streams, nops, hpc, walk, due>> /\ Live' = Live
    BY <1>4 DEF vars, manager, host, Live
  <2>2. \A s : Ids(s)' = Ids(s)
    BY <2>1 DEF Ids
  <2>3. \A h \in Hosts, s \in Live : Precedes(s, walk[h])' <=> Precedes(s, walk[h])
    BY <2>1 DEF Precedes
  <2> QED BY <1>1, <2>1, <2>2, <2>3 DEF WaitInv, WalksBehind
<1> QED BY <1>2, <1>3, <1>4 DEF Next

\* Only the end of its walk, or of the simulation, ends a blocking call.
LEMMA WalkEnds ==
    ASSUME TypeOK, NEW h \in Hosts, HostCall(h) \/ HostStep(h), NEW g \in Hosts,
           hpc[g] \in {"drain", "syncwalk"}, hpc'[g] \in {"idle", "pushall"}
    PROVE  \/ walk[g] = Zero /\ m_operations[Zero] = <<>>
           \/ g_sim_done /\ hpc[g] = "syncwalk"
<1>1. g = h
  BY OtherHosts
<1>2. CASE Drain(h)
  BY <1>1, <1>2 DEF Drain
<1>3. CASE SyncWalk(h)
  BY <1>1, <1>3 DEF SyncWalk, TypeOK
<1>4. CASE HostCall(h)
  BY <1>1, <1>4 DEF HostCall, StreamCreate, LaunchOrCopy, EventRecord, StreamWaitEvent, WaitAll,
                    Synchronize, EventSynchronize, StreamDestroy, ThreadExit, SynchronizeStream,
                    Idle, host
<1>5. CASE HostStep(h) /\ ~Drain(h) /\ ~SyncWalk(h)
  BY <1>1, <1>5 DEF HostStep, PushAllStep, BlockEnds, Enqueue, SyncLock, EventDone,
                    StreamSynchronized, DestroyLock, DestroyErase, ExitSignaled, StreamReturn, TypeOK
<1> QED BY <1>2, <1>3, <1>4, <1>5

LEMMA WaitsOver ==
    ASSUME StreamManagerAssumption, WaitInv, NEW h \in Hosts, hpc[h] \in {"drain", "syncwalk"},
           walk[h] = Zero, m_operations[Zero] = <<>>
    PROVE  due[h] \cap Outstanding = {}
<1>1. ASSUME NEW s \in AllStreams PROVE due[h] \cap Ids(s) = {}
  <2>1. CASE s \in Live
    BY <2>1 DEF WaitInv, WalksBehind, Precedes
  <2>2. CASE s \notin Live
    <3>1. m_operations[s] = <<>>
      BY <2>2 DEF WaitInv, NamedInv, StreamsNamed, DeadEmpty, AllStreams
    <3> QED BY <3>1 DEF Ids
  <2> QED BY <2>1, <2>2
<1> QED BY <1>1 DEF Outstanding, Ids

\* push() with a NULL stream and cudaDeviceSynchronize return only when all they
\* wait for has completed (stream_manager.cc:409-429, gpgpusim_entrypoint.cc:170-186):
\* for any number of hosts that create streams and push while the walk goes on,
\* as long as none of them destroys a stream; with one host, always.
THEOREM BlockingCallsKept ==
    ASSUME StreamManagerAssumption, KeptStreams PROVE Spec => BlockingCallsWait
<1>1. Init => WaitInv
  <2>1. ASSUME Init PROVE WaitInv
    <3>1. NamedInv
      BY <2>1, InitStreams DEF HostInv
    <3>2. WalksBehind
      BY <2>1 DEF Init, WalksBehind
    <3> QED BY <3>1, <3>2 DEF WaitInv
  <2> QED BY <2>1
<1>2. WaitInv /\ [Next]_vars => WaitInv'
  BY NextWait
<1>3. WaitInv /\ [Next]_vars =>
        [\A h \in Hosts :
          (hpc[h] \in {"drain", "syncwalk"} /\ hpc'[h] \in {"idle", "pushall"})
          => (due[h] \cap Outstanding = {} \/ (g_sim_done /\ hpc[h] = "syncwalk"))]_vars
  <2> SUFFICES ASSUME WaitInv, Next, NEW g \in Hosts,
                      hpc[g] \in {"drain", "syncwalk"}, hpc'[g] \in {"idle", "pushall"}
               PROVE  due[g] \cap Outstanding = {} \/ (g_sim_done /\ hpc[g] = "syncwalk")
    OBVIOUS
  <2>1. ~SimStep
    <3>1. CASE SimStep
      BY <3>1, SimFrame DEF host
    <3> QED BY <3>1
  <2>2. PICK h \in Hosts : HostCall(h) \/ HostStep(h)
    BY <2>1 DEF Next
  <2>3. CASE walk[g] = Zero /\ m_operations[Zero] = <<>>
    BY <2>3, WaitsOver
  <2> QED BY <2>2, <2>3, WalkEnds DEF WaitInv, NamedInv, ListInv, IInv
<1> QED BY <1>1, <1>2, <1>3, PTL DEF Spec, BlockingCallsWait

-----------------------------------------------------------------------------
(* Records and waits, for one host and one stream per event.                *)

\* What a step of the simulation thread leaves in a queue is what was there,
\* one place further if the front was popped.
Shifted(s, d) ==
    /\ Len(m_operations'[s]) = Len(m_operations[s]) - d
    /\ Len(m_operations[s]) \in Nat /\ Len(m_operations'[s]) \in Nat
    /\ \A i \in 1..Len(m_operations'[s]) :
         /\ i + d \in 1..Len(m_operations[s])
         /\ m_operations'[s][i].type = m_operations[s][i + d].type
         /\ m_operations'[s][i].event = m_operations[s][i + d].event
         /\ m_operations'[s][i].cnt = m_operations[s][i + d].cnt

LEMMA ServesShift ==
    ASSUME TypeOK, TypeOK', NEW S \in SUBSET AllStreams, Serves(S), NEW s \in AllStreams
    PROVE  \E d \in {0, 1} : Shifted(s, d) /\ (d = 1 <=> s \in S)
<1> SUFFICES ASSUME NEW d, d = IF s \in S THEN 1 ELSE 0
             PROVE  Shifted(s, d)
  OBVIOUS
<1> USE DEF Shifted
<1>1. m_operations[s] \in Seq(Operations) /\ m_operations'[s] \in Seq(Operations)
  BY DEF TypeOK
<1>2. CASE s \in S
  <2>1. m_operations[s] # <<>> /\ m_operations'[s] = Tail(m_operations[s]) /\ d = 1
    BY <1>2 DEF Serves, Popped
  <2>2. Len(m_operations'[s]) = Len(m_operations[s]) - 1
    BY <1>1, <2>1
  <2>3. \A i \in 1..Len(m_operations'[s]) :
           i + 1 \in 1..Len(m_operations[s]) /\ m_operations'[s][i] = m_operations[s][i + 1]
    BY <1>1, <2>1, TailElements
  <2>4. Len(m_operations[s]) \in Nat /\ Len(m_operations'[s]) \in Nat
    BY <1>1
  <2> QED BY <2>1, <2>2, <2>3, <2>4
<1>3. CASE s \notin S
  <2>1. Accepted'[s] = Accepted[s] /\ d = 0
    BY <1>3 DEF Serves
  <2>2. /\ Accepted[s] = [i \in 1..Len(m_operations[s]) |->
                            Stamp(m_operations[s][i], m_operations[s][i].id, 0)]
        /\ Accepted'[s] = [i \in 1..Len(m_operations'[s]) |->
                            Stamp(m_operations'[s][i], m_operations'[s][i].id, 0)]
    BY DEF Accepted
  <2>3. Len(m_operations[s]) \in Nat /\ Len(m_operations'[s]) \in Nat
    BY <1>1
  <2>4. 1..Len(m_operations[s]) = 1..Len(m_operations'[s])
    BY <2>1, <2>2
  <2>5. Len(m_operations'[s]) = Len(m_operations[s])
    BY <2>3, <2>4
  <2>6. \A i \in 1..Len(m_operations'[s]) :
           Stamp(m_operations[s][i], m_operations[s][i].id, 0)
             = Stamp(m_operations'[s][i], m_operations'[s][i].id, 0)
    BY <2>1, <2>2, <2>4
  <2>7. \A i \in 1..Len(m_operations'[s]) :
           /\ m_operations'[s][i].type = m_operations[s][i].type
           /\ m_operations'[s][i].event = m_operations[s][i].event
           /\ m_operations'[s][i].cnt = m_operations[s][i].cnt
    BY <2>6 DEF Stamp
  <2>8. ASSUME NEW i \in 1..Len(m_operations'[s])
        PROVE  /\ i + d \in 1..Len(m_operations[s])
               /\ m_operations'[s][i].type = m_operations[s][i + d].type
               /\ m_operations'[s][i].event = m_operations[s][i + d].event
               /\ m_operations'[s][i].cnt = m_operations[s][i + d].cnt
    <3>1. i + d = i
      BY <2>1
    <3> QED BY <2>4, <2>7, <3>1
  <2>9. Len(m_operations'[s]) = Len(m_operations[s]) - d
    <3>1. d = 0
      BY <2>1
    <3>2. Len(m_operations[s]) - 0 = Len(m_operations[s])
      BY <2>3
    <3> QED BY <2>5, <3>1, <3>2
  <2> QED BY <2>1, <2>3, <2>8, <2>9
<1> QED BY <1>2, <1>3

LEMMA LimitSticks ==
    ASSUME SimStep, limit_hit PROVE limit_hit'
BY DEF SimStep, DetectWork, Activate, CheckFinishedKernel, Operate, GpuCycle, NoCycle,
       StopAllRunningKernels, LoopTest, Deactivate, OuterTest, gpu, GpuActive

\* A record that executes is the next of its event.
LEMMA NextRecord ==
    ASSUME TypeOK, NEW e \in Events, RecordsOf(e), NEW s \in AllStreams, m_operations[s] # <<>>,
           IsRecord(Head(m_operations[s]), e)
    PROVE  Head(m_operations[s]).cnt = updates[e] + 1
<1>1. m_operations[s] \in Seq(Operations) /\ updates[e] \in Nat
  BY DEF TypeOK
<1>2. 1 \in 1..Len(m_operations[s]) /\ Head(m_operations[s]) = m_operations[s][1]
  BY <1>1
<1>3. m_operations[s][1].cnt \in Nat
  <2>1. m_operations[s][1] \in Operations
    BY <1>1, <1>2
  <2> QED BY <2>1 DEF Operations
<1>4. /\ updates[e] < m_operations[s][1].cnt
      /\ ~(m_operations[s][1].cnt > updates[e] + 1)
  <2>1. 1..(1 - 1) = {}
    OBVIOUS
  <2> QED BY <1>2, <2>1 DEF RecordsOf
<1> QED BY <1>1, <1>2, <1>3, <1>4

\* For an event, a step of the simulation thread executes no record of it, or
\* the next one.
LEMMA ServesEvent ==
    ASSUME TypeOK, NEW e \in Events, RecordsOf(e), EventsQueued,
           NEW S \in SUBSET AllStreams, Serves(S)
    PROVE  \/ /\ updates'[e] = updates[e] /\ recorded'[e] = recorded[e]
              /\ \A s \in S : ~IsRecord(m_operations[s][1], e)
           \/ /\ updates'[e] = updates[e] + 1
              /\ recorded'[e] = recorded[e] \cup {updates[e] + 1}
              /\ \E s \in S : /\ S = {s} /\ m_operations[s] # <<>>
                              /\ IsRecord(m_operations[s][1], e)
                              /\ m_operations[s][1].cnt = updates[e] + 1
<1>1. \A s \in S : /\ m_operations[s] # <<>> /\ m_operations[s] \in Seq(Operations)
                   /\ Head(m_operations[s]) = m_operations[s][1] /\ 1 \in 1..Len(m_operations[s])
  BY DEF Serves, Popped, TypeOK
<1>2. CASE UNCHANGED <<updates, recorded>> /\ \A s \in S : Head(m_operations[s]).type # "event"
  BY <1>1, <1>2 DEF IsRecord
<1>3. ASSUME NEW s \in S, S = {s}, Head(m_operations[s]).type = "event",
             updates' = [updates EXCEPT ![Head(m_operations[s]).event] = @ + 1],
             recorded' = [recorded EXCEPT ![Head(m_operations[s]).event] =
                             @ \cup {Head(m_operations[s]).cnt}]
      PROVE  \/ /\ updates'[e] = updates[e] /\ recorded'[e] = recorded[e]
                /\ \A t \in S : ~IsRecord(m_operations[t][1], e)
             \/ /\ updates'[e] = updates[e] + 1
                /\ recorded'[e] = recorded[e] \cup {updates[e] + 1}
                /\ \E t \in S : /\ S = {t} /\ m_operations[t] # <<>>
                                /\ IsRecord(m_operations[t][1], e)
                                /\ m_operations[t][1].cnt = updates[e] + 1
  <2> DEFINE op == Head(m_operations[s])
  <2>1. op = m_operations[s][1] /\ op.event \in Events
    BY <1>1, <1>3 DEF EventsQueued
  <2>2. CASE op.event # e
    BY <1>3, <2>1, <2>2 DEF TypeOK, IsRecord
  <2>3. CASE op.event = e
    <3>1. op.cnt = updates[e] + 1
      BY <1>1, <1>3, <2>3, NextRecord DEF IsRecord
    <3> QED BY <1>1, <1>3, <2>1, <2>3, <3>1 DEF TypeOK, IsRecord
  <2> QED BY <2>2, <2>3
<1> QED BY <1>2, <1>3 DEF Serves

\* The records that stay queued behind one that executes are later ones.
LEMMA RecordBehind ==
    ASSUME TypeOK, SingleRecorder, NEW e \in Events, RecordsOf(e),
           NEW s \in AllStreams, NEW k \in 1..Len(m_operations[s]), IsRecord(m_operations[s][k], e),
           NEW t \in AllStreams, m_operations[t] # <<>>, IsRecord(m_operations[t][1], e)
    PROVE  s = t /\ (k > 1 => m_operations[t][1].cnt < m_operations[s][k].cnt)
<1>1. 1 \in 1..Len(m_operations[t])
  BY DEF TypeOK
<1>2. s = t
  BY <1>1 DEF RecordsOf, SingleRecorder
<1>3. k > 1 => 1 \in 1..(k - 1)
  BY DEF TypeOK
<1> QED BY <1>2, <1>3 DEF RecordsOf

LEMMA RecordsOfSim ==
    ASSUME StreamManagerAssumption, SingleRecorder, TypeOK, TypeOK', NEW e \in Events,
           RecordsOf(e), EventsQueued, SimStep, NEW S \in SUBSET AllStreams, Serves(S)
    PROVE  RecordsOf(e)'
<1>1. UNCHANGED <<issued, hpc, arg>> /\ (limit_hit => limit_hit')
  BY SimFrame, LimitSticks DEF host
<1>2. updates[e] \in Nat /\ updates'[e] \in Nat /\ issued[e] \in Nat
  BY DEF TypeOK
<1>3. \A s \in AllStreams : \A i \in 1..Len(m_operations[s]) : m_operations[s][i].cnt \in Nat
  <2>1. \A s \in AllStreams : \A i \in 1..Len(m_operations[s]) : m_operations[s][i] \in Operations
    BY SMTT(30) DEF TypeOK
  <2> QED BY <2>1 DEF Operations
<1> DEFINE none == /\ updates'[e] = updates[e] /\ recorded'[e] = recorded[e]
                   /\ \A s \in S : ~IsRecord(m_operations[s][1], e)
           next == /\ updates'[e] = updates[e] + 1
                   /\ recorded'[e] = recorded[e] \cup {updates[e] + 1}
                   /\ \E s \in S : /\ S = {s} /\ m_operations[s] # <<>>
                                   /\ IsRecord(m_operations[s][1], e)
                                   /\ m_operations[s][1].cnt = updates[e] + 1
<1>4. none \/ next
  BY ServesEvent
<1>5. recorded'[e] = 1..updates'[e] /\ updates'[e] <= issued'[e]
  <2>1. CASE none
    BY <1>1, <2>1 DEF RecordsOf
  <2>2. CASE next
    <3>1. PICK s \in S : /\ m_operations[s] # <<>> /\ IsRecord(m_operations[s][1], e)
                         /\ m_operations[s][1].cnt = updates[e] + 1
      BY <2>2
    <3>2. 1 \in 1..Len(m_operations[s])
      BY <3>1 DEF TypeOK
    <3>3. updates[e] + 1 <= issued[e]
      BY <3>1, <3>2 DEF RecordsOf
    <3>4. 1..(updates[e] + 1) = 1..updates[e] \cup {updates[e] + 1}
      BY <1>2
    <3> QED BY <1>1, <2>2, <3>3, <3>4 DEF RecordsOf
  <2> QED BY <1>4, <2>1, <2>2
<1>6. ASSUME NEW s \in AllStreams, NEW i \in 1..Len(m_operations'[s]),
             IsRecord(m_operations'[s][i], e)
      PROVE  LET op == m_operations'[s][i]
             IN  /\ updates'[e] < op.cnt /\ op.cnt <= issued'[e]
                 /\ \E t \in RecordedOn[e] : s = QueueOf(t)
                 /\ op.cnt > updates'[e] + 1 =>
                      \E j \in 1..(i - 1) : /\ IsRecord(m_operations'[s][j], e)
                                            /\ m_operations'[s][j].cnt = op.cnt - 1
                 /\ \A j \in 1..(i - 1) :
                      IsRecord(m_operations'[s][j], e) => m_operations'[s][j].cnt < op.cnt
  <2>1. PICK d \in {0, 1} : Shifted(s, d) /\ (d = 1 <=> s \in S)
    BY ServesShift
  <2>2. /\ Len(m_operations'[s]) = Len(m_operations[s]) - d
        /\ Len(m_operations[s]) \in Nat /\ d \in {0, 1} /\ Len(m_operations'[s]) \in Nat
    BY <2>1 DEF Shifted
  <2>3. ASSUME NEW j \in 1..Len(m_operations'[s])
        PROVE  /\ j + d \in 1..Len(m_operations[s])
               /\ IsRecord(m_operations'[s][j], e) <=> IsRecord(m_operations[s][j + d], e)
               /\ m_operations'[s][j].cnt = m_operations[s][j + d].cnt
    BY <2>1 DEF Shifted, IsRecord
  <2> DEFINE k == i + d
             c == m_operations[s][k].cnt
  <2>4. k \in 1..Len(m_operations[s]) /\ IsRecord(m_operations[s][k], e) /\ m_operations'[s][i].cnt = c
    BY <1>6, <2>3
  <2>5. c \in Nat /\ updates[e] < c /\ c <= issued[e]
    BY <1>3, <2>4 DEF RecordsOf
  <2>6. \E t \in RecordedOn[e] : s = QueueOf(t)
    BY <2>4 DEF RecordsOf
  <2>7. \A j \in 1..(k - 1) : IsRecord(m_operations[s][j], e) => m_operations[s][j].cnt < c
    BY <2>4 DEF RecordsOf
  <2>8. c > updates[e] + 1 =>
          \E j \in 1..(k - 1) : IsRecord(m_operations[s][j], e) /\ m_operations[s][j].cnt = c - 1
    BY <2>4 DEF RecordsOf
  <2>9. updates'[e] < c
    <3>1. CASE none
      BY <2>5, <3>1
    <3>2. CASE next
      <4>1. PICK t \in S : /\ S = {t} /\ m_operations[t] # <<>> /\ IsRecord(m_operations[t][1], e)
                           /\ m_operations[t][1].cnt = updates[e] + 1
        BY <3>2
      <4>2. s = t /\ (k > 1 => m_operations[t][1].cnt < c)
        BY <2>4, <4>1, RecordBehind
      <4>3. k > 1
        BY <2>1, <2>2, <4>1, <4>2
      <4> QED BY <3>2, <4>1, <4>2, <4>3
    <3> QED BY <1>4, <3>1, <3>2
  <2> HIDE DEF c
  <2>10. ASSUME c > updates'[e] + 1
         PROVE  \E j \in 1..(i - 1) : /\ IsRecord(m_operations'[s][j], e)
                                      /\ m_operations'[s][j].cnt = c - 1
    <3>1. c > updates[e] + 1
      BY <1>2, <1>4, <2>5, <2>10
    <3>2. PICK j \in 1..(k - 1) : IsRecord(m_operations[s][j], e) /\ m_operations[s][j].cnt = c - 1
      BY <2>8, <3>1
    <3>3. j > d
      <4>1. CASE s \in S /\ j = 1
        <5>1. CASE none
          BY <3>2, <4>1, <5>1
        <5>2. CASE next
          <6>1. m_operations[s][1].cnt = updates[e] + 1
            BY <4>1, <5>2
          <6> QED BY <1>2, <2>5, <2>10, <3>2, <4>1, <5>2, <6>1
        <5> QED BY <1>4, <5>1, <5>2
      <4>2. CASE ~(s \in S /\ j = 1)
        BY <2>1, <4>2
      <4> QED BY <4>1, <4>2
    <3>4. j - d \in 1..(i - 1) /\ j - d \in 1..Len(m_operations'[s]) /\ (j - d) + d = j
      BY <2>2, <3>3
    <3>5. IsRecord(m_operations'[s][j - d], e) /\ m_operations'[s][j - d].cnt = c - 1
      BY <2>3, <3>2, <3>4
    <3> QED BY <3>4, <3>5
  <2>11. ASSUME NEW j \in 1..(i - 1), IsRecord(m_operations'[s][j], e)
         PROVE  m_operations'[s][j].cnt < c
    <3>1. j \in 1..Len(m_operations'[s]) /\ j + d \in 1..(k - 1)
      BY <2>2
    <3> QED BY <2>3, <2>7, <2>11, <3>1
  <2> QED BY <1>1, <2>4, <2>5, <2>6, <2>9, <2>10, <2>11
<1>7. ASSUME ~limit_hit', NEW c \in (updates'[e] + 1)..issued'[e]
      PROVE  \/ \E h \in Hosts : Asks(h, "event")' /\ arg'[h].op.event = e /\ arg'[h].op.cnt = c
             \/ \E s \in AllStreams : \E i \in 1..Len(m_operations'[s]) :
                  IsRecord(m_operations'[s][i], e) /\ m_operations'[s][i].cnt = c
  <2>1. c \in (updates[e] + 1)..issued[e] /\ ~limit_hit
    BY <1>1, <1>2, <1>4, <1>7
  <2>2. CASE \E h \in Hosts : Asks(h, "event") /\ arg[h].op.event = e /\ arg[h].op.cnt = c
    BY <1>1, <2>2 DEF Asks
  <2>3. CASE \E s \in AllStreams : \E i \in 1..Len(m_operations[s]) :
                  IsRecord(m_operations[s][i], e) /\ m_operations[s][i].cnt = c
    <3>0. PICK s \in AllStreams : \E i \in 1..Len(m_operations[s]) :
                  IsRecord(m_operations[s][i], e) /\ m_operations[s][i].cnt = c
      BY <2>3
    <3>1. PICK k \in 1..Len(m_operations[s]) :
              IsRecord(m_operations[s][k], e) /\ m_operations[s][k].cnt = c
      BY <3>0
    <3>2. PICK d \in {0, 1} : Shifted(s, d) /\ (d = 1 <=> s \in S)
      BY ServesShift
    <3>3. /\ Len(m_operations'[s]) = Len(m_operations[s]) - d
          /\ Len(m_operations[s]) \in Nat /\ d \in {0, 1} /\ Len(m_operations'[s]) \in Nat
      BY <3>2 DEF Shifted
    <3>4. k > d
      <4>1. CASE s \in S /\ k = 1
        <5>1. CASE none
          BY <3>1, <4>1, <5>1
        <5>2. CASE next
          <6>1. m_operations[s][1].cnt = updates[e] + 1
            BY <4>1, <5>2
          <6> QED BY <1>2, <1>7, <3>1, <4>1, <5>2, <6>1
        <5> QED BY <1>4, <5>1, <5>2
      <4>2. CASE ~(s \in S /\ k = 1)
        BY <3>2, <4>2
      <4> QED BY <4>1, <4>2
    <3>5. k - d \in 1..Len(m_operations'[s]) /\ (k - d) + d = k
      BY <3>3, <3>4
    <3>6. IsRecord(m_operations'[s][k - d], e) /\ m_operations'[s][k - d].cnt = c
      BY <3>1, <3>2, <3>5 DEF Shifted, IsRecord
    <3> QED BY <3>5, <3>6
  <2> QED BY <2>1, <2>2, <2>3 DEF RecordsOf
<1>8. \A t : QueueOf(t)' = QueueOf(t)
  BY DEF QueueOf, Blocks
<1> HIDE DEF none, next
<1> QED BY <1>5, <1>6, <1>7, <1>8 DEF RecordsOf

LEMMA RecordsSim ==
    ASSUME StreamManagerAssumption, SingleRecorder, TypeOK, TypeOK', Bookkeeping,
           RecordsInOrder, SimStep
    PROVE  RecordsInOrder'
<1>1. UNCHANGED <<issued, host>>
  BY SimFrame
<1>2. PICK S \in SUBSET AllStreams : Serves(S)
  BY SimServes
<1>3. ASSUME NEW s \in AllStreams, NEW i \in 1..Len(m_operations'[s])
      PROVE  \E k \in 1..Len(m_operations[s]) :
                /\ m_operations'[s][i].type = m_operations[s][k].type
                /\ m_operations'[s][i].event = m_operations[s][k].event
                /\ m_operations'[s][i].cnt = m_operations[s][k].cnt
  <2>1. PICK d \in {0, 1} : Shifted(s, d)
    BY <1>2, ServesShift
  <2> QED BY <2>1 DEF Shifted
<1>4. EventsQueued'
  <2>1. ASSUME NEW s \in AllStreams, NEW i \in 1..Len(m_operations'[s])
        PROVE  LET op == m_operations'[s][i]
               IN  /\ op.type \in {"event", "wait"} => op.event \in Events
                   /\ op.type = "wait" => op.cnt > 0
    <3>1. PICK k \in 1..Len(m_operations[s]) :
            /\ m_operations'[s][i].type = m_operations[s][k].type
            /\ m_operations'[s][i].event = m_operations[s][k].event
            /\ m_operations'[s][i].cnt = m_operations[s][k].cnt
      BY <1>3
    <3>2. LET op == m_operations[s][k]
          IN  /\ op.type \in {"event", "wait"} => op.event \in Events
              /\ op.type = "wait" => op.cnt > 0
      BY DEF RecordsInOrder, EventsQueued
    <3> QED BY <3>1, <3>2
  <2> QED BY <2>1 DEF EventsQueued
<1>5. \A e \in Events : RecordsOf(e)'
  BY <1>2, RecordsOfSim DEF RecordsInOrder
<1>6. ASSUME NEW h \in Hosts PROVE RecordAsked(h)' /\ WaitAsked(h)'
  <2>1. hpc' = hpc /\ arg' = arg /\ walkall' = walkall
    BY <1>1 DEF host
  <2>2. \A type : Asks(h, type)' <=> Asks(h, type)
    BY <2>1 DEF Asks
  <2>3. ASSUME Asks(h, "event")
        PROVE  LET e == arg[h].op.event
               IN  /\ e \in Events /\ arg[h].stream \in RecordedOn[e]
                   /\ arg[h].op.cnt = issued[e] /\ updates'[e] < issued[e]
                   /\ \A s \in AllStreams : \A i \in 1..Len(m_operations'[s]) :
                        IsRecord(m_operations'[s][i], e) => m_operations'[s][i].cnt < issued[e]
    <3> DEFINE e == arg[h].op.event
    <3>1. /\ e \in Events /\ arg[h].stream \in RecordedOn[e]
          /\ arg[h].op.cnt = issued[e] /\ updates[e] < issued[e]
          /\ \A s \in AllStreams : \A i \in 1..Len(m_operations[s]) :
               IsRecord(m_operations[s][i], e) => m_operations[s][i].cnt < issued[e]
      BY <2>3 DEF RecordsInOrder, RecordAsked
    <3> HIDE DEF e
    <3>2. updates'[e] < issued[e]
      <4>1. CASE updates'[e] = updates[e]
        BY <3>1, <4>1
      <4>2. CASE /\ updates'[e] = updates[e] + 1
                 /\ \E s \in S : /\ S = {s} /\ m_operations[s] # <<>>
                                 /\ IsRecord(m_operations[s][1], e)
                                 /\ m_operations[s][1].cnt = updates[e] + 1
        <5>1. PICK s \in S : /\ m_operations[s] # <<>> /\ IsRecord(m_operations[s][1], e)
                             /\ m_operations[s][1].cnt = updates[e] + 1
          BY <4>2
        <5>2. 1 \in 1..Len(m_operations[s])
          BY <5>1 DEF TypeOK
        <5> QED BY <3>1, <4>2, <5>1, <5>2
      <4> QED BY <1>2, <3>1, <4>1, <4>2, ServesEvent DEF RecordsInOrder
    <3>3. ASSUME NEW s \in AllStreams, NEW i \in 1..Len(m_operations'[s]),
                 IsRecord(m_operations'[s][i], e)
          PROVE  m_operations'[s][i].cnt < issued[e]
      BY <1>3, <3>1, <3>3 DEF IsRecord
    <3> QED BY <3>1, <3>2, <3>3 DEF e
  <2>4. RecordAsked(h)'
    BY <1>1, <2>1, <2>2, <2>3 DEF RecordAsked
  <2>5. WaitAsked(h)'
    BY <1>1, <2>1, <2>2 DEF RecordsInOrder, WaitAsked
  <2> QED BY <2>4, <2>5
<1> QED BY <1>4, <1>5, <1>6 DEF RecordsInOrder

\* Steps of the host that neither record nor queue.
LEMMA RecordsQuiet ==
    ASSUME SingleHost, RecordsInOrder, NEW h \in Hosts,
           UNCHANGED <<m_operations, updates, recorded, issued, limit_hit>>,
           ~Asks(h, "event"), ~Asks(h, "event")', WaitAsked(h)'
    PROVE  RecordsInOrder'
<1>1. \A g \in Hosts : g = h
  BY DEF SingleHost
<1>2. EventsQueued'
  BY DEF RecordsInOrder, EventsQueued
<1>3. \A t : QueueOf(t)' = QueueOf(t)
  BY DEF QueueOf, Blocks
<1>4. ASSUME NEW e \in Events PROVE RecordsOf(e)'
  <2>1. RecordsOf(e)
    BY DEF RecordsInOrder
  <2> QED BY <1>1, <1>3, <2>1 DEF RecordsOf
<1>5. \A g \in Hosts : RecordAsked(g)' /\ WaitAsked(g)'
  BY <1>1 DEF RecordAsked
<1> QED BY <1>2, <1>4, <1>5 DEF RecordsInOrder

\* cudaEventRecord issues the next record of its event.
LEMMA RecordsIssue ==
    ASSUME SingleHost, TypeOK, PushingAll, RecordsInOrder, NEW h \in Hosts, EventRecord(h)
    PROVE  RecordsInOrder'
<1>0. PICK e \in Events : \E s \in RecordedOn[e] :
         /\ issued' = [issued EXCEPT ![e] = @ + 1]
         /\ Push(h, s, Op("event", e, issued[e] + 1))
  BY DEF EventRecord
<1>1. PICK s \in RecordedOn[e] :
         /\ issued' = [issued EXCEPT ![e] = @ + 1]
         /\ Push(h, s, Op("event", e, issued[e] + 1))
  BY <1>0
<1>2. /\ hpc[h] = "idle" /\ UNCHANGED <<m_operations, updates, recorded, limit_hit, walkall>>
      /\ walkall[h] = None
  BY DEF EventRecord, Idle, gpu, PushingAll
<1>3. /\ hpc'[h] \in {"block", "enqueue"} /\ arg'[h].stream = s /\ arg'[h].op.type = "event"
      /\ arg'[h].op.event = e /\ arg'[h].op.cnt = issued[e] + 1
  BY <1>1 DEF Push, Call, Op, TypeOK
<1>4. \A g \in Hosts : g = h
  BY DEF SingleHost
<1>5. EventsQueued'
  BY <1>2 DEF RecordsInOrder, EventsQueued
<1>6. \A t : QueueOf(t)' = QueueOf(t)
  BY DEF QueueOf, Blocks
<1>7. \A f \in Events : /\ issued[f] \in Nat /\ updates[f] \in Nat /\ issued'[f] \in Nat
                        /\ issued'[f] = IF f = e THEN issued[e] + 1 ELSE issued[f]
  BY <1>1 DEF TypeOK
<1>8. \A t \in AllStreams : \A i \in 1..Len(m_operations[t]) : m_operations[t][i].cnt \in Nat
  <2>1. \A t \in AllStreams : \A i \in 1..Len(m_operations[t]) : m_operations[t][i] \in Operations
    BY DEF TypeOK
  <2> QED BY <2>1 DEF Operations
<1>9. ASSUME NEW f \in Events PROVE RecordsOf(f)'
  <2>1. RecordsOf(f)
    BY DEF RecordsInOrder
  <2>2. recorded[f] = 1..updates[f] /\ updates[f] <= issued'[f]
    BY <1>7, <2>1 DEF RecordsOf
  <2>3. ASSUME NEW t \in AllStreams, NEW i \in 1..Len(m_operations[t]),
               IsRecord(m_operations[t][i], f)
        PROVE  m_operations[t][i].cnt <= issued'[f]
    <3>1. m_operations[t][i].cnt <= issued[f]
      BY <2>1, <2>3 DEF RecordsOf
    <3> QED BY <1>7, <1>8, <3>1
  <2>4. ASSUME ~limit_hit, NEW c \in (updates[f] + 1)..issued'[f]
        PROVE  \/ \E g \in Hosts : Asks(g, "event")' /\ arg'[g].op.event = f /\ arg'[g].op.cnt = c
               \/ \E t \in AllStreams : \E i \in 1..Len(m_operations[t]) :
                    IsRecord(m_operations[t][i], f) /\ m_operations[t][i].cnt = c
    <3>1. CASE f = e /\ c = issued[e] + 1
      BY <1>3, <3>1 DEF Asks
    <3>2. CASE ~(f = e /\ c = issued[e] + 1)
      <4>1. c \in (updates[f] + 1)..issued[f]
        BY <1>7, <2>4, <3>2
      <4>2. ~\E g \in Hosts : Asks(g, "event")
        BY <1>2, <1>4 DEF Asks
      <4> QED BY <2>1, <2>4, <4>1, <4>2 DEF RecordsOf
    <3> QED BY <3>1, <3>2
  <2> QED BY <1>2, <1>6, <2>1, <2>2, <2>3, <2>4 DEF RecordsOf
<1>10. RecordAsked(h)'
  <2>1. updates[e] < issued'[e]
    <3>1. updates[e] <= issued[e]
      BY DEF RecordsInOrder, RecordsOf
    <3> QED BY <1>7, <3>1
  <2>2. ASSUME NEW t \in AllStreams, NEW i \in 1..Len(m_operations[t]),
               IsRecord(m_operations[t][i], e)
        PROVE  m_operations[t][i].cnt < issued'[e]
    <3>1. m_operations[t][i].cnt <= issued[e]
      BY <2>2 DEF RecordsInOrder, RecordsOf
    <3> QED BY <1>7, <1>8, <3>1
  <2> QED BY <1>2, <1>3, <1>7, <2>1, <2>2 DEF RecordAsked
<1>11. WaitAsked(h)'
  BY <1>2, <1>3 DEF WaitAsked, Asks
<1> QED BY <1>4, <1>5, <1>9, <1>10, <1>11 DEF RecordsInOrder

LEMMA AppendedElements ==
    ASSUME NEW T, NEW q \in Seq(T), NEW o \in T
    PROVE  /\ Append(q, o) \in Seq(T) /\ Len(q) \in Nat /\ Len(Append(q, o)) = Len(q) + 1
           /\ \A i \in 1..Len(q) : Append(q, o)[i] = q[i]
           /\ Append(q, o)[Len(q) + 1] = o
           /\ \A i \in 1..(Len(q) + 1) : i \in 1..Len(q) \/ i = Len(q) + 1
OBVIOUS

\* push() queues a record behind the records of its event that were issued
\* before it.
LEMMA RecordsAppend ==
    ASSUME StreamManagerAssumption, SingleHost, SingleRecorder, TypeOK, TypeOK', RecordsInOrder,
           NEW h \in Hosts, Enqueue(h), ~limit_hit, WaitAsked(h)'
    PROVE  RecordsInOrder'
<1> DEFINE q == Queue(h)
           o == Queued(h)
           n == Len(m_operations[q]) + 1
<1>1. /\ m_operations' = [m_operations EXCEPT ![q] = Append(@, o)] /\ hpc[h] = "enqueue"
      /\ UNCHANGED <<updates, recorded, issued, limit_hit>>
  BY DEF Enqueue, gpu, events
<1>2. ~Asks(h, "event")'
  BY SMTT(30) DEF Enqueue, Returns, TypeOK, Asks
<1>3. \A g \in Hosts : g = h
  BY DEF SingleHost
<1>4. o.type = arg[h].op.type /\ o.event = arg[h].op.event /\ o.cnt = arg[h].op.cnt
  BY DEF Queued, Stamp
<1>5. q \in AllStreams /\ q = QueueOf(arg[h].stream)
  BY DEF Queue, QueueOf, TypeOK, Args, Blocks, AllStreams
<1>6. o \in Operations
  <2>1. arg[h].op \in Operations
    BY DEF TypeOK, Args
  <2>2. nops \in Nat
    BY DEF TypeOK
  <2> QED BY <2>1, <2>2 DEF o, Queued, Stamp, Operations
<1>7. \A t : QueueOf(t)' = QueueOf(t)
  BY DEF QueueOf, Blocks
<1> HIDE DEF q, o
<1>8. /\ m_operations'[q] = Append(m_operations[q], o) /\ m_operations[q] \in Seq(Operations)
      /\ \A s \in AllStreams \ {q} : m_operations'[s] = m_operations[s]
  BY <1>1, <1>5 DEF TypeOK
<1>9. /\ \A i \in 1..Len(m_operations[q]) : m_operations'[q][i] = m_operations[q][i]
      /\ m_operations'[q][n] = o /\ Len(m_operations'[q]) = n
      /\ Len(m_operations[q]) \in Nat
      /\ \A i \in 1..n : i \in 1..Len(m_operations[q]) \/ i = n
  BY <1>6, <1>8, AppendedElements
<1>10. \A s \in AllStreams : \A i \in 1..Len(m_operations[s]) :
          i \in 1..Len(m_operations'[s]) /\ m_operations'[s][i] = m_operations[s][i]
  <2>1. ASSUME NEW i \in 1..Len(m_operations[q])
        PROVE  i \in 1..Len(m_operations'[q]) /\ m_operations'[q][i] = m_operations[q][i]
    BY <1>9
  <2>2. ASSUME NEW s \in AllStreams, s # q PROVE m_operations'[s] = m_operations[s]
    BY <1>8, <2>2
  <2> QED BY <2>1, <2>2
<1>11. \A s \in AllStreams : \A i \in 1..Len(m_operations'[s]) :
          i \in 1..Len(m_operations[s]) \/ (s = q /\ i = n)
  <2>1. ASSUME NEW s \in AllStreams, s # q PROVE Len(m_operations'[s]) = Len(m_operations[s])
    BY <1>8, <2>1
  <2>2. ASSUME NEW i \in 1..Len(m_operations'[q]) PROVE i \in 1..Len(m_operations[q]) \/ i = n
    BY <1>9
  <2> QED BY <2>1, <2>2
<1> HIDE DEF n
<1>12. \A s \in AllStreams : \A i \in 1..Len(m_operations[s]) : \A j \in 1..(i - 1) :
          m_operations'[s][j] = m_operations[s][j] /\ j \in 1..Len(m_operations[s])
  <2>1. \A s \in AllStreams : Len(m_operations[s]) \in Nat
    BY DEF TypeOK
  <2>2. ASSUME NEW s \in AllStreams, NEW i \in 1..Len(m_operations[s]), NEW j \in 1..(i - 1)
        PROVE  j \in 1..Len(m_operations[s])
    BY <2>1
  <2> QED BY <1>10, <2>2
<1>13. EventsQueued'
  <2>1. /\ o.type \in {"event", "wait"} => o.event \in Events
        /\ o.type = "wait" => o.cnt > 0
    BY <1>1, <1>4 DEF RecordsInOrder, RecordAsked, WaitAsked, Asks
  <2>2. ASSUME NEW s \in AllStreams, NEW i \in 1..Len(m_operations'[s])
        PROVE  LET op == m_operations'[s][i]
               IN  /\ op.type \in {"event", "wait"} => op.event \in Events
                   /\ op.type = "wait" => op.cnt > 0
    <3>1. CASE i \in 1..Len(m_operations[s])
      BY <1>10, <3>1 DEF RecordsInOrder, EventsQueued
    <3>2. CASE s = q /\ i = n
      BY <1>9, <2>1, <3>2
    <3> QED BY <1>11, <3>1, <3>2
  <2> QED BY <2>2 DEF EventsQueued
<1>14. ASSUME NEW e \in Events PROVE RecordsOf(e)'
  <2>1. RecordsOf(e)
    BY DEF RecordsInOrder
  <2>2. issued[e] \in Nat /\ updates[e] \in Nat
    BY DEF TypeOK
  <2>3. IsRecord(o, e) =>
          /\ Asks(h, "event") /\ arg[h].op.event = e /\ o.cnt = issued[e]
          /\ arg[h].stream \in RecordedOn[e] /\ updates[e] < issued[e]
          /\ \A s \in AllStreams : \A i \in 1..Len(m_operations[s]) :
               IsRecord(m_operations[s][i], e) => m_operations[s][i].cnt < issued[e]
    BY <1>1, <1>4 DEF IsRecord, RecordsInOrder, RecordAsked, Asks
  <2>4. ASSUME NEW s \in AllStreams, NEW i \in 1..Len(m_operations'[s]),
               IsRecord(m_operations'[s][i], e)
        PROVE  LET op == m_operations'[s][i]
               IN  /\ updates[e] < op.cnt /\ op.cnt <= issued[e]
                   /\ \E t \in RecordedOn[e] : s = QueueOf(t)
                   /\ op.cnt > updates[e] + 1 =>
                        \E j \in 1..(i - 1) : /\ IsRecord(m_operations'[s][j], e)
                                              /\ m_operations'[s][j].cnt = op.cnt - 1
                   /\ \A j \in 1..(i - 1) :
                        IsRecord(m_operations'[s][j], e) => m_operations'[s][j].cnt < op.cnt
    <3>1. CASE i \in 1..Len(m_operations[s])
      <4>1. m_operations'[s][i] = m_operations[s][i]
        BY <1>10, <3>1
      <4>2. \A j \in 1..(i - 1) : m_operations'[s][j] = m_operations[s][j]
        BY <1>12, <3>1
      <4> QED BY <2>1, <2>4, <3>1, <4>1, <4>2, SMTT(30) DEF RecordsOf
    <3>2. CASE s = q /\ i = n
      <4>1. m_operations'[s][i] = o /\ IsRecord(o, e)
        BY <1>9, <2>4, <3>2
      <4>2. \A j \in 1..(i - 1) : j \in 1..Len(m_operations[q]) /\ m_operations'[q][j] = m_operations[q][j]
        BY <1>9, <3>2 DEF n
      <4>3. ASSUME issued[e] > updates[e] + 1
            PROVE  \E j \in 1..(i - 1) : /\ IsRecord(m_operations'[s][j], e)
                                         /\ m_operations'[s][j].cnt = issued[e] - 1
        <5>1. issued[e] - 1 \in (updates[e] + 1)..issued[e] /\ issued[e] - 1 # issued[e]
          BY <2>2, <4>3
        <5>2. ~\E g \in Hosts : /\ Asks(g, "event") /\ arg[g].op.event = e
                                /\ arg[g].op.cnt = issued[e] - 1
          BY <1>3, <1>4, <2>3, <4>1, <5>1
        <5>3. PICK t \in AllStreams : \E j \in 1..Len(m_operations[t]) :
                 IsRecord(m_operations[t][j], e) /\ m_operations[t][j].cnt = issued[e] - 1
          BY <2>1, <5>1, <5>2 DEF RecordsOf
        <5>4. PICK j \in 1..Len(m_operations[t]) :
                 IsRecord(m_operations[t][j], e) /\ m_operations[t][j].cnt = issued[e] - 1
          BY <5>3
        <5>5. t = q
          BY <1>5, <2>1, <2>3, <4>1, <5>4 DEF RecordsOf, SingleRecorder
        <5>6. j \in 1..(i - 1)
          BY <1>9, <3>2, <5>5 DEF n
        <5> QED BY <3>2, <4>2, <5>4, <5>5, <5>6
      <4>4. /\ o.cnt = issued[e] /\ updates[e] < issued[e]
            /\ \E t \in RecordedOn[e] : s = QueueOf(t)
        BY <1>5, <2>3, <3>2, <4>1
      <4>5. \A j \in 1..(i - 1) :
               IsRecord(m_operations'[s][j], e) => m_operations'[s][j].cnt < issued[e]
        BY <1>5, <2>3, <3>2, <4>1, <4>2
      <4> QED BY <2>2, <4>1, <4>3, <4>4, <4>5
    <3> QED BY <1>11, <3>1, <3>2
  <2>5. ASSUME NEW c \in (updates[e] + 1)..issued[e]
        PROVE  \E s \in AllStreams : \E i \in 1..Len(m_operations'[s]) :
                  IsRecord(m_operations'[s][i], e) /\ m_operations'[s][i].cnt = c
    <3>1. CASE \E g \in Hosts : Asks(g, "event") /\ arg[g].op.event = e /\ arg[g].op.cnt = c
      <4>1. IsRecord(o, e) /\ o.cnt = c
        BY <1>3, <1>4, <3>1 DEF IsRecord, Asks
      <4>2. n \in 1..Len(m_operations'[q])
        BY <1>9 DEF n
      <4> QED BY <1>5, <1>9, <4>1, <4>2
    <3>2. CASE \E s \in AllStreams : \E i \in 1..Len(m_operations[s]) :
                  IsRecord(m_operations[s][i], e) /\ m_operations[s][i].cnt = c
      <4>1. PICK s \in AllStreams : \E i \in 1..Len(m_operations[s]) :
                  IsRecord(m_operations[s][i], e) /\ m_operations[s][i].cnt = c
        BY <3>2
      <4>2. PICK i \in 1..Len(m_operations[s]) :
                  IsRecord(m_operations[s][i], e) /\ m_operations[s][i].cnt = c
        BY <4>1
      <4> QED BY <1>10, <4>2
    <3> QED BY <2>1, <3>1, <3>2 DEF RecordsOf
  <2>6. recorded[e] = 1..updates[e] /\ updates[e] <= issued[e]
    BY <2>1 DEF RecordsOf
  <2>7. updates'[e] = updates[e] /\ issued'[e] = issued[e] /\ recorded'[e] = recorded[e]
        /\ limit_hit' = limit_hit
    BY <1>1
  <2>8. \A s \in AllStreams : \A i \in 1..Len(m_operations'[s]) :
          LET op == m_operations'[s][i]
          IN  IsRecord(op, e) =>
                /\ updates'[e] < op.cnt /\ op.cnt <= issued'[e]
                /\ \E t \in RecordedOn[e] : s = QueueOf(t)'
                /\ op.cnt > updates'[e] + 1 =>
                     \E j \in 1..(i - 1) : /\ IsRecord(m_operations'[s][j], e)
                                           /\ m_operations'[s][j].cnt = op.cnt - 1
                /\ \A j \in 1..(i - 1) :
                     IsRecord(m_operations'[s][j], e) => m_operations'[s][j].cnt < op.cnt
    BY <1>7, <2>4, <2>7
  <2>9. ~limit_hit' => \A c \in (updates'[e] + 1)..issued'[e] :
          \/ \E g \in Hosts : Asks(g, "event")' /\ arg'[g].op.event = e /\ arg'[g].op.cnt = c
          \/ \E s \in AllStreams : \E i \in 1..Len(m_operations'[s]) :
                IsRecord(m_operations'[s][i], e) /\ m_operations'[s][i].cnt = c
    BY <2>5, <2>7
  <2>10. recorded'[e] = 1..updates'[e] /\ updates'[e] <= issued'[e]
    BY <2>6, <2>7
  <2> QED BY <2>8, <2>9, <2>10 DEF RecordsOf
<1> QED BY <1>2, <1>3, <1>13, <1>14 DEF RecordsInOrder, RecordAsked

\* After a limit push() drops the operation, and no record is queued any more.
LEMMA RecordsLimited ==
    ASSUME SingleHost, RecordsInOrder, NEW h \in Hosts, limit_hit,
           UNCHANGED <<m_operations, updates, recorded, issued, limit_hit>>,
           hpc'[h] \notin {"block", "enqueue"}, WaitAsked(h)'
    PROVE  RecordsInOrder'
<1>1. \A g \in Hosts : g = h
  BY DEF SingleHost
<1>2. EventsQueued'
  BY DEF RecordsInOrder, EventsQueued
<1>3. \A t : QueueOf(t)' = QueueOf(t)
  BY DEF QueueOf, Blocks
<1>4. ASSUME NEW e \in Events PROVE RecordsOf(e)'
  <2>1. RecordsOf(e)
    BY DEF RecordsInOrder
  <2> QED BY <1>3, <2>1 DEF RecordsOf
<1>5. \A g \in Hosts : RecordAsked(g)' /\ WaitAsked(g)'
  BY <1>1 DEF RecordAsked, Asks
<1> QED BY <1>2, <1>4, <1>5 DEF RecordsInOrder

LEMMA RecordsHost ==
    ASSUME StreamManagerAssumption, SingleHost, SingleRecorder, TypeOK, TypeOK', PushingAll,
           RecordsInOrder, NEW h \in Hosts, HostCall(h) \/ HostStep(h)
    PROVE  RecordsInOrder'
<1> USE DEF Idle, host, sim, events, gpu
<1>1. WaitAsked(h) /\ (issued[arg[h].op.event] > 0 \/ walkall[h] = None)
  BY DEF RecordsInOrder, WaitAsked
<1>2. CASE EventRecord(h)
  BY <1>2, RecordsIssue
<1>3. CASE Enqueue(h)
  <2>1. WaitAsked(h)'
    <3>1. ~Asks(h, "wait")' /\ issued' = issued
      BY <1>3 DEF Enqueue, Returns, TypeOK, Asks
    <3>2. walkall'[h] # None => walkall[h] # None /\ arg' = arg
      BY <1>3 DEF Enqueue, Returns, TypeOK
    <3> QED BY <1>1, <3>1, <3>2 DEF WaitAsked
  <2>2. CASE ~limit_hit
    BY <1>3, <2>1, <2>2, RecordsAppend
  <2>3. CASE limit_hit
    <3>1. UNCHANGED <<m_operations, updates, recorded, issued, limit_hit>> /\ hpc[h] = "enqueue"
      BY <1>3, <2>3 DEF Enqueue
    <3>2. hpc'[h] \notin {"block", "enqueue"}
      BY <1>3 DEF Enqueue, Returns, TypeOK
    <3> QED BY <2>1, <2>3, <3>1, <3>2, RecordsLimited
  <2> QED BY <2>2, <2>3
<1>4. CASE BlockEnds(h)
  <2>1. /\ UNCHANGED <<m_operations, updates, recorded, issued, limit_hit, arg, walkall>>
        /\ hpc[h] = "block" /\ hpc'[h] = "enqueue"
    BY <1>4 DEF BlockEnds, TypeOK
  <2>2. \A g \in Hosts : g = h
    BY DEF SingleHost
  <2>3. \A g \in Hosts : \A type : Asks(g, type)' <=> Asks(g, type)
    BY <2>1, <2>2 DEF Asks
  <2>4. \A t : QueueOf(t)' = QueueOf(t)
    BY DEF QueueOf, Blocks
  <2>5. EventsQueued'
    BY <2>1 DEF RecordsInOrder, EventsQueued
  <2>6. ASSUME NEW e \in Events PROVE RecordsOf(e)'
    <3>1. RecordsOf(e)
      BY DEF RecordsInOrder
    <3> QED BY <2>1, <2>3, <2>4, <3>1 DEF RecordsOf
  <2>7. \A g \in Hosts : RecordAsked(g)' /\ WaitAsked(g)'
    BY <2>1, <2>3 DEF RecordsInOrder, RecordAsked, WaitAsked
  <2> QED BY <2>5, <2>6, <2>7 DEF RecordsInOrder
<1>5. ASSUME NEW s, NEW op, Push(h, s, op), op.type # "event",
             op.type = "wait" => op.event \in Events /\ op.cnt > 0,
             walkall[h] # None => op.event = arg[h].op.event,
             UNCHANGED <<m_operations, updates, recorded, issued, limit_hit, walkall>>,
             hpc[h] \in {"idle", "pushall"}
      PROVE  RecordsInOrder'
  <2>1. arg'[h].op = op
    BY <1>5 DEF Push, Call, TypeOK
  <2>2. ~Asks(h, "event") /\ ~Asks(h, "event")'
    BY <1>5, <2>1 DEF Asks
  <2>3. WaitAsked(h)'
    BY <1>1, <1>5, <2>1 DEF WaitAsked, Asks
  <2> QED BY <1>5, <2>2, <2>3, RecordsQuiet
<1>6. ASSUME NEW type \in {"memcpy", "kernel"}, LaunchOrCopy(h, type) PROVE RecordsInOrder'
  <2>1. PICK s : Push(h, s, Op(type, None, 0))
    BY <1>6 DEF LaunchOrCopy
  <2>2. Op(type, None, 0).type = type
    BY DEF Op
  <2>3. walkall[h] = None
    BY <1>6 DEF LaunchOrCopy, PushingAll
  <2> QED BY <1>5, <1>6, <2>1, <2>2, <2>3 DEF LaunchOrCopy
<1>7. CASE StreamWaitEvent(h)
  <2>1. PICK e \in Events : issued[e] > 0 /\ \E s : Push(h, s, Op("wait", e, issued[e]))
    BY <1>7 DEF StreamWaitEvent
  <2>2. /\ Op("wait", e, issued[e]).type = "wait" /\ Op("wait", e, issued[e]).event = e
        /\ Op("wait", e, issued[e]).cnt = issued[e]
    BY DEF Op
  <2>3. walkall[h] = None
    BY <1>7 DEF StreamWaitEvent, PushingAll
  <2> QED BY <1>5, <1>7, <2>1, <2>2, <2>3 DEF StreamWaitEvent
<1>8. CASE PushAllStep(h) /\ walkall[h] # Zero
  <2> DEFINE e == arg[h].op.event
  <2>1. /\ Push(h, walkall[h], Op("wait", e, issued[e])) /\ walkall[h] # None
        /\ e \in Events /\ issued[e] > 0
    BY <1>1, <1>8 DEF PushAllStep, PushingAll
  <2>2. /\ Op("wait", e, issued[e]).type = "wait" /\ Op("wait", e, issued[e]).event = e
        /\ Op("wait", e, issued[e]).cnt = issued[e]
    BY DEF Op
  <2> QED BY <1>5, <1>8, <2>1, <2>2 DEF PushAllStep
<1>9. CASE WaitAll(h)
  <2>1. PICK e \in Events : issued[e] > 0 /\ arg' = [arg EXCEPT ![h] = Call(Op("wait", e, issued[e]), None)]
    BY <1>9 DEF WaitAll
  <2>2. arg'[h].op.event = e
    BY <2>1 DEF TypeOK, Call, Op
  <2>3. /\ UNCHANGED <<m_operations, updates, recorded, issued, limit_hit>>
        /\ hpc[h] = "idle" /\ hpc'[h] = "pushall"
    BY <1>9 DEF WaitAll, TypeOK
  <2> QED BY <2>1, <2>2, <2>3, RecordsQuiet DEF Asks, WaitAsked
<1>10. ASSUME UNCHANGED <<m_operations, updates, recorded, issued, limit_hit>>,
              hpc[h] \notin {"block", "enqueue"}, hpc'[h] \notin {"block", "enqueue"},
              walkall'[h] # None => walkall[h] # None /\ arg'[h] = arg[h]
       PROVE  RecordsInOrder'
  <2>1. WaitAsked(h)'
    BY <1>1, <1>10 DEF WaitAsked, Asks
  <2> QED BY <1>10, <2>1, RecordsQuiet DEF Asks
<1>11. CASE \/ StreamCreate(h) \/ Synchronize(h) \/ EventSynchronize(h) \/ StreamDestroy(h)
            \/ ThreadExit(h) \/ SynchronizeStream(h)
  <2>1. /\ UNCHANGED <<m_operations, updates, recorded, issued, limit_hit, walkall>>
        /\ hpc[h] = "idle" /\ hpc'[h] \notin {"block", "enqueue"}
    BY <1>11 DEF StreamCreate, Synchronize, EventSynchronize, StreamDestroy, ThreadExit,
                 SynchronizeStream, TypeOK
  <2>2. walkall[h] = None
    BY <2>1 DEF PushingAll
  <2> QED BY <1>10, <2>1, <2>2
<1>12. CASE PushAllStep(h) /\ walkall[h] = Zero
  <2>1. /\ UNCHANGED <<m_operations, updates, recorded, issued, limit_hit>>
        /\ hpc[h] = "pushall" /\ hpc'[h] = "idle" /\ walkall'[h] = None
    BY <1>12 DEF PushAllStep, TypeOK
  <2> QED BY <1>10, <2>1
<1>13. CASE \/ SyncLock(h) \/ SyncWalk(h) \/ StreamSynchronized(h) \/ DestroyLock(h)
            \/ ExitSignaled(h) \/ StreamReturn(h)
  <2>1. /\ UNCHANGED <<m_operations, updates, recorded, issued, limit_hit, walkall, arg>>
        /\ hpc[h] \notin {"block", "enqueue"} /\ hpc'[h] \notin {"block", "enqueue"}
    BY <1>13, ZenonT(60) DEF SyncLock, SyncWalk, StreamSynchronized, DestroyLock, ExitSignaled,
                 StreamReturn, TypeOK
  <2> QED BY <1>10, <2>1
<1>14. CASE EventDone(h) \/ DestroyErase(h)
  <2>1. /\ UNCHANGED <<m_operations, updates, recorded, issued, limit_hit, walkall>>
        /\ hpc[h] \in {"eventsync", "spin"} /\ hpc'[h] \notin {"block", "enqueue"}
    BY <1>14 DEF EventDone, DestroyErase, TypeOK
  <2>2. walkall[h] = None
    BY <2>1 DEF PushingAll
  <2> QED BY <1>10, <2>1, <2>2
<1>15. CASE Drain(h)
  <2>1. /\ UNCHANGED <<m_operations, updates, recorded, issued, limit_hit>>
        /\ hpc[h] = "drain" /\ hpc'[h] \notin {"block", "enqueue"}
        /\ walkall'[h] # None => walkall[h] # None /\ arg'[h] = arg[h]
    BY <1>15 DEF Drain, Returns, TypeOK
  <2> QED BY <1>10, <2>1
<1> QED BY <1>2, <1>3, <1>4, <1>6, <1>7, <1>8, <1>9, <1>11, <1>12, <1>13, <1>14, <1>15
        DEF HostCall, HostStep

OrderInv == HostInv /\ RecordsInOrder

LEMMA InitOrder ==
    ASSUME StreamManagerAssumption, Init PROVE OrderInv
<1> USE DEF Init
<1>1. HostInv
  BY InitStreams
<1>2. EventsQueued /\ \A h \in Hosts : RecordAsked(h) /\ WaitAsked(h)
  BY DEF EventsQueued, RecordAsked, WaitAsked, Asks
<1>3. ASSUME NEW e \in Events PROVE RecordsOf(e)
  BY DEF RecordsOf
<1> QED BY <1>1, <1>2, <1>3 DEF OrderInv, RecordsInOrder

LEMMA NextOrder ==
    ASSUME StreamManagerAssumption, SingleHost, SingleRecorder, OrderInv, [Next]_vars
    PROVE  OrderInv'
<1> USE DEF OrderInv, HostInv, NamedInv, ListInv, IInv
<1>1. HostInv'
  BY NextExclusive
<1>2. CASE SimStep
  BY <1>1, <1>2, RecordsSim
<1>3. ASSUME NEW h \in Hosts, HostCall(h) \/ HostStep(h) PROVE OrderInv'
  BY <1>1, <1>3, RecordsHost
<1>4. CASE UNCHANGED vars
  <2>1. UNCHANGED <<m_operations, updates, recorded, issued, limit_hit, hpc, arg, walkall>>
    BY <1>4 DEF vars, gpu, events, host
  <2>2. \A h \in Hosts : \A type : Asks(h, type)' <=> Asks(h, type)
    BY <2>1 DEF Asks
  <2>3. \A t : QueueOf(t)' = QueueOf(t)
    BY DEF QueueOf, Blocks
  <2>4. EventsQueued'
    BY <2>1 DEF RecordsInOrder, EventsQueued
  <2>5. ASSUME NEW e \in Events PROVE RecordsOf(e)'
    <3>1. RecordsOf(e)
      BY DEF RecordsInOrder
    <3> QED BY <2>1, <2>2, <2>3, <3>1 DEF RecordsOf
  <2>6. \A g \in Hosts : RecordAsked(g)' /\ WaitAsked(g)'
    BY <2>1, <2>2 DEF RecordsInOrder, RecordAsked, WaitAsked
  <2> QED BY <1>1, <2>4, <2>5, <2>6 DEF RecordsInOrder
<1> QED BY <1>2, <1>3, <1>4 DEF Next

\* A step shortens a queue only by popping it in a step of the simulation thread.
LEMMA ShorterIsPopped ==
    ASSUME StreamManagerAssumption, TypeOK, TypeOK', Bookkeeping, Next, NEW s \in AllStreams,
           Len(m_operations'[s]) < Len(m_operations[s])
    PROVE  \E S \in SUBSET AllStreams : Serves(S) /\ s \in S
<1>1. CASE SimStep
  <2>1. PICK S \in SUBSET AllStreams : Serves(S)
    BY <1>1, SimServes
  <2>2. PICK d \in {0, 1} : Shifted(s, d) /\ (d = 1 <=> s \in S)
    BY <2>1, ServesShift
  <2> QED BY <2>1, <2>2 DEF Shifted
<1>2. ASSUME NEW h \in Hosts, HostCall(h) \/ HostStep(h) PROVE FALSE
  <2>1. Len(m_operations[s]) \in Nat
    BY DEF TypeOK
  <2>2. CASE Enqueue(h) /\ ~limit_hit
    <3>1. m_operations' = [m_operations EXCEPT ![Queue(h)] = Append(@, Queued(h))]
      BY <2>2 DEF Enqueue
    <3>2. CASE s = Queue(h)
      <4>1. m_operations'[s] = Append(m_operations[s], Queued(h)) /\ m_operations[s] \in Seq(Operations)
        BY <3>1, <3>2 DEF TypeOK
      <4>2. Len(m_operations'[s]) = Len(m_operations[s]) + 1
        BY <4>1
      <4> QED BY <2>1, <4>2
    <3>3. CASE s # Queue(h)
      BY <2>1, <3>1, <3>3 DEF TypeOK
    <3> QED BY <3>2, <3>3
  <2>3. CASE ~(Enqueue(h) /\ ~limit_hit)
    <3>1. m_operations' = m_operations
      BY <1>2, <2>3, HostFrame DEF bookvars, Enqueue
    <3> QED BY <2>1, <3>1
  <2> QED BY <2>2, <2>3
<1> QED BY <1>1, <1>2 DEF Next

\* A wait that may go has been overtaken by its record: the counter has counted
\* the records of its event in the order they were issued.
LEMMA WaitsServed ==
    ASSUME TypeOK, RecordsInOrder, NEW S \in SUBSET AllStreams, Serves(S), NEW s \in S,
           Head(m_operations[s]).type = "wait"
    PROVE  Head(m_operations[s]).cnt \in recorded[Head(m_operations[s]).event]
<1> DEFINE op == Head(m_operations[s])
<1>1. m_operations[s] \in Seq(Operations) /\ m_operations[s] # <<>>
  BY DEF TypeOK, Serves, Popped
<1>2. op = m_operations[s][1] /\ 1 \in 1..Len(m_operations[s]) /\ op \in Operations
  BY <1>1
<1>3. op.event \in Events /\ op.cnt > 0 /\ op.cnt \in Nat
  BY <1>2 DEF RecordsInOrder, EventsQueued, Operations
<1>4. updates[op.event] >= op.cnt
  BY DEF Serves
<1>5. recorded[op.event] = 1..updates[op.event] /\ updates[op.event] \in Nat
  BY <1>3 DEF RecordsInOrder, RecordsOf, TypeOK
<1> HIDE DEF op
<1>6. op.cnt \in 1..updates[op.event]
  BY <1>3, <1>4, <1>5
<1> QED BY <1>5, <1>6 DEF op

\* A wait leaves its stream only when the record it was issued after has
\* executed (stream_manager.cc:184-194), although do_operation compares only two
\* counters: for one host thread whose records of an event all go to one stream.
THEOREM WaitsInOrder ==
    ASSUME StreamManagerAssumption, SingleHost, SingleRecorder PROVE Spec => WaitSeesItsRecord
<1>1. Init => OrderInv
  BY InitOrder
<1>2. OrderInv /\ [Next]_vars => OrderInv'
  BY NextOrder
<1>3. OrderInv /\ OrderInv' /\ [Next]_vars =>
        [\A s \in AllStreams :
          LET op == Head(m_operations[s])
          IN  (/\ m_operations[s] # <<>> /\ op.type = "wait"
               /\ Len(m_operations'[s]) < Len(m_operations[s]))
              => op.cnt \in recorded[op.event]]_vars
  <2> SUFFICES ASSUME OrderInv, OrderInv', Next, NEW s \in AllStreams,
                      m_operations[s] # <<>>, Head(m_operations[s]).type = "wait",
                      Len(m_operations'[s]) < Len(m_operations[s])
               PROVE  Head(m_operations[s]).cnt \in recorded[Head(m_operations[s]).event]
    OBVIOUS
  <2> USE DEF OrderInv, HostInv, NamedInv, ListInv, IInv
  <2>1. PICK S \in SUBSET AllStreams : Serves(S) /\ s \in S
    BY ShorterIsPopped
  <2> QED BY <2>1, WaitsServed
<1> QED BY <1>1, <1>2, <1>3, PTL DEF Spec, WaitSeesItsRecord

-----------------------------------------------------------------------------
(* The stream manager implements StreamOrder.                               *)

\* The refinement mapping forgets the latency and nothing else.
LEMMA AcceptedQueue ==
    ASSUME TypeOK, NEW s \in AllStreams
    PROVE  /\ Accepted[s] \in Seq(Operations)
           /\ Len(Accepted[s]) = Len(m_operations[s]) /\ Len(m_operations[s]) \in Nat
           /\ \A i \in 1..Len(m_operations[s]) :
                Accepted[s][i] = Stamp(m_operations[s][i], m_operations[s][i].id, 0)
<1>1. m_operations[s] \in Seq(Operations)
  BY DEF TypeOK
<1>2. ASSUME NEW i \in 1..Len(m_operations[s])
      PROVE  Stamp(m_operations[s][i], m_operations[s][i].id, 0) \in Operations
  <2>1. m_operations[s][i] \in Operations
    BY <1>1
  <2> QED BY <2>1 DEF Operations, Stamp
<1>3. Accepted[s] = [i \in 1..Len(m_operations[s]) |->
                        Stamp(m_operations[s][i], m_operations[s][i].id, 0)]
  BY DEF Accepted
<1> QED BY <1>1, <1>2, <1>3

LEMMA AcceptedFront ==
    ASSUME TypeOK, NEW s \in AllStreams, m_operations[s] # <<>>
    PROVE  /\ Accepted[s] # <<>>
           /\ Head(Accepted[s]).type = Head(m_operations[s]).type
           /\ Head(Accepted[s]).event = Head(m_operations[s]).event
           /\ Head(Accepted[s]).cnt = Head(m_operations[s]).cnt
<1>1. m_operations[s] \in Seq(Operations)
  BY DEF TypeOK
<1>2. 1 \in 1..Len(m_operations[s]) /\ Head(m_operations[s]) = m_operations[s][1]
  BY <1>1
<1>3. /\ Accepted[s] \in Seq(Operations) /\ Len(Accepted[s]) = Len(m_operations[s])
      /\ Accepted[s][1] = Stamp(m_operations[s][1], m_operations[s][1].id, 0)
  BY <1>2, AcceptedQueue
<1>4. Accepted[s] # <<>> /\ Head(Accepted[s]) = Accepted[s][1]
  BY <1>1, <1>2, <1>3
<1> QED BY <1>2, <1>3, <1>4 DEF Stamp

LEMMA AcceptedPop ==
    ASSUME TypeOK, TypeOK', NEW s \in AllStreams, Popped(s)
    PROVE  Accepted'[s] = Tail(Accepted[s])
<1>1. /\ m_operations[s] \in Seq(Operations) /\ m_operations'[s] \in Seq(Operations)
      /\ m_operations[s] # <<>> /\ m_operations'[s] = Tail(m_operations[s])
  BY DEF TypeOK, Popped
<1>2. /\ Len(m_operations'[s]) = Len(m_operations[s]) - 1
      /\ \A i \in 1..Len(m_operations'[s]) :
           i + 1 \in 1..Len(m_operations[s]) /\ m_operations'[s][i] = m_operations[s][i + 1]
  BY <1>1, TailElements
<1>3. Accepted'[s] = [i \in 1..Len(m_operations'[s]) |->
                         Stamp(m_operations'[s][i], m_operations'[s][i].id, 0)]
  BY DEF Accepted
<1>4. /\ Accepted[s] \in Seq(Operations) /\ Len(Accepted[s]) = Len(m_operations[s])
      /\ \A i \in 1..Len(m_operations[s]) :
           Accepted[s][i] = Stamp(m_operations[s][i], m_operations[s][i].id, 0)
  BY AcceptedQueue
<1>5. Tail(Accepted[s]) = [i \in 1..Len(m_operations'[s]) |-> Accepted[s][i + 1]]
  BY <1>1, <1>2, <1>4
<1>6. ASSUME NEW i \in 1..Len(m_operations'[s])
      PROVE  Stamp(m_operations'[s][i], m_operations'[s][i].id, 0) = Accepted[s][i + 1]
  BY <1>2, <1>4
<1> QED BY <1>3, <1>5, <1>6

\* Nothing is queued where the front operation of s must come first.
LEMMA BeforeEmpty ==
    ASSUME StreamManagerAssumption, TypeOK, DeadEmpty, Exclusive,
           NEW s \in AllStreams, m_operations[s] # <<>>, NEW t \in Order!Before(s)
    PROVE  Order!Ids(t) = {}
<1>1. m_operations[Zero] # <<>> => \A u \in Streams : m_operations[u] = <<>>
  BY DEF Exclusive, DeadEmpty, ConcurrentStreamsEmpty
<1>2. t \in AllStreams /\ m_operations[t] = <<>>
  BY <1>1 DEF Order!Before, AllStreams
<1>3. Len(Accepted[t]) = 0
  BY <1>2, AcceptedQueue
<1> QED BY <1>3 DEF Order!Ids

\* What the simulation thread serves in a step, StreamOrder completes.
LEMMA ServesCompletes ==
    ASSUME StreamManagerAssumption, TypeOK, TypeOK', DeadEmpty, Exclusive, RecordsInOrder,
           NEW S \in SUBSET AllStreams, Serves(S)
    PROVE  Order!Complete(S)
<1>1. ASSUME NEW s \in S PROVE Order!MayComplete(s)
  <2>1. m_operations[s] # <<>>
    BY DEF Serves, Popped
  <2>2. \A t \in Order!Before(s) : \A k \in Order!Ids(t) : Head(Accepted[s]).id < k
    BY <2>1, BeforeEmpty
  <2>3. Head(m_operations[s]).type = "wait" =>
           Head(m_operations[s]).cnt \in recorded[Head(m_operations[s]).event]
    BY WaitsServed
  <2> QED BY <2>1, <2>2, <2>3, AcceptedFront DEF Order!MayComplete
<1>2. Accepted' = [s \in Order!All |-> IF s \in S THEN Tail(Accepted[s]) ELSE Accepted[s]]
  <2>1. \A s \in S : Accepted'[s] = Tail(Accepted[s])
    BY AcceptedPop DEF Serves
  <2>2. \A s \in AllStreams \ S : Accepted'[s] = Accepted[s]
    BY DEF Serves
  <2>3. Accepted' = [s \in AllStreams |-> Accepted'[s]] /\ Order!All = AllStreams
    BY DEF Accepted, Order!All, AllStreams
  <2> QED BY <2>1, <2>2, <2>3
<1>3. \A s \in S : /\ m_operations[s] # <<>>
                   /\ Head(Accepted[s]).type = Head(m_operations[s]).type
                   /\ Head(Accepted[s]).event = Head(m_operations[s]).event
                   /\ Head(Accepted[s]).cnt = Head(m_operations[s]).cnt
  BY AcceptedFront DEF Serves, Popped
<1> DEFINE done(e) == {Head(Accepted[s]).cnt : s \in {t \in S : Head(Accepted[t]).type = "event"
                                                               /\ Head(Accepted[t]).event = e}}
<1>4. recorded' = [e \in Events |-> recorded[e] \cup done(e)]
  <2>1. CASE UNCHANGED recorded /\ \A s \in S : Head(m_operations[s]).type # "event"
    <3>1. \A e \in Events : done(e) = {}
      BY <1>3, <2>1
    <3> HIDE DEF done
    <3> QED BY <2>1, <3>1 DEF TypeOK
  <2>2. ASSUME NEW s \in S, S = {s}, Head(m_operations[s]).type = "event",
               recorded' = [recorded EXCEPT ![Head(m_operations[s]).event] =
                               @ \cup {Head(m_operations[s]).cnt}]
        PROVE  recorded' = [e \in Events |-> recorded[e] \cup done(e)]
    <3> DEFINE op == Head(m_operations[s])
    <3>1. \A e : done(e) = IF e = op.event THEN {op.cnt} ELSE {}
      BY <1>3, <2>2
    <3> HIDE DEF done, op
    <3>2. recorded' = [recorded EXCEPT ![op.event] = @ \cup {op.cnt}]
      BY <2>2 DEF op
    <3> QED BY <3>1, <3>2, ZenonT(60) DEF TypeOK
  <2> QED BY <2>1, <2>2 DEF Serves
<1> QED BY <1>1, <1>2, <1>4 DEF Order!Complete

\* push() accepts an operation younger than all that are queued.
LEMMA EnqueueAccepts ==
    ASSUME StreamManagerAssumption, TypeOK, TypeOK', Bookkeeping, StreamsNamed,
           NEW h \in Hosts, Enqueue(h), ~limit_hit
    PROVE  Queue(h) \in AllStreams /\ Order!Accept(Queue(h))
<1> DEFINE s == Queue(h)
           n == Len(m_operations[s]) + 1
<1>1. s \in AllStreams
  BY EnqueueLive, LiveStreams DEF AllStreams, TypeOK, StreamsNamed
<1>2. /\ m_operations'[s] = Append(m_operations[s], Queued(h))
      /\ \A t \in AllStreams \ {s} : m_operations'[t] = m_operations[t]
      /\ UNCHANGED recorded
  BY <1>1 DEF Enqueue, TypeOK, events
<1>3. Queued(h).id = nops + 1
  BY DEF Queued, Stamp
<1> HIDE DEF s
<1>4. m_operations[s] \in Seq(Operations) /\ m_operations'[s] \in Seq(Operations)
  BY <1>1 DEF TypeOK
<1>5. /\ Len(m_operations'[s]) = n /\ m_operations'[s][n] = Queued(h)
      /\ \A i \in 1..Len(m_operations[s]) : m_operations'[s][i] = m_operations[s][i]
      /\ Len(m_operations[s]) \in Nat /\ n \in 1..n
  BY <1>2, <1>4
<1>6. Accepted'[s] = [i \in 1..n |-> Stamp(m_operations'[s][i], m_operations'[s][i].id, 0)]
  BY <1>1, <1>5 DEF Accepted
<1>7. Len(Accepted'[s]) = n /\ Accepted'[s][n].id = nops + 1
  BY <1>3, <1>5, <1>6 DEF Stamp
<1>8. Accepted'[s] = Append(Accepted[s], Accepted'[s][n])
  <2>1. /\ Accepted[s] \in Seq(Operations) /\ Len(Accepted[s]) = Len(m_operations[s])
        /\ \A i \in 1..Len(m_operations[s]) :
             Accepted[s][i] = Stamp(m_operations[s][i], m_operations[s][i].id, 0)
    BY <1>1, AcceptedQueue
  <2>2. Append(Accepted[s], Accepted'[s][n])
          = [i \in 1..n |-> IF i = n THEN Accepted'[s][n] ELSE Accepted[s][i]]
    BY <1>5, <2>1
  <2>3. ASSUME NEW i \in 1..n
        PROVE  Accepted'[s][i] = IF i = n THEN Accepted'[s][n] ELSE Accepted[s][i]
    BY <1>5, <1>6, <2>1
  <2> QED BY <1>6, <2>2, <2>3
<1>9. Accepted' = [Accepted EXCEPT ![s] = Append(@, Accepted'[s][n])]
  <2>1. \A t \in AllStreams \ {s} : Accepted'[t] = Accepted[t]
    BY <1>2, SameQueue
  <2>2. /\ Accepted' = [t \in AllStreams |-> Accepted'[t]]
        /\ Accepted = [t \in AllStreams |-> Accepted[t]]
    BY DEF Accepted
  <2> QED BY <1>1, <1>8, <2>1, <2>2
<1>10. \A t \in Order!All : \A k \in Order!Ids(t) : k < nops + 1
  <2> SUFFICES ASSUME NEW t \in AllStreams, NEW i \in 1..Len(Accepted[t])
               PROVE  Accepted[t][i].id < nops + 1
    BY DEF Order!All, Order!Ids, AllStreams
  <2>1. i \in 1..Len(m_operations[t])
        /\ Accepted[t][i] = Stamp(m_operations[t][i], m_operations[t][i].id, 0)
    BY AcceptedQueue
  <2>2. m_operations[t][i].id <= nops
    BY <2>1 DEF Bookkeeping, IdsBounded
  <2>3. Accepted[t][i].id = m_operations[t][i].id
    BY <2>1 DEF Stamp
  <2>4. m_operations[t][i] \in Operations /\ nops \in Nat
    BY <2>1 DEF TypeOK
  <2> QED BY <2>2, <2>3, <2>4 DEF Operations
<1>11. Len(Accepted'[s]) = Len(Accepted[s]) + 1
  BY <1>1, <1>7, AcceptedQueue
<1>12. Order!Accept(s)
  BY <1>2, <1>7, <1>9, <1>10, <1>11 DEF Order!Accept
<1> QED BY <1>1, <1>12 DEF s

LEMMA HostRecorded ==
    ASSUME NEW h \in Hosts, HostCall(h) \/ HostStep(h)
    PROVE  UNCHANGED recorded
<1> USE DEF events
<1>1. CASE HostCall(h)
  BY <1>1 DEF HostCall, StreamCreate, LaunchOrCopy, EventRecord, StreamWaitEvent, WaitAll,
              Synchronize, EventSynchronize, StreamDestroy, ThreadExit, SynchronizeStream
<1>2. CASE HostStep(h)
  BY <1>2 DEF HostStep, PushAllStep, BlockEnds, Enqueue, Drain, SyncLock, SyncWalk, EventDone,
              StreamSynchronized, DestroyLock, DestroyErase, ExitSignaled, StreamReturn
<1> QED BY <1>1, <1>2

\* The stream manager keeps the order CUDA promises, within a stream, around the
\* default stream and across events, although between streams it looks only at
\* their emptiness and at a counter (stream_manager.cc:184-194, 434-443): for one
\* host thread whose records of an event all go to one stream.
THEOREM KeepsStreamOrder ==
    ASSUME StreamManagerAssumption, SingleHost, SingleRecorder
    PROVE  Spec => ImplementsStreamOrder
<1>1. Init => OrderInv
  BY InitOrder
<1>2. OrderInv /\ [Next]_vars => OrderInv'
  BY NextOrder
<1>3. Init => Order!Init
  <2> SUFFICES ASSUME Init PROVE Order!Init
    OBVIOUS
  <2>1. Accepted = [s \in AllStreams |-> <<>>]
    <3>1. ASSUME NEW s \in AllStreams PROVE Accepted[s] = <<>>
      BY DEF Accepted, Init
    <3> QED BY <3>1 DEF Accepted
  <2> QED BY <2>1 DEF Order!Init, Order!All, AllStreams, Init
<1>4. OrderInv /\ OrderInv' /\ [Next]_vars => [Order!Next]_<<Accepted, recorded>>
  <2> SUFFICES ASSUME OrderInv, OrderInv', [Next]_vars
               PROVE  [Order!Next]_<<Accepted, recorded>>
    OBVIOUS
  <2> USE DEF OrderInv, HostInv, NamedInv, ListInv, IInv
  <2>1. CASE SimStep
    <3>1. PICK S \in SUBSET AllStreams : Serves(S)
      BY <2>1, SimServes
    <3>2. Order!Complete(S)
      BY <3>1, ServesCompletes DEF StreamsNamed
    <3> QED BY <3>2 DEF Order!Next, Order!All, AllStreams
  <2>2. ASSUME NEW h \in Hosts, HostCall(h) \/ HostStep(h)
        PROVE  [Order!Next]_<<Accepted, recorded>>
    <3>1. CASE Enqueue(h) /\ ~limit_hit
      BY <3>1, EnqueueAccepts DEF Order!Next, Order!All, AllStreams
    <3>2. CASE ~(Enqueue(h) /\ ~limit_hit)
      <4>1. UNCHANGED <<m_operations, recorded>>
        BY <2>2, <3>2, HostFrame, HostRecorded DEF bookvars, Enqueue
      <4> QED BY <4>1 DEF Accepted
    <3> QED BY <3>1, <3>2
  <2>3. CASE UNCHANGED vars
    BY <2>3 DEF vars, events, Accepted
  <2> QED BY <2>1, <2>2, <2>3 DEF Next
<1> QED BY <1>1, <1>2, <1>3, <1>4, PTL DEF Spec, ImplementsStreamOrder, Order!Spec
=============================================================================
