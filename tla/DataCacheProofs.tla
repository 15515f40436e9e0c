-------------------------- MODULE DataCacheProofs --------------------------
(***************************************************************************)
(* Proofs about DataCache, for any configurations cache_config::init        *)
(* accepts, any blocks, associativity, MSHRs and miss queue: each address   *)
(* with waiting accesses has one read; and where nothing takes lines away   *)
(* under it, what an access would hit has its data, and dirty data is not   *)
(* forgotten.                                                               *)
(***************************************************************************)
EXTENDS DataCache, FiniteSetTheorems, WellFoundedInduction, TLAPS

Status == {"INVALID", "RESERVED", "VALID", "MODIFIED"}
LineSpace == [tag : Tags \cup {NoTag}, status : [Sectors -> Status], modified_on_fill : [Sectors -> BOOLEAN],
              readable : [Sectors -> BOOLEAN], data : [Sectors -> {"none", "part", "full", "stray"}]]
Requests == [mf : Nat, key : Keys, index : Lines, pending : Nat]
Ops == {"read", "atomic", "write", "part", "local", "alloc"}
EntrySpace == [list : Seq(Ops), has_atomic : BOOLEAN]

Typed ==
    /\ config \in Configs /\ lines \in [Lines -> LineSpace] /\ lru \in [Lines -> Nat] /\ is_used \in BOOLEAN
    /\ m_data \in [Keys -> EntrySpace] /\ m_current_response \in Seq(Keys)
    /\ m_miss_queue \in Seq(Nat) /\ m_extra_mf_fields \subseteq Requests
    /\ accesses \in Nat /\ unsaved \subseteq Keys

\* An address with waiting accesses has one read below or one place among the
\* ready entries.
ReadOf(k) == \E r \in m_extra_mf_fields : r.key = k
Matched ==
    /\ \A k \in Keys : k \in Entries <=> ReadOf(k) \/ Ready(k)
    /\ \A k \in Keys : ~(ReadOf(k) /\ Ready(k))
    /\ \A r, q \in m_extra_mf_fields : r.key = q.key => r = q
    /\ \A m, n \in DOMAIN m_current_response : m_current_response[m] = m_current_response[n] => m = n

\* The line of a request waits for it.
Pinned ==
    config.alloc = "ON_MISS" /\ Settled =>
        \A r \in m_extra_mf_fields :
            lines[r.index].tag = r.key[1] /\ lines[r.index].status[r.key[2]] = "RESERVED"

\* A cache that allocates on fills reserves nothing, has a block in one line,
\* and lacks the sectors it has asked for.
FilledOnce ==
    config.alloc = "ON_FILL" =>
        /\ \A l \in Lines, s \in Sectors : lines[l].status[s] # "RESERVED" /\ lines[l].readable[s]
        /\ \A l, m \in Lines : lines[l].tag = lines[m].tag /\ ~IsInvalid(l) /\ ~IsInvalid(m) => l = m
        /\ \A r \in m_extra_mf_fields, l \in Lines :
              lines[l].tag = r.key[1] => lines[l].status[r.key[2]] = "INVALID"

AtomicsKnown == \A k \in Keys :
    (\E n \in DOMAIN m_data[k].list : m_data[k].list[n] = "atomic") => m_data[k].has_atomic

\* A fill that takes a line evicts without a write-back: without local writes, no
\* dirty data is in a cache that allocates on fills.
Clean == config.alloc = "ON_FILL" /\ WritesBelow => unsaved = {}

IInv == /\ Typed /\ Matched /\ Pinned /\ FilledOnce /\ AtomicsKnown /\ Clean
        /\ Settled => HitsWhole
        /\ Settled /\ WritesBelow => DirtyHeld

-----------------------------------------------------------------------------
(* The tag array.                                                           *)

\* What the assumption says of a configuration.
LEMMA ConfigFacts ==
    ASSUME config \in Configs
    PROVE  /\ config.assoc \in Nat \ {0} /\ config.sectors \subseteq Nat
           /\ config.write \in {"WB", "LWB"} /\ config.alloc \in {"ON_MISS", "ON_FILL"}
           /\ config.miss \in {"NO_WA", "NAIVE", "LAZY"} /\ config.replies \in Nat
           /\ config.accesses \subseteq {"read", "atomic", "write", "part", "local"}
           /\ config.alloc = "ON_FILL" => config.write # "WB" /\ config.miss # "LAZY" /\ "atomic" \notin config.accesses
           /\ config.copies => config.write = "WB"
BY DataCacheAssumption DEF ConfigSpace

\* A set of lines has one whose number is least in any order by numbers.
LEMMA MinimumExists ==
    ASSUME NEW S, S # {}, NEW f \in [S -> Nat]
    PROVE  \E x \in S : \A y \in S : f[x] <= f[y]
<1> DEFINE T == {f[x] : x \in S}
<1>1. T \subseteq Nat /\ T # {}
  OBVIOUS
<1>2. PICK i \in T : \A j \in T : ~(<<j, i>> \in OpToRel(<, Nat))
  BY <1>1, NatLessThanWellFounded, WFMin
<1>3. \A j \in T : ~(j < i)
  BY <1>1, <1>2 DEF OpToRel
<1>4. PICK x \in S : f[x] = i
  BY <1>2
<1>5. ASSUME NEW y \in S PROVE f[x] <= f[y]
  <2>1. f[y] \in T /\ f[y] \in Nat /\ f[x] \in Nat
    OBVIOUS
  <2> QED BY <1>3, <1>4, <2>1
<1> QED BY <1>5

LEMMA LeastIn ==
    ASSUME NEW S, S \subseteq Nat, S # {}
    PROVE  Least(S) \in S
<1>1. PICK x \in S : \A y \in S : [z \in S |-> z][x] <= [z \in S |-> z][y]
  <2>1. [z \in S |-> z] \in [S -> Nat]
    OBVIOUS
  <2> QED BY <2>1, MinimumExists
<1>2. \A y \in S : x <= y
  BY <1>1
<1> QED BY <1>2 DEF Least

LEMMA GreatestIn ==
    ASSUME NEW n \in Nat, NEW S, S \subseteq 1..n, S # {}
    PROVE  Greatest(S) \in S
<1>1. PICK x \in S : \A y \in S : [z \in S |-> n - z][x] <= [z \in S |-> n - z][y]
  <2>1. [z \in S |-> n - z] \in [S -> Nat]
    OBVIOUS
  <2> QED BY <2>1, MinimumExists
<1>2. \A y \in S : x >= y
  BY <1>1
<1> QED BY <1>2 DEF Greatest

LEMMA OldestIn ==
    ASSUME NEW S, S \subseteq Lines, S # {}, lru \in [Lines -> Nat]
    PROVE  Oldest(S) \in S
<1>1. [z \in S |-> lru[z]] \in [S -> Nat]
  OBVIOUS
<1>2. PICK x \in S : \A y \in S : [z \in S |-> lru[z]][x] <= [z \in S |-> lru[z]][y]
  BY <1>1, MinimumExists
<1>3. \A y \in S : lru[x] <= lru[y]
  BY <1>2
<1> QED BY <1>3 DEF Oldest

\* The line a miss takes has nothing reserved.
LEMMA VictimFree ==
    ASSUME Typed, \E l \in Lines : ~IsReserved(l)
    PROVE  Victim \in Lines /\ ~IsReserved(Victim)
<1> DEFINE free == {l \in Lines : ~IsReserved(l)}
           invalid == {l \in free : IsInvalid(l)}
<1>1. free # {} /\ free \subseteq Lines /\ config.assoc \in Nat
  BY ConfigFacts DEF Typed
<1>2. CASE invalid # {}
  <2>1. Greatest(invalid) \in invalid
    BY <1>1, <1>2, GreatestIn DEF Lines
  <2> QED BY <1>2, <2>1 DEF Victim
<1>3. CASE invalid = {}
  <2>1. Oldest(free) \in free
    BY <1>1, OldestIn DEF Typed
  <2> QED BY <1>3, <2>1 DEF Victim
<1> QED BY <1>2, <1>3

\* What probe() finds.
Statuses == {"HIT", "HIT_RESERVED", "SECTOR_MISS", "MISS", "RESERVATION_FAIL"}
ProbeResult(t, s, p) ==
    /\ p.status \in Statuses
    /\ IF p.status = "RESERVATION_FAIL" THEN \A l \in Lines : IsReserved(l) ELSE p.idx \in Lines
    /\ p.status \in {"HIT", "HIT_RESERVED", "SECTOR_MISS"} => lines[p.idx].tag = t /\ ~IsInvalid(p.idx)
    /\ p.status = "HIT" =>
          \/ lines[p.idx].status[s] = "VALID"
          \/ lines[p.idx].status[s] = "MODIFIED" /\ lines[p.idx].readable[s]
    /\ p.status = "HIT_RESERVED" => lines[p.idx].status[s] = "RESERVED"
    /\ p.status = "SECTOR_MISS" =>
          \/ lines[p.idx].status[s] = "INVALID"
          \/ lines[p.idx].status[s] = "MODIFIED" /\ ~lines[p.idx].readable[s]
    /\ p.status = "MISS" => ~IsReserved(p.idx) /\ \A l \in Lines : lines[l].tag = t => IsInvalid(l)

LEMMA ProbeFinds ==
    ASSUME Typed, NEW t \in Tags, NEW s \in Sectors
    PROVE  ProbeResult(t, s, Probe(t, s))
<1> DEFINE match == {l \in Lines : lines[l].tag = t /\ ~IsInvalid(l)}
           l0 == Least(match)
           status == lines[l0].status[s]
<1>1. CASE match # {}
  <2>1. l0 \in match
    <3>1. match \subseteq Nat
      BY ConfigFacts DEF Typed, Lines
    <3> QED BY <1>1, <3>1, LeastIn
  <2>2. lines[l0] \in LineSpace /\ status \in Status
    BY <2>1 DEF Typed, LineSpace
  <2>3. Probe(t, s) = [idx |-> l0, status |->
                CASE status = "RESERVED" -> "HIT_RESERVED"
                  [] status = "VALID" \/ (status = "MODIFIED" /\ lines[l0].readable[s]) -> "HIT"
                  [] OTHER -> "SECTOR_MISS"]
    BY <1>1 DEF Probe
  <2> HIDE DEF match, l0, status
  <2>4. CASE status = "RESERVED"
    <3>1. Probe(t, s).status = "HIT_RESERVED" /\ Probe(t, s).idx = l0
      BY <2>3, <2>4
    <3> QED BY <2>1, <2>4, <3>1 DEF ProbeResult, Statuses, match, status
  <2>5. CASE status = "VALID" \/ (status = "MODIFIED" /\ lines[l0].readable[s])
    <3>1. Probe(t, s).status = "HIT" /\ Probe(t, s).idx = l0
      BY <2>3, <2>5
    <3> QED BY <2>1, <2>5, <3>1 DEF ProbeResult, Statuses, match, status
  <2>6. CASE status = "INVALID" \/ (status = "MODIFIED" /\ ~lines[l0].readable[s])
    <3>1. Probe(t, s).status = "SECTOR_MISS" /\ Probe(t, s).idx = l0
      BY <2>3, <2>6
    <3> QED BY <2>1, <2>6, <3>1 DEF ProbeResult, Statuses, match, status
  <2> QED BY <2>2, <2>4, <2>5, <2>6 DEF Status
<1>2. CASE match = {} /\ \A x \in Lines : IsReserved(x)
  BY <1>2 DEF Probe, ProbeResult, Statuses
<1>3. CASE match = {} /\ \E x \in Lines : ~IsReserved(x)
  <2>1. Probe(t, s) = [idx |-> Victim, status |-> "MISS"]
    BY <1>3 DEF Probe
  <2>2. Probe(t, s).idx = Victim /\ Probe(t, s).status = "MISS"
    BY <2>1
  <2> QED BY <1>3, <2>2, VictimFree DEF ProbeResult, Statuses
<1> QED BY <1>1, <1>2, <1>3

-----------------------------------------------------------------------------
(* Lines.                                                                   *)

\* What HitsWhole and DirtyHeld say of one sector of one line.
HasData(line, x) ==
    line.status[x] = "VALID" \/ (line.status[x] = "MODIFIED" /\ line.readable[x]) => line.data[x] = "full"
Dirty(line, x) == line.status[x] = "MODIFIED" \/ (line.status[x] = "RESERVED" /\ line.modified_on_fill[x])

\* A sector is given a status that keeps what the line says of the others.
LEMMA SetStatus ==
    ASSUME Typed, NEW l \in Lines, NEW s \in Sectors, NEW v \in Status, lines' = [lines EXCEPT ![l].status[s] = v]
    PROVE  /\ lines' \in [Lines -> LineSpace]
           /\ \A m \in Lines : m # l => lines'[m] = lines[m]
           /\ lines'[l].tag = lines[l].tag /\ lines'[l].modified_on_fill = lines[l].modified_on_fill
           /\ lines'[l].readable = lines[l].readable /\ lines'[l].data = lines[l].data
           /\ \A x \in Sectors : lines'[l].status[x] = IF x = s THEN v ELSE lines[l].status[x]
<1> DEFINE old == lines[l]
           new == [old EXCEPT !.status[s] = v]
<1>1. lines \in [Lines -> LineSpace] /\ old \in LineSpace
  BY DEF Typed
<1>2. lines' = [lines EXCEPT ![l] = new]
  OBVIOUS
<1>3. /\ new \in LineSpace /\ new.tag = old.tag /\ new.modified_on_fill = old.modified_on_fill
      /\ new.readable = old.readable /\ new.data = old.data
      /\ new.status[s] = v /\ \A x \in Sectors : x # s => new.status[x] = old.status[x]
  BY <1>1 DEF LineSpace
<1> HIDE DEF new
<1>4. lines' \in [Lines -> LineSpace] /\ lines'[l] = new /\ \A m \in Lines : m # l => lines'[m] = lines[m]
  BY <1>1, <1>2, <1>3
<1>5. \A x \in Sectors : lines'[l].status[x] = IF x = s THEN v ELSE lines[l].status[x]
  <2>1. lines'[l].status = new.status
    BY <1>4
  <2>2. \A x \in Sectors : new.status[x] = IF x = s THEN v ELSE old.status[x]
    BY <1>3
  <2> QED BY <2>1, <2>2
<1> QED BY <1>3, <1>4, <1>5

\* The line of a block that gets a sector: new in the line, or with the sectors
\* it had.
Fresh(n, t, s) ==
    /\ n \in LineSpace /\ n.tag = t /\ n.status[s] = "RESERVED"
    /\ \A x \in Sectors : n.readable[x] /\ (x # s => n.status[x] = "INVALID")
More(n, old, s) ==
    /\ n \in LineSpace /\ n.tag = old.tag /\ n.status[s] = "RESERVED"
    /\ \A x \in Sectors : /\ old.readable[x] => n.readable[x]
                          /\ x # s => /\ n.status[x] = old.status[x] /\ n.readable[x] = old.readable[x]
                                      /\ n.modified_on_fill[x] = old.modified_on_fill[x] /\ n.data[x] = old.data[x]
    /\ Dirty(old, s) => Dirty(n, s)

LEMMA AllocatedLine ==
    ASSUME Typed, NEW t \in Tags, NEW s \in Sectors, NEW p, ProbeResult(t, s, p),
           p.status \in {"HIT_RESERVED", "SECTOR_MISS", "MISS"}
    PROVE  LET n == Allocate(t, s, p)
           IN  /\ p.status = "MISS" => Fresh(n, t, s)
               /\ p.status # "MISS" => More(n, lines[p.idx], s)
<1>1. p.idx \in Lines /\ lines[p.idx] \in LineSpace
  BY DEF ProbeResult, Typed
<1>2. CASE p.status = "MISS"
  <2> DEFINE n == AllocateSector(Cleared(t), s)
  <2>1. Cleared(t) \in LineSpace
    BY DEF Cleared, LineSpace, Status
  <2>2. Fresh(n, t, s)
    BY <2>1 DEF Fresh, AllocateSector, Cleared, LineSpace, Status
  <2> QED BY <1>2, <2>2 DEF Allocate
<1>3. CASE p.status = "SECTOR_MISS"
  <2> DEFINE old == lines[p.idx]
             n == AllocateSector(old, s)
  <2>1. n \in LineSpace /\ n.tag = old.tag /\ n.status[s] = "RESERVED"
        /\ n.modified_on_fill[s] = (old.status[s] = "MODIFIED") /\ n.readable[s]
    BY <1>1 DEF AllocateSector, LineSpace, Status
  <2>2. \A x \in Sectors : x # s =>
          /\ n.status[x] = old.status[x] /\ n.readable[x] = old.readable[x]
          /\ n.modified_on_fill[x] = old.modified_on_fill[x] /\ n.data[x] = old.data[x]
    BY <1>1 DEF AllocateSector, LineSpace
  <2>3. Dirty(old, s) => Dirty(n, s)
    BY <1>3, <2>1 DEF Dirty, ProbeResult
  <2>4. More(n, old, s)
    BY <2>1, <2>2, <2>3 DEF More
  <2> QED BY <1>3, <2>4 DEF Allocate
<1>4. CASE p.status = "HIT_RESERVED"
  <2>1. Allocate(t, s, p) = lines[p.idx] /\ lines[p.idx].status[s] = "RESERVED"
    BY <1>4 DEF Allocate, ProbeResult
  <2> QED BY <1>1, <1>4, <2>1 DEF More
<1> QED BY <1>2, <1>3, <1>4

\* A line with one sector filled.
LEMMA FilledLine ==
    ASSUME Typed, NEW line \in LineSpace, NEW r \in Requests
    PROVE  LET n == Filled(line, r)
               s == r.key[2]
           IN  /\ n \in LineSpace /\ n.tag = line.tag /\ n.readable = line.readable
               /\ n.modified_on_fill = line.modified_on_fill
               /\ n.status[s] = IF line.modified_on_fill[s] \/ m_data[r.key].has_atomic THEN "MODIFIED" ELSE "VALID"
               /\ n.data[s] = IF line.tag = r.key[1] THEN "full" ELSE "stray"
               /\ \A x \in Sectors : x # s => n.status[x] = line.status[x] /\ n.data[x] = line.data[x]
<1> DEFINE s == r.key[2]
           data == IF line.tag = r.key[1] THEN "full" ELSE "stray"
           status == IF line.modified_on_fill[s] THEN "MODIFIED" ELSE "VALID"
           filled == [line EXCEPT !.status[s] = status, !.data[s] = data]
           dirty == [filled EXCEPT !.status[s] = "MODIFIED"]
<1>1. /\ s \in Sectors /\ "MODIFIED" \in Status
      /\ status \in Status /\ data \in {"none", "part", "full", "stray"}
  BY DEF Requests, Keys, Status
<1>2. Filled(line, r) = IF m_data[r.key].has_atomic THEN dirty ELSE filled
  BY DEF Filled, FillSector
<1> HIDE DEF s, data, status
<1>3. /\ filled \in LineSpace /\ filled.tag = line.tag /\ filled.readable = line.readable
      /\ filled.modified_on_fill = line.modified_on_fill
      /\ filled.status[s] = status /\ filled.data[s] = data
      /\ \A x \in Sectors : x # s => filled.status[x] = line.status[x] /\ filled.data[x] = line.data[x]
  BY <1>1 DEF LineSpace
<1> HIDE DEF filled
<1>4. /\ dirty \in LineSpace /\ dirty.tag = filled.tag /\ dirty.readable = filled.readable
      /\ dirty.modified_on_fill = filled.modified_on_fill /\ dirty.data = filled.data
      /\ dirty.status[s] = "MODIFIED" /\ \A x \in Sectors : x # s => dirty.status[x] = filled.status[x]
  BY <1>1, <1>3 DEF LineSpace
<1> HIDE DEF dirty
<1>5. CASE m_data[r.key].has_atomic
  BY <1>2, <1>3, <1>4, <1>5 DEF s, data, status
<1>6. CASE ~m_data[r.key].has_atomic
  BY <1>2, <1>3, <1>6 DEF s, data, status
<1> QED BY <1>5, <1>6

-----------------------------------------------------------------------------
(* Types.                                                                   *)

LEMMA AccessFacts ==
    ASSUME config \in Configs, NEW a \in Accesses
    PROVE  /\ a.tag \in Tags /\ a.sector \in Sectors /\ KeyOf(a) \in Keys
           /\ a.op \in Ops /\ a.op \in {"read", "atomic", "write", "part", "local"}
BY ConfigFacts DEF Accesses, KeyOf, Keys, Sectors, Ops

\* The operands of every type are those of the state before, as the
\* configuration does not change.
LEMMA SameShape ==
    ASSUME UNCHANGED config
    PROVE  /\ Lines' = Lines /\ Sectors' = Sectors /\ Keys' = Keys
           /\ LineSpace' = LineSpace /\ Requests' = Requests
BY DEF Lines, Sectors, Keys, LineSpace, Requests

LEMMA Touched ==
    ASSUME Typed, NEW l \in Lines, Touch(l)
    PROVE  lru' \in [Lines -> Nat]
<1>1. config.assoc \in Nat /\ lru \in [Lines -> Nat]
  BY ConfigFacts DEF Typed
<1>2. \A x \in Lines : lru[x] > lru[l] => lru[x] - 1 \in Nat
  BY <1>1
<1> QED BY <1>1, <1>2 DEF Touch

\* A read miss, or the read of a write that allocates.
Sends(a, op) ==
    LET p == Probe(a.tag, a.sector)
    IN  /\ ProbeResult(a.tag, a.sector, p) /\ p.status \in {"HIT_RESERVED", "SECTOR_MISS", "MISS"}
        /\ op \in Ops /\ Accept /\ UNCHANGED <<config, m_current_response>>
        /\ config.races \/ LateAtomic(KeyOf(a), op) = {}
        /\ \E first \in Seq(Nat) : SendReadRequest(a, p, op, first)

LEMMA MissSends ==
    ASSUME Typed, NEW a \in Accesses, RdMissBase(a) \/ WrMissWaNaive(a)
    PROVE  \E op : Sends(a, op)
<1> DEFINE p == Probe(a.tag, a.sector)
<1>1. ProbeResult(a.tag, a.sector, p)
  BY AccessFacts, ProbeFinds DEF Typed
<1>2. <<>> \in Seq(Nat) /\ <<0>> \in Seq(Nat)
  OBVIOUS
<1>3. p.status # "HIT" /\ p.status # "RESERVATION_FAIL"
  BY DEF RdMissBase, WrMissWaNaive, SendReadRequest
<1>4. p.status \in {"HIT_RESERVED", "SECTOR_MISS", "MISS"}
  BY <1>1, <1>3 DEF ProbeResult, Statuses
<1> HIDE DEF p
<1>5. CASE RdMissBase(a)
  <2>1. Accept /\ SendReadRequest(a, p, a.op, <<>>) /\ UNCHANGED <<config, m_current_response>>
    BY <1>5 DEF RdMissBase, p
  <2>2. a.op \in Ops /\ (config.races \/ LateAtomic(KeyOf(a), a.op) = {})
    BY <1>5, AccessFacts DEF Typed, RdMissBase
  <2>3. Sends(a, a.op)
    BY <1>1, <1>2, <1>4, <2>1, <2>2 DEF Sends, p
  <2> QED BY <2>3
<1>6. CASE WrMissWaNaive(a)
  <2>1. Accept /\ SendReadRequest(a, p, "alloc", <<0>>) /\ UNCHANGED <<config, m_current_response>>
    BY <1>6 DEF WrMissWaNaive, p
  <2>2. \E first \in Seq(Nat) : SendReadRequest(a, p, "alloc", first)
    BY <1>2, <2>1
  <2>3. "alloc" \in Ops /\ LateAtomic(KeyOf(a), "alloc") = {}
    BY DEF Ops, LateAtomic
  <2>4. Sends(a, "alloc")
    BY <1>1, <1>4, <2>1, <2>2, <2>3 DEF Sends, p
  <2> QED BY <2>4
<1> QED BY <1>5, <1>6

\* The new value of the line it takes.
LEMMA AccessedLine ==
    ASSUME Typed, NEW a \in Accesses, NEW p, ProbeResult(a.tag, a.sector, p),
           p.status \in {"HIT_RESERVED", "SECTOR_MISS", "MISS"}
    PROVE  LET n == Accessed(a, p)
               s == a.sector
           IN  /\ p.idx \in Lines /\ n \in LineSpace
               /\ config.alloc = "ON_FILL" => n = lines[p.idx]
               /\ config.alloc = "ON_MISS" /\ p.status = "MISS" => Fresh(n, a.tag, s)
               /\ config.alloc = "ON_MISS" /\ p.status # "MISS" =>
                     More(n, lines[p.idx], s) /\ lines[p.idx].tag = a.tag
<1>1. p.idx \in Lines /\ lines[p.idx] \in LineSpace /\ a.tag \in Tags /\ a.sector \in Sectors
  BY AccessFacts DEF Typed, ProbeResult
<1>2. CASE config.alloc = "ON_MISS"
  <2>1. Accessed(a, p) = Allocate(a.tag, a.sector, p)
    BY <1>2 DEF Accessed
  <2>2. /\ p.status = "MISS" => Fresh(Accessed(a, p), a.tag, a.sector)
        /\ p.status # "MISS" => More(Accessed(a, p), lines[p.idx], a.sector)
    BY <1>1, <2>1, AllocatedLine
  <2>3. p.status # "MISS" => lines[p.idx].tag = a.tag
    BY DEF ProbeResult
  <2> QED BY <1>1, <1>2, <2>2, <2>3 DEF Fresh, More
<1>3. CASE config.alloc = "ON_FILL"
  BY <1>1, <1>3 DEF Accessed
<1> QED BY <1>2, <1>3, ConfigFacts DEF Typed

LEMMA TypedSends ==
    ASSUME Typed, NEW a \in Accesses, NEW op, Sends(a, op)
    PROVE  Typed'
<1> DEFINE p == Probe(a.tag, a.sector)
           k == KeyOf(a)
<1>1. /\ ProbeResult(a.tag, a.sector, p) /\ p.status \in {"HIT_RESERVED", "SECTOR_MISS", "MISS"}
      /\ op \in Ops /\ Accept /\ UNCHANGED <<config, m_current_response>>
  BY DEF Sends
<1> PICK first \in Seq(Nat) : SendReadRequest(a, p, op, first)
  BY DEF Sends
<1>2. p.idx \in Lines /\ Accessed(a, p) \in LineSpace
  BY <1>1, AccessedLine
<1>3. k \in Keys /\ config.replies \in Nat
  BY AccessFacts, ConfigFacts DEF Typed
<1> HIDE DEF p, k
<1>4. lines' \in [Lines -> LineSpace]
  BY <1>2 DEF SendReadRequest, Typed
<1>5. lru' \in [Lines -> Nat]
  <2>1. TouchAccessed(p)
    BY DEF SendReadRequest
  <2> QED BY <1>2, <2>1, Touched DEF TouchAccessed, Typed
<1>6. m_data' \in [Keys -> EntrySpace]
  <2>1. m_data' = [m_data EXCEPT ![k].list = Append(@, op), ![k].has_atomic = @ \/ op = "atomic"]
    BY DEF SendReadRequest, k
  <2>2. m_data[k] \in EntrySpace
    BY <1>3 DEF Typed
  <2>3. [m_data[k] EXCEPT !.list = Append(@, op), !.has_atomic = @ \/ op = "atomic"] \in EntrySpace
    <3>1. m_data[k].list \in Seq(Ops) /\ (m_data[k].has_atomic \/ op = "atomic") \in BOOLEAN
      BY <2>2 DEF EntrySpace
    <3>2. Append(m_data[k].list, op) \in Seq(Ops)
      BY <1>1, <3>1
    <3> QED BY <2>2, <3>1, <3>2 DEF EntrySpace
  <2>4. m_data' = [m_data EXCEPT ![k] = [m_data[k] EXCEPT !.list = Append(@, op), !.has_atomic = @ \/ op = "atomic"]]
    BY <1>3, <2>1, <2>2 DEF Typed, EntrySpace
  <2> QED BY <1>3, <2>3, <2>4 DEF Typed
<1>7. m_extra_mf_fields' \subseteq Requests
  <2>1. [mf |-> accesses + 1, key |-> k, index |-> p.idx, pending |-> config.replies] \in Requests
    BY <1>2, <1>3 DEF Requests, Typed
  <2> QED BY <2>1 DEF SendReadRequest, Typed, k
<1>8. m_miss_queue' \in Seq(Nat)
  <2> DEFINE read == IF k \notin Entries THEN <<accesses + 1>> ELSE <<>>
  <2>1. WriteBack(p) \in Seq(Nat) /\ read \in Seq(Nat)
    BY DEF WriteBack, Typed
  <2>2. m_miss_queue' = m_miss_queue \o first \o read \o WriteBack(p)
    BY DEF SendReadRequest, k
  <2> QED BY <2>1, <2>2 DEF Typed
<1>9. unsaved' \subseteq Keys /\ is_used' \in BOOLEAN /\ accesses' \in Nat
  <2>1. unsaved' = (unsaved \ WrittenBack(p)) \cup LateAtomic(k, op) /\ is_used' = TRUE
    BY DEF SendReadRequest, k
  <2>2. LateAtomic(k, op) \subseteq {k}
    BY DEF LateAtomic
  <2> QED BY <1>1, <1>3, <2>1, <2>2 DEF Accept, Typed
<1> QED BY <1>1, <1>4, <1>5, <1>6, <1>7, <1>8, <1>9, SameShape DEF Typed

\* What wr_miss_wa_lazy_fetch_on_read makes of the line it takes.
LazyLine(a, p) ==
    [Accessed(a, p) EXCEPT !.status[a.sector] = "MODIFIED", !.readable[a.sector] = (a.op = "write"),
                           !.modified_on_fill[a.sector] = @ \/ p.status = "HIT_RESERVED",
                           !.data[a.sector] = IF a.op = "write" THEN "full" ELSE "part"]

LEMMA LazyWrites ==
    ASSUME Typed, NEW a \in Accesses, NEW p, Accessed(a, p) \in LineSpace
    PROVE  LET n == LazyLine(a, p)
               line == Accessed(a, p)
               s == a.sector
           IN  /\ n \in LineSpace /\ n.tag = line.tag /\ n.status[s] = "MODIFIED"
               /\ n.readable[s] => n.data[s] = "full"
               /\ \A x \in Sectors : x # s =>
                     /\ n.status[x] = line.status[x] /\ n.readable[x] = line.readable[x]
                     /\ n.modified_on_fill[x] = line.modified_on_fill[x] /\ n.data[x] = line.data[x]
<1> DEFINE s == a.sector
           line == Accessed(a, p)
           written == IF a.op = "write" THEN "full" ELSE "part"
           whole == (a.op = "write")
           mof == (line.modified_on_fill[s] \/ p.status = "HIT_RESERVED")
           n == [line EXCEPT !.status[s] = "MODIFIED", !.readable[s] = whole, !.modified_on_fill[s] = mof,
                             !.data[s] = written]
<1>1. s \in Sectors /\ line \in LineSpace
  BY AccessFacts DEF Typed
<1>2. /\ written \in {"none", "part", "full", "stray"} /\ whole \in BOOLEAN /\ mof \in BOOLEAN
      /\ whole => written = "full"
  OBVIOUS
<1>3. LazyLine(a, p) = n
  BY DEF LazyLine
<1> HIDE DEF s, line, written, whole, mof
<1>4. /\ n \in LineSpace /\ n.tag = line.tag /\ n.status[s] = "MODIFIED" /\ n.readable[s] = whole /\ n.data[s] = written
      /\ \A x \in Sectors : x # s =>
            /\ n.status[x] = line.status[x] /\ n.readable[x] = line.readable[x]
            /\ n.modified_on_fill[x] = line.modified_on_fill[x] /\ n.data[x] = line.data[x]
  BY <1>1, <1>2 DEF LineSpace, Status
<1> QED BY <1>2, <1>3, <1>4 DEF s, line

\* A write that allocates its sector without a fetch.
LEMMA LazyFacts ==
    ASSUME Typed, NEW a \in Accesses, WrMissWaLazy(a)
    PROVE  LET p == Probe(a.tag, a.sector)
           IN  /\ ProbeResult(a.tag, a.sector, p) /\ p.status \in {"HIT_RESERVED", "SECTOR_MISS", "MISS"}
               /\ p.idx \in Lines /\ Accessed(a, p) \in LineSpace /\ LazyLine(a, p) \in LineSpace
               /\ config.alloc = "ON_MISS"
               /\ lines' = [lines EXCEPT ![p.idx] = LazyLine(a, p)]
<1> DEFINE p == Probe(a.tag, a.sector)
<1>1. ProbeResult(a.tag, a.sector, p)
  BY AccessFacts, ProbeFinds DEF Typed
<1>2. p.status \in {"HIT_RESERVED", "SECTOR_MISS", "MISS"}
  BY <1>1 DEF WrMissWaLazy, ProbeResult, Statuses
<1>3. config.alloc = "ON_MISS"
  BY ConfigFacts DEF WrMissWaLazy, Typed
<1>4. p.idx \in Lines /\ Accessed(a, p) \in LineSpace
  BY <1>1, <1>2, AccessedLine
<1>5. LazyLine(a, p) \in LineSpace
  BY <1>4, LazyWrites
<1>6. lines' = [lines EXCEPT ![p.idx] = LazyLine(a, p)]
  BY DEF WrMissWaLazy, LazyLine
<1> QED BY <1>1, <1>2, <1>3, <1>4, <1>5, <1>6

\* What a fill finds: the line of the request, or the one the tags give it.
LEMMA FillFacts ==
    ASSUME Typed, FilledOnce, NEW r \in m_extra_mf_fields, FillByAddress(r)
    PROVE  LET p == Probe(r.key[1], r.key[2])
           IN  /\ r \in Requests /\ r.key[1] \in Tags /\ r.key[2] \in Sectors /\ r.key \in Keys
               /\ ProbeResult(r.key[1], r.key[2], p) /\ p.status \in {"SECTOR_MISS", "MISS"} /\ p.idx \in Lines
               /\ config.alloc = "ON_FILL"
<1> DEFINE p == Probe(r.key[1], r.key[2])
<1>1. r \in Requests /\ r.key[1] \in Tags /\ r.key[2] \in Sectors /\ r.key \in Keys /\ config.alloc = "ON_FILL"
  BY DEF Typed, Requests, Keys, FillByAddress
<1>2. ProbeResult(r.key[1], r.key[2], p)
  BY <1>1, ProbeFinds
<1>3. p.status # "RESERVATION_FAIL"
  <2>1. 1 \in Lines /\ ~IsReserved(1)
    BY <1>1, ConfigFacts DEF FilledOnce, IsReserved, Lines, Typed
  <2> QED BY <1>2, <2>1 DEF ProbeResult
<1>4. p.status # "HIT_RESERVED" /\ p.status # "HIT"
  BY <1>1, <1>2 DEF ProbeResult, FilledOnce
<1> QED BY <1>1, <1>2, <1>3, <1>4 DEF ProbeResult, Statuses

\* A copy leaves some line in the place the tags give it, in an L2 only.
LEMMA CopyFacts ==
    ASSUME Typed, NEW k \in Keys, ForceTagAccess(k)
    PROVE  LET p == Probe(k[1], k[2])
           IN  /\ p.idx \in Lines /\ config.copies /\ config.alloc = "ON_MISS" /\ UNCHANGED config
               /\ \E n \in LineSpace : lines' = [lines EXCEPT ![p.idx] = n]
<1> DEFINE p == Probe(k[1], k[2])
           line == Allocate(k[1], k[2], p)
           n == FillSector(line, k[2], "full")
<1>1. k[1] \in Tags /\ k[2] \in Sectors
  BY DEF Keys
<1>2. /\ config.copies /\ p.status # "RESERVATION_FAIL" /\ lines' = [lines EXCEPT ![p.idx] = n] /\ UNCHANGED config
  BY DEF ForceTagAccess, Untouched
<1>3. ProbeResult(k[1], k[2], p) /\ p.idx \in Lines
  BY <1>1, <1>2, ProbeFinds DEF ProbeResult
<1>4. config.alloc = "ON_MISS"
  BY <1>2, ConfigFacts DEF Typed
<1>5. line \in LineSpace
  <2>1. CASE p.status = "HIT"
    BY <1>3, <2>1 DEF Allocate, Typed
  <2>2. CASE p.status \in {"HIT_RESERVED", "SECTOR_MISS", "MISS"}
    <3>1. /\ p.status = "MISS" => Fresh(line, k[1], k[2])
          /\ p.status # "MISS" => More(line, lines[p.idx], k[2])
      BY <1>1, <1>3, <2>2, AllocatedLine
    <3> QED BY <3>1 DEF Fresh, More
  <2> QED BY <1>2, <1>3, <2>1, <2>2 DEF ProbeResult, Statuses
<1> HIDE DEF line, p
<1>6. n \in LineSpace
  BY <1>1, <1>5 DEF FillSector, LineSpace, Status
<1> QED BY <1>2, <1>3, <1>4, <1>6 DEF p

\* An access that writes the sector it hits.
HitWrite(a) ==
    LET p == Probe(a.tag, a.sector)
    IN  /\ ProbeResult(a.tag, a.sector, p) /\ p.status = "HIT" /\ p.idx \in Lines
        /\ SetModified(p.idx, a.sector) /\ Touch(p.idx) /\ unsaved' = unsaved \cup {KeyOf(a)}
        /\ Accept /\ is_used' = TRUE /\ Untouched /\ UNCHANGED m_miss_queue

LEMMA HitCases ==
    ASSUME Typed, NEW a \in Accesses, RdHitBase(a) \/ WrHitWb(a)
    PROVE  \/ HitWrite(a)
           \/ \E l \in Lines : /\ Touch(l) /\ Accept /\ is_used' = TRUE
                               /\ Untouched /\ UNCHANGED <<lines, unsaved, m_miss_queue>>
<1> DEFINE p == Probe(a.tag, a.sector)
<1>1. ProbeResult(a.tag, a.sector, p) /\ p.status = "HIT"
  BY AccessFacts, ProbeFinds DEF Typed, RdHitBase, WrHitWb
<1>2. p.idx \in Lines
  BY <1>1 DEF ProbeResult
<1> QED BY <1>1, <1>2 DEF RdHitBase, WrHitWb, HitWrite

LEMMA TypedAccess ==
    ASSUME Typed, NEW a \in Accesses,
           RdHitBase(a) \/ WrHitWb(a) \/ WrHitWe(a) \/ WrMissNoWa(a) \/ WrMissWaLazy(a)
    PROVE  Typed'
<1> DEFINE p == Probe(a.tag, a.sector)
<1>1. a.tag \in Tags /\ a.sector \in Sectors /\ KeyOf(a) \in Keys
  BY AccessFacts DEF Typed
<1>2. "MODIFIED" \in Status /\ "INVALID" \in Status
  BY DEF Status
<1>3. CASE HitWrite(a)
  <2> USE <1>3
  <2>1. p.idx \in Lines /\ lines' = [lines EXCEPT ![p.idx].status[a.sector] = "MODIFIED"] /\ Touch(p.idx)
    BY DEF HitWrite, SetModified
  <2>2. lines' \in [Lines -> LineSpace]
    BY <1>1, <1>2, <2>1, SetStatus
  <2>3. lru' \in [Lines -> Nat]
    BY <2>1, Touched
  <2>4. UNCHANGED <<config, m_data, m_current_response, m_extra_mf_fields, m_miss_queue>>
        /\ is_used' = TRUE /\ accesses' = accesses + 1 /\ unsaved' = unsaved \cup {KeyOf(a)}
    BY DEF HitWrite, Untouched, Accept
  <2> QED BY <1>1, <2>2, <2>3, <2>4, SameShape DEF Typed
<1>4. ASSUME NEW l \in Lines, Touch(l), Accept, is_used' = TRUE, Untouched, UNCHANGED <<lines, unsaved, m_miss_queue>>
      PROVE  Typed'
  <2>1. lru' \in [Lines -> Nat]
    BY <1>4, Touched
  <2> QED BY <1>4, <2>1, SameShape DEF Typed, Accept, Untouched
<1>5. CASE WrHitWe(a)
  <2> USE <1>5
  <2>1. p.idx \in Lines
    <3>1. ProbeResult(a.tag, a.sector, p) /\ p.status = "HIT"
      BY <1>1, ProbeFinds DEF WrHitWe
    <3> QED BY <3>1 DEF ProbeResult
  <2>2. lines' \in [Lines -> LineSpace]
    BY <1>1, <1>2, <2>1, SetStatus DEF WrHitWe
  <2>3. UNCHANGED <<config, m_data, m_current_response, m_extra_mf_fields, lru, is_used>>
        /\ m_miss_queue' = Append(m_miss_queue, 0) /\ accesses' = accesses + 1 /\ unsaved' = unsaved \ {KeyOf(a)}
    BY DEF WrHitWe, Untouched, Accept
  <2> QED BY <2>2, <2>3, SameShape DEF Typed
<1>6. CASE WrMissNoWa(a)
  <2>1. UNCHANGED <<config, m_data, m_current_response, m_extra_mf_fields, lines, lru, is_used, unsaved>>
        /\ m_miss_queue' = Append(m_miss_queue, 0) /\ accesses' = accesses + 1
    BY <1>6 DEF WrMissNoWa, Untouched, Accept
  <2> QED BY <2>1, SameShape DEF Typed
<1>7. CASE WrMissWaLazy(a)
  <2> USE <1>7
  <2>1. p.idx \in Lines /\ LazyLine(a, p) \in LineSpace /\ lines' = [lines EXCEPT ![p.idx] = LazyLine(a, p)]
    BY LazyFacts
  <2>2. /\ UNCHANGED <<config, m_data, m_current_response, m_extra_mf_fields>> /\ TouchAccessed(p)
        /\ m_miss_queue' = m_miss_queue \o WriteBack(p) /\ is_used' = TRUE /\ accesses' = accesses + 1
        /\ unsaved' = (unsaved \ WrittenBack(p)) \cup {KeyOf(a)}
    BY DEF WrMissWaLazy, Accept, Untouched
  <2> HIDE DEF p
  <2>4. lru' \in [Lines -> Nat]
    BY <2>1, <2>2, Touched DEF TouchAccessed, Typed
  <2>5. m_miss_queue' \in Seq(Nat)
    <3>1. WriteBack(p) \in Seq(Nat)
      BY DEF WriteBack
    <3> QED BY <2>2, <3>1 DEF Typed
  <2>6. lines' \in [Lines -> LineSpace]
    BY <2>1 DEF Typed
  <2> QED BY <1>1, <2>2, <2>4, <2>5, <2>6, SameShape DEF Typed
<1> QED BY <1>3, <1>4, <1>5, <1>6, <1>7, HitCases

LEMMA TypedAnswers ==
    ASSUME Typed, FilledOnce, Matched,
           Cycle \/ Fill \/ NextAccess \/ (\E S \in SUBSET Lines : Drop(S)) \/ (\E k \in Keys : ForceTagAccess(k))
    PROVE  Typed'
<1>1. CASE Cycle
  <2>1. Tail(m_miss_queue) \in Seq(Nat)
    BY <1>1 DEF Cycle, Typed
  <2> QED BY <1>1, <2>1, SameShape DEF Cycle, Typed
<1>2. ASSUME NEW r \in m_extra_mf_fields, FillPart(r)
      PROVE  Typed'
  <2>1. [r EXCEPT !.pending = @ - 1] \in Requests
    <3>1. r \in Requests /\ r.pending \in Nat /\ r.pending > 1
      BY <1>2 DEF FillPart, Typed, Requests
    <3>2. r.pending - 1 \in Nat
      BY <3>1
    <3> QED BY <3>1, <3>2 DEF Requests
  <2> QED BY <1>2, <2>1, SameShape DEF FillPart, Typed
<1>3. ASSUME NEW r \in m_extra_mf_fields, FillByIndex(r)
      PROVE  Typed'
  <2>1. r \in Requests /\ r.index \in Lines /\ r.key \in Keys /\ lines[r.index] \in LineSpace
    BY DEF Typed, Requests
  <2>2. lines' = [lines EXCEPT ![r.index] = Filled(lines[r.index], r)] /\ Filled(lines[r.index], r) \in LineSpace
    BY <1>3, <2>1, FilledLine DEF FillByIndex
  <2>3. lines' \in [Lines -> LineSpace]
    BY <2>1, <2>2 DEF Typed
  <2>4. m_extra_mf_fields' \subseteq Requests
    BY <1>3 DEF FillByIndex, Typed
  <2>5. m_current_response' = Append(m_current_response, r.key)
        /\ UNCHANGED <<config, lru, is_used, m_data, m_miss_queue, accesses>>
    BY <1>3 DEF FillByIndex, MarkReady
  <2>6. unsaved' \subseteq Keys
    BY <1>3, <2>1 DEF FillByIndex, Typed
  <2> QED BY <2>1, <2>3, <2>4, <2>5, <2>6, SameShape DEF Typed
<1>4. ASSUME NEW r \in m_extra_mf_fields, FillByAddress(r)
      PROVE  Typed'
  <2> DEFINE p == Probe(r.key[1], r.key[2])
             n == Allocate(r.key[1], r.key[2], p)
  <2>1. /\ r \in Requests /\ r.key[1] \in Tags /\ r.key[2] \in Sectors /\ r.key \in Keys
        /\ ProbeResult(r.key[1], r.key[2], p) /\ p.status \in {"SECTOR_MISS", "MISS"} /\ p.idx \in Lines
    BY <1>4, FillFacts
  <2>2. n \in LineSpace
    BY <2>1, AllocatedLine DEF Fresh, More
  <2>3. /\ lines' = [lines EXCEPT ![p.idx] = Filled(n, r)] /\ m_extra_mf_fields' = m_extra_mf_fields \ {r}
        /\ m_current_response' = Append(m_current_response, r.key)
        /\ UNCHANGED <<config, is_used, m_data, m_miss_queue, accesses, unsaved>>
    BY <1>4 DEF FillByAddress, MarkReady
  <2>4. Touch(p.idx)
    BY <1>4, <2>1 DEF FillByAddress
  <2> HIDE DEF p, n
  <2>5. lines' \in [Lines -> LineSpace] /\ lru' \in [Lines -> Nat]
    BY <2>1, <2>2, <2>3, <2>4, FilledLine, Touched DEF Typed
  <2> QED BY <2>1, <2>3, <2>5, SameShape DEF Typed
<1>5. CASE NextAccess
  <2> DEFINE k == Head(m_current_response)
             left == Tail(m_data[k].list)
             entry == [list |-> left, has_atomic |-> m_data[k].has_atomic /\ left # <<>>]
  <2>1. k \in Keys /\ m_current_response # <<>> /\ m_data[k] \in EntrySpace
    BY <1>5 DEF NextAccess, Typed
  <2>2. k \in Entries
    <3>1. Ready(k)
      BY <2>1 DEF Ready, Typed
    <3> QED BY <2>1, <3>1 DEF Matched
  <2>3. entry \in EntrySpace
    <3>1. m_data[k].list \in Seq(Ops) /\ m_data[k].list # <<>> /\ m_data[k].has_atomic \in BOOLEAN
      BY <2>1, <2>2 DEF EntrySpace, Entries
    <3>2. left \in Seq(Ops) /\ (m_data[k].has_atomic /\ left # <<>>) \in BOOLEAN
      BY <3>1
    <3> QED BY <3>2 DEF EntrySpace
  <2>4. m_data' = [m_data EXCEPT ![k] = entry]
    BY <1>5 DEF NextAccess
  <2>5. m_current_response' \in Seq(Keys)
    BY <1>5, <2>1 DEF NextAccess, Typed
  <2> HIDE DEF k, left, entry
  <2>6. m_data' \in [Keys -> EntrySpace]
    BY <2>1, <2>3, <2>4 DEF Typed
  <2>7. UNCHANGED <<config, lines, lru, is_used, m_miss_queue, m_extra_mf_fields, accesses, unsaved>>
    BY <1>5 DEF NextAccess
  <2> QED BY <2>5, <2>6, <2>7, SameShape DEF Typed
<1>6. ASSUME NEW S \in SUBSET Lines, Drop(S)
      PROVE  Typed'
  <2>1. \A l \in Lines : [lines[l] EXCEPT !.status = [s \in Sectors |-> "INVALID"]] \in LineSpace
    BY DEF Typed, LineSpace, Status
  <2>2. lines' \in [Lines -> LineSpace]
    BY <1>6, <2>1 DEF Drop, Typed
  <2>3. UNCHANGED <<config, lru, m_data, m_current_response, m_miss_queue, m_extra_mf_fields, accesses, unsaved>>
        /\ is_used' = FALSE
    BY <1>6 DEF Drop
  <2> QED BY <2>2, <2>3, SameShape DEF Typed
<1>7. ASSUME NEW k \in Keys, ForceTagAccess(k)
      PROVE  Typed'
  <2> DEFINE p == Probe(k[1], k[2])
  <2>1. PICK n \in LineSpace : p.idx \in Lines /\ lines' = [lines EXCEPT ![p.idx] = n]
    BY <1>7, CopyFacts
  <2>2. /\ (Touch(p.idx) \/ UNCHANGED lru)
        /\ UNCHANGED <<config, m_data, m_current_response, m_extra_mf_fields, is_used, m_miss_queue, accesses, unsaved>>
    BY <1>7 DEF ForceTagAccess, Untouched
  <2> HIDE DEF p
  <2>3. lines' \in [Lines -> LineSpace] /\ lru' \in [Lines -> Nat]
    BY <2>1, <2>2, Touched DEF Typed
  <2> QED BY <2>2, <2>3, SameShape DEF Typed
<1> QED BY <1>1, <1>2, <1>3, <1>4, <1>5, <1>6, <1>7 DEF Fill

-----------------------------------------------------------------------------
(* Reads and the entries that wait for them.                                *)

\* Requests whose other fields change stay the requests of their addresses.
LEMMA SameReads ==
    ASSUME Matched, UNCHANGED <<config, m_data, m_current_response>>,
           NEW g, m_extra_mf_fields' = {g[r] : r \in m_extra_mf_fields},
           \A r \in m_extra_mf_fields : g[r].key = r.key
    PROVE  Matched'
<1>1. Keys' = Keys /\ Entries' = Entries
  BY SameShape DEF Entries
<1>2. \A k \in Keys : ReadOf(k)' <=> ReadOf(k)
  BY DEF ReadOf
<1>3. \A k \in Keys : Ready(k)' <=> Ready(k)
  BY DEF Ready
<1>4. \A r, q \in m_extra_mf_fields' : r.key = q.key => r = q
  BY DEF Matched
<1> QED BY <1>1, <1>2, <1>3, <1>4 DEF Matched

LEMMA MatchedSends ==
    ASSUME Typed, Matched, NEW a \in Accesses, NEW op, Sends(a, op)
    PROVE  Matched'
<1> DEFINE p == Probe(a.tag, a.sector)
           k == KeyOf(a)
           new == [mf |-> accesses + 1, key |-> k, index |-> p.idx, pending |-> config.replies]
<1> PICK first \in Seq(Nat) : SendReadRequest(a, p, op, first)
  BY DEF Sends
<1>1. op \in Ops /\ UNCHANGED <<config, m_current_response>> /\ k \in Keys /\ m_data[k] \in EntrySpace
  BY AccessFacts DEF Sends, Typed
<1>2. /\ m_data' = [m_data EXCEPT ![k].list = Append(@, op), ![k].has_atomic = @ \/ op = "atomic"]
      /\ m_extra_mf_fields' = m_extra_mf_fields \cup (IF k \notin Entries THEN {new} ELSE {})
  BY DEF SendReadRequest
<1>3. new.key = k
  OBVIOUS
<1> HIDE DEF p, k, new
<1>4. Keys' = Keys /\ Entries' = Entries \cup {k}
  <2>1. m_data'[k].list = Append(m_data[k].list, op) /\ m_data[k].list \in Seq(Ops)
    BY <1>1, <1>2 DEF Typed, EntrySpace
  <2>2. m_data'[k].list # <<>>
    BY <1>1, <2>1
  <2>3. \A x \in Keys : x # k => m_data'[x] = m_data[x]
    BY <1>1, <1>2 DEF Typed
  <2>4. Keys' = Keys
    BY <1>1, SameShape
  <2> QED BY <1>1, <2>2, <2>3, <2>4 DEF Entries
<1>5. \A x \in Keys : ReadOf(x)' <=> ReadOf(x) \/ (k \notin Entries /\ x = k)
  BY <1>2, <1>3 DEF ReadOf
<1>6. \A x \in Keys : Ready(x)' <=> Ready(x)
  BY <1>1 DEF Ready
<1>7. \A r, q \in m_extra_mf_fields' : r.key = q.key => r = q
  <2>1. k \notin Entries => \A r \in m_extra_mf_fields : r.key # k
    BY <1>1 DEF Matched, ReadOf
  <2> QED BY <1>2, <1>3, <2>1 DEF Matched
<1> QED BY <1>1, <1>4, <1>5, <1>6, <1>7 DEF Matched

LEMMA MatchedFill ==
    ASSUME Typed, Matched, NEW r \in m_extra_mf_fields, MarkReady(r),
           NEW g, m_extra_mf_fields' = {g[x] : x \in m_extra_mf_fields \ {r}},
           \A x \in m_extra_mf_fields : g[x].key = x.key
    PROVE  Matched'
<1>1. /\ m_current_response' = Append(m_current_response, r.key) /\ UNCHANGED <<config, m_data>>
      /\ r.key \in Keys /\ m_current_response \in Seq(Keys)
  BY DEF MarkReady, Typed, Requests
<1>2. Keys' = Keys /\ Entries' = Entries
  BY <1>1, SameShape DEF Entries
<1>3. \A k \in Keys : ReadOf(k)' <=> ReadOf(k) /\ k # r.key
  BY DEF ReadOf, Matched
<1> DEFINE old == m_current_response
           new == m_current_response'
<1>4. /\ DOMAIN new = 1..(Len(old) + 1) /\ DOMAIN old = 1..Len(old) /\ Len(old) \in Nat
      /\ \A n \in DOMAIN old : new[n] = old[n]
      /\ new[Len(old) + 1] = r.key
  BY <1>1
<1> HIDE DEF old, new
<1>5. \A k \in Keys : Ready(k)' <=> Ready(k) \/ k = r.key
  <2>1. \A k \in Keys : Ready(k)' <=> \E n \in DOMAIN new : new[n] = k
    BY DEF Ready, new
  <2>2. \A k \in Keys : Ready(k) <=> \E n \in DOMAIN old : old[n] = k
    BY DEF Ready, old
  <2>3. \A n \in DOMAIN new : n \in DOMAIN old \/ n = Len(old) + 1
    BY <1>4
  <2>4. Len(old) + 1 \in DOMAIN new /\ \A n \in DOMAIN old : n \in DOMAIN new
    BY <1>4
  <2> QED BY <1>4, <2>1, <2>2, <2>3, <2>4
<1>6. ReadOf(r.key) /\ ~Ready(r.key)
  BY <1>1 DEF ReadOf, Matched
<1>7. \A m, n \in DOMAIN new : new[m] = new[n] => m = n
  <2>1. \A n \in DOMAIN old : old[n] # r.key
    BY <1>6 DEF Ready, old
  <2>2. \A m, n \in DOMAIN old : old[m] = old[n] => m = n
    BY DEF Matched, old
  <2>3. \A n \in DOMAIN new : n \in DOMAIN old \/ n = Len(old) + 1
    BY <1>4
  <2> QED BY <1>4, <2>1, <2>2, <2>3
<1>8. \A x, y \in m_extra_mf_fields' : x.key = y.key => x = y
  BY DEF Matched
<1> QED BY <1>1, <1>2, <1>3, <1>5, <1>6, <1>7, <1>8 DEF Matched, new

LEMMA MatchedNext ==
    ASSUME Typed, Matched, NextAccess
    PROVE  Matched'
<1> DEFINE k == Head(m_current_response)
           left == Tail(m_data[k].list)
           old == m_current_response
           new == m_current_response'
<1>1. /\ old # <<>> /\ old \in Seq(Keys) /\ k \in Keys /\ UNCHANGED <<config, m_extra_mf_fields>>
      /\ m_data' = [m_data EXCEPT ![k] = [list |-> left, has_atomic |-> m_data[k].has_atomic /\ left # <<>>]]
      /\ new = IF left = <<>> THEN Tail(old) ELSE old
  BY DEF NextAccess, Typed
<1>2. /\ m_data'[k].list = left /\ \A x \in Keys : x # k => m_data'[x] = m_data[x]
  BY <1>1 DEF Typed
<1>3. Keys' = Keys
  BY <1>1, SameShape
<1>4. Ready(k) /\ k \in Entries /\ ~ReadOf(k)
  <2>1. Ready(k)
    BY <1>1 DEF Ready
  <2> QED BY <1>1, <2>1 DEF Matched
<1>5. \A x \in Keys : ReadOf(x)' <=> ReadOf(x)
  BY <1>1 DEF ReadOf
<1>6. Entries' = IF left = <<>> THEN Entries \ {k} ELSE Entries
  BY <1>1, <1>2, <1>3, <1>4 DEF Entries
<1>7. CASE left # <<>>
  <2>1. UNCHANGED m_current_response
    BY <1>1, <1>7
  <2>2. \A x \in Keys : Ready(x)' <=> Ready(x)
    BY <2>1 DEF Ready
  <2>3. Entries' = Entries /\ UNCHANGED m_extra_mf_fields
    BY <1>1, <1>6, <1>7
  <2> HIDE DEF k, left, old, new
  <2> QED BY <1>3, <1>5, <2>1, <2>2, <2>3 DEF Matched
<1>8. CASE left = <<>>
  <2>1. new = Tail(old) /\ Entries' = Entries \ {k}
    BY <1>1, <1>6, <1>8
  <2>2. /\ Len(old) \in Nat \ {0} /\ DOMAIN old = 1..Len(old) /\ DOMAIN new = 1..(Len(old) - 1) /\ old[1] = k
        /\ \A n \in DOMAIN new : new[n] = old[n + 1] /\ n + 1 \in DOMAIN old
    <3>1. old \in Seq(Keys) /\ old # <<>>
      BY <1>1
    <3> HIDE DEF old, new
    <3>2. Len(old) \in Nat \ {0} /\ DOMAIN old = 1..Len(old)
      BY <3>1
    <3>3. new \in Seq(Keys) /\ Len(new) = Len(old) - 1 /\ \A n \in 1..Len(new) : new[n] = old[n + 1]
      BY <2>1, <3>1
    <3>4. DOMAIN new = 1..(Len(old) - 1)
      BY <3>3
    <3>5. \A n \in DOMAIN new : n + 1 \in DOMAIN old
      BY <3>2, <3>4
    <3>6. k = old[1]
      BY <3>1 DEF old
    <3> QED BY <3>2, <3>3, <3>4, <3>5, <3>6
  <2> HIDE DEF k, left, old, new
  <2>3. \A m, n \in DOMAIN old : old[m] = old[n] => m = n
    BY DEF Matched, old
  <2>4. \A m, n \in DOMAIN new : new[m] = new[n] => m = n
    <3>1. ASSUME NEW m \in DOMAIN new, NEW n \in DOMAIN new, new[m] = new[n] PROVE m = n
      <4>1. m + 1 = n + 1
        BY <2>2, <2>3, <3>1
      <4> QED BY <2>2, <4>1
    <3> QED BY <3>1
  <2>5. \A x \in Keys : Ready(x)' <=> Ready(x) /\ x # k
    <3>1. \A x \in Keys : Ready(x)' <=> \E n \in DOMAIN new : new[n] = x
      BY DEF Ready, new
    <3>2. \A x \in Keys : Ready(x) <=> \E n \in DOMAIN old : old[n] = x
      BY DEF Ready, old
    <3>3. \A n \in DOMAIN old : n = 1 \/ (n - 1 \in DOMAIN new /\ new[n - 1] = old[n])
      BY <2>2
    <3>4. \A n \in DOMAIN new : n + 1 # 1 /\ 1 \in DOMAIN old
      BY <2>2
    <3>5. \A n \in DOMAIN new : new[n] # k
      BY <2>2, <2>3, <3>4
    <3> QED BY <2>2, <3>1, <3>2, <3>3, <3>5
  <2> QED BY <1>1, <1>3, <1>4, <1>5, <2>1, <2>4, <2>5 DEF Matched, new
<1> QED BY <1>7, <1>8

LEMMA Drops ==
    ASSUME Invalidate \/ Flush
    PROVE  config.discards /\ \E S \in SUBSET Lines : Drop(S)
<1>1. CASE Invalidate
  BY <1>1 DEF Invalidate
<1>2. CASE Flush
  <2>1. {l \in Lines : IsModified(l)} \in SUBSET Lines
    OBVIOUS
  <2> QED BY <1>2, <2>1 DEF Flush
<1> QED BY <1>1, <1>2

\* The step of an access, of an answer, of a discard or of a copy.
LEMMA Steps ==
    ASSUME Typed, Next
    PROVE  \/ \E a \in Accesses : \/ \E op : Sends(a, op)
                                  \/ RdHitBase(a) \/ WrHitWb(a) \/ WrHitWe(a) \/ WrMissNoWa(a) \/ WrMissWaLazy(a)
           \/ Cycle \/ NextAccess \/ (config.discards /\ \E S \in SUBSET Lines : Drop(S))
           \/ \E k \in Keys : ForceTagAccess(k)
           \/ \E r \in m_extra_mf_fields : FillPart(r) \/ FillByIndex(r) \/ FillByAddress(r)
<1>1. CASE Access
  <2>1. PICK a \in Accesses :
          RdHitBase(a) \/ RdMissBase(a) \/ WrHitWb(a) \/ WrHitWe(a) \/ WrMissNoWa(a) \/ WrMissWaNaive(a) \/ WrMissWaLazy(a)
    BY <1>1 DEF Access
  <2>2. CASE RdMissBase(a) \/ WrMissWaNaive(a)
    <3>1. \E op : Sends(a, op)
      BY <2>2, MissSends
    <3> QED BY <3>1
  <2> QED BY <2>1, <2>2
<1> QED BY <1>1, Drops DEF Next, Fill

LEMMA TypedStep ==
    ASSUME Typed, Matched, FilledOnce, Next \/ UNCHANGED vars
    PROVE  Typed'
<1>1. CASE UNCHANGED vars
  BY <1>1, SameShape DEF Typed, vars
<1>2. CASE Next
  BY <1>2, Steps, TypedSends, TypedAccess, TypedAnswers DEF Fill
<1> QED BY <1>1, <1>2

LEMMA MatchedStep ==
    ASSUME Typed, Matched, Next \/ UNCHANGED vars
    PROVE  Matched'
<1> DEFINE id == [r \in m_extra_mf_fields |-> r]
<1>1. ASSUME UNCHANGED <<config, m_data, m_current_response, m_extra_mf_fields>>
      PROVE  Matched'
  <2>1. m_extra_mf_fields' = {id[r] : r \in m_extra_mf_fields} /\ \A r \in m_extra_mf_fields : id[r].key = r.key
    BY <1>1
  <2> HIDE DEF id
  <2> QED BY <1>1, <2>1, SameReads
<1>2. CASE UNCHANGED vars
  BY <1>1, <1>2 DEF vars
<1>3. ASSUME NEW a \in Accesses, NEW op, Sends(a, op)
      PROVE  Matched'
  BY <1>3, MatchedSends
<1>4. ASSUME NEW a \in Accesses, RdHitBase(a) \/ WrHitWb(a) \/ WrHitWe(a) \/ WrMissNoWa(a) \/ WrMissWaLazy(a)
      PROVE  Matched'
  BY <1>1, <1>4 DEF RdHitBase, WrHitWb, WrHitWe, WrMissNoWa, WrMissWaLazy, Untouched
<1>6. ASSUME NEW r \in m_extra_mf_fields, FillPart(r)
      PROVE  Matched'
  <2> DEFINE g == [x \in m_extra_mf_fields |-> IF x = r THEN [r EXCEPT !.pending = @ - 1] ELSE x]
  <2>1. m_extra_mf_fields' = {g[x] : x \in m_extra_mf_fields}
        /\ UNCHANGED <<config, m_data, m_current_response>>
    BY <1>6 DEF FillPart
  <2>2. \A x \in m_extra_mf_fields : g[x].key = x.key
    BY DEF Typed, Requests
  <2> HIDE DEF g
  <2> QED BY <2>1, <2>2, SameReads
<1>7. ASSUME NEW r \in m_extra_mf_fields, FillByIndex(r) \/ FillByAddress(r)
      PROVE  Matched'
  <2>1. m_extra_mf_fields' = {id[x] : x \in m_extra_mf_fields \ {r}} /\ MarkReady(r)
        /\ \A x \in m_extra_mf_fields : id[x].key = x.key
    BY <1>7 DEF FillByIndex, FillByAddress
  <2> HIDE DEF id
  <2> QED BY <2>1, MatchedFill
<1>8. ASSUME NEW S \in SUBSET Lines, Drop(S)
      PROVE  Matched'
  BY <1>1, <1>8 DEF Drop
<1>9. ASSUME NEW k \in Keys, ForceTagAccess(k)
      PROVE  Matched'
  BY <1>1, <1>9 DEF ForceTagAccess, Untouched
<1>10. CASE Cycle
  BY <1>1, <1>10 DEF Cycle
<1> QED BY <1>2, <1>3, <1>4, <1>6, <1>7, <1>8, <1>9, <1>10, MatchedNext, Steps

-----------------------------------------------------------------------------
(* What the lines and the requests have to do with each other.              *)

LEMMA ConfigKept ==
    ASSUME Typed, Next \/ UNCHANGED vars
    PROVE  UNCHANGED config
BY Steps, CopyFacts DEF vars, Sends, RdHitBase, WrHitWb, WrHitWe, WrMissNoWa, WrMissWaLazy, Untouched, Cycle,
     NextAccess, Drop, FillPart, FillByIndex, FillByAddress, MarkReady

\* The steps of a cache whose requests keep their lines.
LEMMA SettledSteps ==
    ASSUME Typed, Settled, Next
    PROVE  \/ \E a \in Accesses : \/ \E op : Sends(a, op) /\ LateAtomic(KeyOf(a), op) = {}
                                  \/ RdHitBase(a) \/ WrHitWb(a) \/ WrHitWe(a) \/ WrMissNoWa(a)
                                  \/ WrMissWaLazy(a) /\ KeyOf(a) \notin Entries
           \/ Cycle \/ NextAccess
           \/ \E r \in m_extra_mf_fields : FillPart(r) \/ FillByIndex(r) \/ FillByAddress(r)
<1>1. \A k \in Keys : ~ForceTagAccess(k)
  BY CopyFacts DEF Settled
<1>2. \A a \in Accesses : \A op : Sends(a, op) => LateAtomic(KeyOf(a), op) = {}
  BY DEF Sends, Settled
<1>3. \A a \in Accesses : WrMissWaLazy(a) => KeyOf(a) \notin Entries
  BY DEF WrMissWaLazy, Settled
<1> QED BY <1>1, <1>2, <1>3, Steps DEF Settled

\* A request after a step is one that was there.
SameRead(q, r) == q.key = r.key /\ q.index = r.index

LEMMA PinnedSends ==
    ASSUME Typed, Pinned, NEW a \in Accesses, NEW op, Sends(a, op)
    PROVE  Pinned'
<1> DEFINE p == Probe(a.tag, a.sector)
           s == a.sector
           k == KeyOf(a)
           n == Accessed(a, p)
           new == [mf |-> accesses + 1, key |-> k, index |-> p.idx, pending |-> config.replies]
<1> PICK first \in Seq(Nat) : SendReadRequest(a, p, op, first)
  BY DEF Sends
<1> SUFFICES ASSUME config.alloc = "ON_MISS", Settled
             PROVE  \A r \in m_extra_mf_fields' :
                        lines'[r.index].tag = r.key[1] /\ lines'[r.index].status[r.key[2]] = "RESERVED"
  BY DEF Pinned, Sends, Settled
<1>1. ProbeResult(a.tag, s, p) /\ p.status \in {"HIT_RESERVED", "SECTOR_MISS", "MISS"}
  BY DEF Sends
<1>2. p.idx \in Lines /\ n \in LineSpace /\ lines' = [lines EXCEPT ![p.idx] = n]
      /\ m_extra_mf_fields' \subseteq m_extra_mf_fields \cup {new}
  BY <1>1, AccessedLine DEF SendReadRequest
<1>3. IF p.status = "MISS" THEN Fresh(n, a.tag, s) ELSE More(n, lines[p.idx], s) /\ lines[p.idx].tag = a.tag
  BY <1>1, AccessedLine
<1>4. n.tag = a.tag /\ n.status[s] = "RESERVED"
  BY <1>3 DEF Fresh, More
<1>5. lines'[p.idx] = n /\ \A l \in Lines : l # p.idx => lines'[l] = lines[l]
  BY <1>2 DEF Typed
<1>6. new.key = <<a.tag, s>> /\ new.index = p.idx
  BY DEF KeyOf
<1>7. \A r \in m_extra_mf_fields : r.index \in Lines /\ r.key[1] \in Tags /\ r.key[2] \in Sectors
  BY DEF Typed, Requests, Keys
<1>8. ASSUME NEW r \in m_extra_mf_fields
      PROVE  lines'[r.index].tag = r.key[1] /\ lines'[r.index].status[r.key[2]] = "RESERVED"
  <2>1. lines[r.index].tag = r.key[1] /\ lines[r.index].status[r.key[2]] = "RESERVED"
    BY <1>8 DEF Pinned
  <2>2. CASE r.index = p.idx
    <3>1. p.status # "MISS"
      BY <1>1, <1>7, <2>1, <2>2 DEF ProbeResult, IsReserved
    <3> HIDE DEF n, p
    <3> QED BY <1>3, <1>4, <1>5, <1>7, <2>1, <2>2, <3>1 DEF More
  <2> QED BY <1>5, <1>7, <2>1, <2>2
<1> HIDE DEF n, p, new, k, s
<1> QED BY <1>2, <1>4, <1>5, <1>6, <1>8

LEMMA PinnedKept ==
    ASSUME Pinned, UNCHANGED config,
           \A q \in m_extra_mf_fields' : \E r \in m_extra_mf_fields : SameRead(q, r),
           \A q \in m_extra_mf_fields' :
              lines[q.index].tag = q.key[1] /\ lines[q.index].status[q.key[2]] = "RESERVED"
                  => lines'[q.index].tag = q.key[1] /\ lines'[q.index].status[q.key[2]] = "RESERVED"
    PROVE  Pinned'
BY DEF Pinned, SameRead, Settled

LEMMA PinnedStep ==
    ASSUME Typed, Matched, Pinned, FilledOnce, Next \/ UNCHANGED vars
    PROVE  Pinned'
<1>0. UNCHANGED config
  BY ConfigKept
<1> SUFFICES ASSUME Settled PROVE Pinned'
  BY <1>0 DEF Pinned, Settled
<1>1. ASSUME UNCHANGED <<lines, m_extra_mf_fields>>
      PROVE  Pinned'
  BY <1>0, <1>1 DEF Pinned, Settled
<1>2. \A r \in m_extra_mf_fields : r \in Requests /\ r.index \in Lines /\ r.key \in Keys /\ r.key[1] \in Tags /\ r.key[2] \in Sectors
  BY DEF Typed, Requests, Keys
<1>3. ASSUME NEW l \in Lines, NEW s \in Sectors, NEW v \in Status, lines[l].status[s] # "RESERVED",
             lines' = [lines EXCEPT ![l].status[s] = v], UNCHANGED m_extra_mf_fields
      PROVE  Pinned'
  <2>1. /\ lines'[l].tag = lines[l].tag /\ \A x \in Sectors : x # s => lines'[l].status[x] = lines[l].status[x]
        /\ \A m \in Lines : m # l => lines'[m] = lines[m]
    BY <1>3, SetStatus
  <2> QED BY <1>0, <1>2, <1>3, <2>1 DEF Pinned, Settled
<1>4. ASSUME NEW a \in Accesses, RdHitBase(a) \/ WrHitWb(a)
      PROVE  Pinned'
  <2>1. CASE HitWrite(a)
    <3> DEFINE p == Probe(a.tag, a.sector)
    <3>1. p.idx \in Lines /\ a.sector \in Sectors /\ "MODIFIED" \in Status
      BY <2>1, AccessFacts DEF HitWrite, Typed, Status
    <3>2. lines[p.idx].status[a.sector] # "RESERVED"
      BY <2>1 DEF HitWrite, ProbeResult
    <3>3. lines' = [lines EXCEPT ![p.idx].status[a.sector] = "MODIFIED"] /\ UNCHANGED m_extra_mf_fields
      BY <2>1 DEF HitWrite, SetModified, Untouched
    <3> QED BY <1>3, <3>1, <3>2, <3>3
  <2> QED BY <1>1, <1>4, <2>1, HitCases DEF Untouched
<1>5. ASSUME NEW a \in Accesses, WrHitWe(a)
      PROVE  Pinned'
  <2> DEFINE p == Probe(a.tag, a.sector)
  <2>1. ProbeResult(a.tag, a.sector, p) /\ p.status = "HIT" /\ a.sector \in Sectors /\ "INVALID" \in Status
    BY <1>5, AccessFacts, ProbeFinds DEF WrHitWe, Typed, Status
  <2>2. p.idx \in Lines /\ lines[p.idx].status[a.sector] # "RESERVED"
    BY <2>1 DEF ProbeResult
  <2>3. lines' = [lines EXCEPT ![p.idx].status[a.sector] = "INVALID"] /\ UNCHANGED m_extra_mf_fields
    BY <1>5 DEF WrHitWe, Untouched
  <2> QED BY <1>3, <2>1, <2>2, <2>3
<1>6. ASSUME NEW a \in Accesses, WrMissWaLazy(a), KeyOf(a) \notin Entries
      PROVE  Pinned'
  <2> DEFINE p == Probe(a.tag, a.sector)
             s == a.sector
             line == Accessed(a, p)
             n == LazyLine(a, p)
  <2>1. /\ ProbeResult(a.tag, s, p) /\ p.status \in {"HIT_RESERVED", "SECTOR_MISS", "MISS"}
        /\ p.idx \in Lines /\ line \in LineSpace /\ n \in LineSpace
        /\ config.alloc = "ON_MISS" /\ lines' = [lines EXCEPT ![p.idx] = n]
    BY <1>6, LazyFacts
  <2>2. /\ n.tag = line.tag /\ \A x \in Sectors : x # s => n.status[x] = line.status[x]
    BY <2>1, LazyWrites
  <2>3. p.status # "MISS" => More(line, lines[p.idx], s) /\ lines[p.idx].tag = a.tag
    BY <2>1, AccessedLine
  <2>4. UNCHANGED m_extra_mf_fields
    BY <1>6 DEF WrMissWaLazy, Untouched
  <2>5. lines'[p.idx] = n /\ \A l \in Lines : l # p.idx => lines'[l] = lines[l]
    BY <2>1 DEF Typed
  <2>6. \A q \in m_extra_mf_fields : q.key # <<a.tag, s>>
    BY <1>2, <1>6 DEF Matched, ReadOf, KeyOf
  <2> HIDE DEF s, p, line, n
  <2>7. ASSUME NEW q \in m_extra_mf_fields',
               lines[q.index].tag = q.key[1], lines[q.index].status[q.key[2]] = "RESERVED"
        PROVE  lines'[q.index].tag = q.key[1] /\ lines'[q.index].status[q.key[2]] = "RESERVED"
    <3>1. q.index \in Lines /\ q.key \in Keys /\ q.key = <<q.key[1], q.key[2]>> /\ q.key[2] \in Sectors
      BY <1>2, <2>4 DEF Keys
    <3>2. CASE q.index = p.idx
      <4>1. p.status # "MISS"
        BY <2>1, <2>7, <3>1, <3>2 DEF ProbeResult, IsReserved
      <4>2. q.key[2] # s
        BY <2>3, <2>4, <2>6, <2>7, <3>1, <3>2, <4>1
      <4> QED BY <2>2, <2>3, <2>5, <2>7, <3>1, <3>2, <4>1, <4>2 DEF More
    <3> QED BY <2>5, <2>7, <3>1, <3>2
  <2> QED BY <1>0, <2>4, <2>7, PinnedKept DEF SameRead
<1>7. ASSUME NEW r \in m_extra_mf_fields, FillPart(r)
      PROVE  Pinned'
  <2>1. m_extra_mf_fields' = (m_extra_mf_fields \ {r}) \cup {[r EXCEPT !.pending = @ - 1]}
        /\ UNCHANGED lines
    BY <1>7 DEF FillPart
  <2>2. SameRead([r EXCEPT !.pending = @ - 1], r)
    BY <1>2 DEF SameRead, Requests
  <2>3. \A q \in m_extra_mf_fields : SameRead(q, q)
    BY DEF SameRead
  <2> QED BY <1>0, <2>1, <2>2, <2>3, PinnedKept
<1>8. ASSUME NEW r \in m_extra_mf_fields, FillByIndex(r)
      PROVE  Pinned'
  <2> DEFINE old == lines[r.index]
             n == Filled(old, r)
  <2>1. /\ m_extra_mf_fields' = m_extra_mf_fields \ {r}
        /\ lines' = [lines EXCEPT ![r.index] = n] /\ config.alloc = "ON_MISS"
    BY <1>8 DEF FillByIndex, MarkReady
  <2>2. old \in LineSpace /\ r \in Requests /\ r.index \in Lines /\ old.tag = r.key[1]
    BY <1>2, <2>1 DEF Typed, Pinned
  <2>3. n \in LineSpace /\ n.tag = old.tag /\ \A x \in Sectors : x # r.key[2] => n.status[x] = old.status[x]
    BY <2>2, FilledLine
  <2>4. lines'[r.index] = n /\ \A l \in Lines : l # r.index => lines'[l] = lines[l]
    BY <2>1, <2>2, <2>3 DEF Typed
  <2> HIDE DEF n, old
  <2>5. ASSUME NEW q \in m_extra_mf_fields',
               lines[q.index].tag = q.key[1], lines[q.index].status[q.key[2]] = "RESERVED"
        PROVE  lines'[q.index].tag = q.key[1] /\ lines'[q.index].status[q.key[2]] = "RESERVED"
    <3>1. /\ q.index \in Lines /\ q.key = <<q.key[1], q.key[2]>> /\ q.key[2] \in Sectors
          /\ r.key = <<r.key[1], r.key[2]>> /\ q \in m_extra_mf_fields /\ q # r
      BY <1>2, <2>1 DEF Keys
    <3>2. q.key # r.key
      BY <3>1 DEF Matched
    <3>3. CASE q.index = r.index
      <4>1. q.key[2] # r.key[2]
        BY <2>2, <2>5, <3>1, <3>2, <3>3 DEF old
      <4> QED BY <2>3, <2>4, <2>5, <3>1, <3>3, <4>1 DEF old
    <3> QED BY <2>4, <2>5, <3>1, <3>3
  <2> QED BY <1>0, <2>1, <2>5, PinnedKept DEF SameRead
<1>9. ASSUME NEW r \in m_extra_mf_fields, FillByAddress(r)
      PROVE  Pinned'
  BY <1>0, <1>9 DEF FillByAddress, Pinned
<1> QED BY <1>1, <1>4, <1>5, <1>6, <1>7, <1>8, <1>9, PinnedSends, SettledSteps
        DEF vars, WrMissNoWa, Untouched, Cycle, NextAccess

LEMMA FilledOnceStep ==
    ASSUME Typed, Matched, FilledOnce, Next \/ UNCHANGED vars
    PROVE  FilledOnce'
<1> DEFINE Lacks(r) == \A l \in Lines : lines[l].tag = r.key[1] => lines[l].status[r.key[2]] = "INVALID"
<1>1. UNCHANGED config
  BY ConfigKept
<1> SUFFICES ASSUME config.alloc = "ON_FILL" PROVE FilledOnce'
  BY <1>1 DEF FilledOnce
<1>2. /\ \A l \in Lines, s \in Sectors : lines[l].status[s] # "RESERVED" /\ lines[l].readable[s]
      /\ \A l, m \in Lines : lines[l].tag = lines[m].tag /\ ~IsInvalid(l) /\ ~IsInvalid(m) => l = m
      /\ \A r \in m_extra_mf_fields : Lacks(r)
  BY DEF FilledOnce
<1>3. Lines' = Lines /\ Sectors' = Sectors
  BY <1>1, SameShape
<1>4. \A r \in m_extra_mf_fields : r \in Requests /\ r.index \in Lines /\ r.key \in Keys /\ r.key[1] \in Tags /\ r.key[2] \in Sectors
  BY DEF Typed, Requests, Keys
<1>5. ASSUME UNCHANGED lines, \A q \in m_extra_mf_fields' : Lacks(q)
      PROVE  FilledOnce'
  BY <1>2, <1>3, <1>5 DEF FilledOnce, IsInvalid
<1>6. ASSUME NEW l \in Lines, NEW s \in Sectors, NEW v \in Status, v # "RESERVED",
             v = "INVALID" \/ lines[l].status[s] # "INVALID",
             lines' = [lines EXCEPT ![l].status[s] = v], UNCHANGED m_extra_mf_fields
      PROVE  FilledOnce'
  <2>1. /\ lines'[l].tag = lines[l].tag /\ lines'[l].readable = lines[l].readable
        /\ lines'[l].status[s] = v /\ \A x \in Sectors : x # s => lines'[l].status[x] = lines[l].status[x]
        /\ \A m \in Lines : m # l => lines'[m] = lines[m]
    <3>1. lines' = [lines EXCEPT ![l].status[s] = v]
      BY <1>6
    <3>2. /\ lines'[l].tag = lines[l].tag /\ lines'[l].readable = lines[l].readable
          /\ \A x \in Sectors : lines'[l].status[x] = IF x = s THEN v ELSE lines[l].status[x]
          /\ \A m \in Lines : m # l => lines'[m] = lines[m]
      BY <3>1, SetStatus, ZenonT(60)
    <3> QED BY <3>2
  <2>2. \A m \in Lines : /\ lines'[m].tag = lines[m].tag /\ lines'[m].readable = lines[m].readable
                         /\ \A x \in Sectors : /\ lines[m].status[x] = "INVALID" => lines'[m].status[x] = "INVALID"
                                               /\ lines'[m].status[x] # "RESERVED"
    BY <1>2, <1>6, <2>1
  <2>3. \A m \in Lines : IsInvalid(m) => IsInvalid(m)'
    BY <1>3, <2>2 DEF IsInvalid
  <2> QED BY <1>2, <1>3, <1>4, <1>6, <2>2, <2>3 DEF FilledOnce
<1>7. ASSUME NEW a \in Accesses, NEW op, Sends(a, op)
      PROVE  FilledOnce'
  <2> DEFINE p == Probe(a.tag, a.sector)
             k == KeyOf(a)
             new == [mf |-> accesses + 1, key |-> k, index |-> p.idx, pending |-> config.replies]
  <2> PICK first \in Seq(Nat) : SendReadRequest(a, p, op, first)
    BY <1>7 DEF Sends
  <2>1. ProbeResult(a.tag, a.sector, p) /\ p.status \in {"HIT_RESERVED", "SECTOR_MISS", "MISS"}
        /\ a.tag \in Tags /\ a.sector \in Sectors
    BY <1>7, AccessFacts DEF Sends, Typed
  <2>2. p.idx \in Lines /\ lines' = [lines EXCEPT ![p.idx] = lines[p.idx]]
        /\ m_extra_mf_fields' \subseteq m_extra_mf_fields \cup {new}
    BY <2>1, AccessedLine DEF SendReadRequest
  <2>3. UNCHANGED lines
    BY <2>2 DEF Typed
  <2>4. new.key[1] = a.tag /\ new.key[2] = a.sector
    BY DEF KeyOf
  <2>5. \A l \in Lines : lines[l].tag = a.tag => lines[l].status[a.sector] = "INVALID"
    <3>1. CASE p.status = "MISS"
      BY <2>1, <3>1 DEF ProbeResult, IsInvalid
    <3>2. CASE p.status = "SECTOR_MISS"
      <4>1. lines[p.idx].tag = a.tag /\ ~IsInvalid(p.idx) /\ lines[p.idx].status[a.sector] = "INVALID"
        BY <1>2, <2>1, <2>2, <3>2 DEF ProbeResult
      <4> HIDE DEF p
      <4> QED BY <1>2, <2>1, <2>2, <4>1 DEF IsInvalid
    <3>3. p.status # "HIT_RESERVED"
      BY <1>2, <2>1, <2>2 DEF ProbeResult
    <3> QED BY <2>1, <3>1, <3>2, <3>3
  <2> HIDE DEF p, k, new
  <2> QED BY <1>2, <1>5, <2>2, <2>3, <2>4, <2>5
<1>8. ASSUME NEW a \in Accesses, RdHitBase(a) \/ WrHitWb(a)
      PROVE  FilledOnce'
  <2>1. CASE HitWrite(a)
    <3> DEFINE p == Probe(a.tag, a.sector)
    <3>1. p.idx \in Lines /\ a.sector \in Sectors /\ "MODIFIED" \in Status
      BY <2>1, AccessFacts DEF HitWrite, Typed, Status
    <3>2. lines[p.idx].status[a.sector] # "INVALID"
      BY <2>1 DEF HitWrite, ProbeResult
    <3>3. lines' = [lines EXCEPT ![p.idx].status[a.sector] = "MODIFIED"] /\ UNCHANGED m_extra_mf_fields
      BY <2>1 DEF HitWrite, SetModified, Untouched
    <3> QED BY <1>6, <3>1, <3>2, <3>3
  <2>2. CASE UNCHANGED <<lines, m_extra_mf_fields>>
    BY <1>2, <1>5, <2>2
  <2> QED BY <1>8, <2>1, <2>2, HitCases DEF Untouched
<1>9. ASSUME NEW a \in Accesses, WrHitWe(a)
      PROVE  FilledOnce'
  <2> DEFINE p == Probe(a.tag, a.sector)
  <2>1. ProbeResult(a.tag, a.sector, p) /\ p.status = "HIT" /\ a.sector \in Sectors /\ "INVALID" \in Status
    BY <1>9, AccessFacts, ProbeFinds DEF WrHitWe, Typed, Status
  <2>2. p.idx \in Lines
    BY <2>1 DEF ProbeResult
  <2>3. lines' = [lines EXCEPT ![p.idx].status[a.sector] = "INVALID"] /\ UNCHANGED m_extra_mf_fields
    BY <1>9 DEF WrHitWe, Untouched
  <2> QED BY <1>6, <2>1, <2>2, <2>3
<1>10. ASSUME NEW r \in m_extra_mf_fields, FillPart(r)
       PROVE  FilledOnce'
  <2>1. m_extra_mf_fields' = (m_extra_mf_fields \ {r}) \cup {[r EXCEPT !.pending = @ - 1]} /\ UNCHANGED lines
    BY <1>10 DEF FillPart
  <2>2. [r EXCEPT !.pending = @ - 1].key = r.key
    BY <1>4 DEF Requests
  <2>3. \A q \in m_extra_mf_fields' : \E x \in m_extra_mf_fields : q.key = x.key
    BY <2>1, <2>2
  <2>4. \A q \in m_extra_mf_fields' : Lacks(q)
    BY <1>2, <2>3
  <2> QED BY <1>5, <2>1, <2>4
<1>11. ASSUME NEW r \in m_extra_mf_fields, FillByAddress(r)
       PROVE  FilledOnce'
  <2> DEFINE t == r.key[1]
             s == r.key[2]
             p == Probe(t, s)
             line == Allocate(t, s, p)
             n == Filled(line, r)
  <2>1. /\ r \in Requests /\ t \in Tags /\ s \in Sectors /\ r.key \in Keys
        /\ ProbeResult(t, s, p) /\ p.status \in {"SECTOR_MISS", "MISS"} /\ p.idx \in Lines
    BY <1>11, FillFacts
  <2>2. IF p.status = "MISS" THEN Fresh(line, t, s) ELSE More(line, lines[p.idx], s)
    BY <2>1, AllocatedLine
  <2>3. lines' = [lines EXCEPT ![p.idx] = n] /\ m_extra_mf_fields' = m_extra_mf_fields \ {r}
    BY <1>11 DEF FillByAddress
  <2> HIDE DEF line
  <2>0. line \in LineSpace
    BY <2>2 DEF Fresh, More
  <2>4. /\ n.tag = line.tag /\ n.readable = line.readable /\ n.status[s] \in {"MODIFIED", "VALID"}
        /\ \A x \in Sectors : x # s => n.status[x] = line.status[x]
    BY <2>1, <2>0, FilledLine
  <2> HIDE DEF n, p
  <2>5. line.tag = t /\ \A x \in Sectors :
          /\ line.readable[x]
          /\ x # s => IF p.status = "MISS" THEN line.status[x] = "INVALID" ELSE line.status[x] = lines[p.idx].status[x]
    <3>1. p.status # "MISS" => lines[p.idx].tag = t
      BY <2>1 DEF ProbeResult
    <3> QED BY <1>2, <2>1, <2>2, <3>1 DEF Fresh, More
  <2>6. lines'[p.idx] = n /\ \A l \in Lines : l # p.idx => lines'[l] = lines[l]
    BY <2>1, <2>3 DEF Typed
  <2>7. \A l \in Lines, x \in Sectors : lines'[l].status[x] # "RESERVED" /\ lines'[l].readable[x]
    BY <1>2, <2>1, <2>4, <2>5, <2>6
  <2>8. \A l \in Lines : l # p.idx => (IsInvalid(l)' <=> IsInvalid(l))
    BY <1>3, <2>6 DEF IsInvalid
  <2>9. \A l \in Lines : l # p.idx /\ lines[l].tag = t => IsInvalid(l)
    <3>1. CASE p.status = "MISS"
      BY <2>1, <3>1 DEF ProbeResult
    <3>2. CASE p.status = "SECTOR_MISS"
      <4>1. lines[p.idx].tag = t /\ ~IsInvalid(p.idx)
        BY <2>1, <3>2 DEF ProbeResult
      <4> QED BY <1>2, <2>1, <4>1
    <3> QED BY <2>1, <3>1, <3>2
  <2>10. \A l, m \in Lines : lines'[l].tag = lines'[m].tag /\ ~IsInvalid(l)' /\ ~IsInvalid(m)' => l = m
    <3>1. \A l \in Lines : l # p.idx /\ lines'[l].tag = t => IsInvalid(l)'
      BY <2>6, <2>8, <2>9
    <3>2. lines'[p.idx].tag = t
      BY <2>4, <2>5, <2>6
    <3>3. \A l, m \in Lines : l # p.idx /\ m # p.idx /\ lines'[l].tag = lines'[m].tag /\ ~IsInvalid(l)' /\ ~IsInvalid(m)'
             => l = m
      BY <1>2, <2>6, <2>8
    <3> QED BY <3>1, <3>2, <3>3
  <2>11. ASSUME NEW q \in m_extra_mf_fields', NEW l \in Lines, lines'[l].tag = q.key[1]
         PROVE  lines'[l].status[q.key[2]] = "INVALID"
    <3>1. q \in m_extra_mf_fields /\ q.key # r.key /\ Lacks(q)
      BY <1>2, <2>3 DEF Matched
    <3>2. q.key[2] \in Sectors /\ q.key = <<q.key[1], q.key[2]>> /\ r.key = <<t, s>>
      BY <1>4, <3>1 DEF Keys
    <3>3. CASE l = p.idx
      <4>1. q.key[1] = t /\ q.key[2] # s
        BY <2>4, <2>5, <2>6, <2>11, <3>1, <3>2, <3>3
      <4>2. CASE p.status = "MISS"
        BY <2>4, <2>5, <2>6, <3>2, <3>3, <4>1, <4>2
      <4>3. CASE p.status = "SECTOR_MISS"
        <5>1. lines[p.idx].tag = t
          BY <2>1, <4>3 DEF ProbeResult
        <5>2. lines[p.idx].status[q.key[2]] = "INVALID"
          BY <2>1, <3>1, <4>1, <5>1
        <5> QED BY <2>4, <2>5, <2>6, <3>2, <3>3, <4>1, <4>3, <5>2
      <4> QED BY <2>1, <4>2, <4>3
    <3> QED BY <2>6, <2>11, <3>1, <3>3
  <2> HIDE DEF t, s
  <2> QED BY <1>3, <2>7, <2>10, <2>11 DEF FilledOnce
<1>12. ASSUME NEW S \in SUBSET Lines, Drop(S)
       PROVE  FilledOnce'
  <2>1. /\ UNCHANGED m_extra_mf_fields
        /\ lines' = [l \in Lines |-> IF l \in S THEN [lines[l] EXCEPT !.status = [s \in Sectors |-> "INVALID"]] ELSE lines[l]]
    BY <1>12 DEF Drop
  <2>2. \A l \in Lines : /\ lines'[l].tag = lines[l].tag /\ lines'[l].readable = lines[l].readable
                         /\ \A x \in Sectors : lines'[l].status[x] \in {lines[l].status[x], "INVALID"}
    BY <2>1 DEF Typed, LineSpace
  <2>3. \A l \in Lines : IsInvalid(l) => IsInvalid(l)'
    BY <1>3, <2>2 DEF IsInvalid
  <2>4. \A q \in m_extra_mf_fields' : \E r \in m_extra_mf_fields : q.key = r.key
    BY <2>1
  <2>5. \A q \in m_extra_mf_fields', l \in Lines : lines'[l].tag = q.key[1] => lines'[l].status[q.key[2]] = "INVALID"
    BY <1>2, <1>4, <2>2, <2>4
  <2>6. \A l \in Lines, x \in Sectors : lines'[l].status[x] # "RESERVED" /\ lines'[l].readable[x]
    BY <1>2, <2>2
  <2>7. \A l, m \in Lines : lines'[l].tag = lines'[m].tag /\ ~IsInvalid(l)' /\ ~IsInvalid(m)' => l = m
    BY <1>2, <2>2, <2>3
  <2> QED BY <1>3, <2>5, <2>6, <2>7 DEF FilledOnce
<1>13. CASE UNCHANGED <<lines, m_extra_mf_fields>>
  BY <1>2, <1>5, <1>13
<1>14. \A a \in Accesses : ~WrMissWaLazy(a)
  BY LazyFacts
<1>15. \A r \in m_extra_mf_fields : ~FillByIndex(r)
  BY DEF FillByIndex
<1>16. \A k \in Keys : ~ForceTagAccess(k)
  BY CopyFacts
<1> QED BY <1>7, <1>8, <1>9, <1>10, <1>11, <1>12, <1>13, <1>14, <1>15, <1>16, Steps
        DEF vars, WrMissNoWa, Untouched, Cycle, NextAccess

LEMMA AtomicsStep ==
    ASSUME Typed, Matched, AtomicsKnown, Next \/ UNCHANGED vars
    PROVE  AtomicsKnown'
<1>1. ASSUME UNCHANGED <<config, m_data>>
      PROVE  AtomicsKnown'
  BY <1>1, SameShape DEF AtomicsKnown
<1>2. ASSUME NEW a \in Accesses, NEW op, Sends(a, op)
      PROVE  AtomicsKnown'
  <2> DEFINE k == KeyOf(a)
             old == m_data[k].list
  <2> PICK first : SendReadRequest(a, Probe(a.tag, a.sector), op, first)
    BY <1>2 DEF Sends
  <2>1. k \in Keys /\ op \in Ops /\ m_data[k] \in EntrySpace /\ UNCHANGED config
    BY <1>2, AccessFacts DEF Sends, Typed
  <2>2. m_data' = [m_data EXCEPT ![k].list = Append(@, op), ![k].has_atomic = @ \/ op = "atomic"]
    BY DEF SendReadRequest
  <2>3. /\ m_data'[k].list = Append(old, op) /\ m_data'[k].has_atomic = (m_data[k].has_atomic \/ op = "atomic")
        /\ \A x \in Keys : x # k => m_data'[x] = m_data[x]
    BY <2>1, <2>2 DEF Typed, EntrySpace
  <2>4. ASSUME \E n \in DOMAIN m_data'[k].list : m_data'[k].list[n] = "atomic"
        PROVE  m_data'[k].has_atomic
    <3>1. old \in Seq(Ops)
      BY <2>1 DEF EntrySpace
    <3> HIDE DEF old
    <3>2. PICK n \in DOMAIN Append(old, op) : Append(old, op)[n] = "atomic"
      BY <2>3, <2>4
    <3>3. (n \in DOMAIN old /\ old[n] = "atomic") \/ op = "atomic"
      BY <3>1, <3>2, <2>1
    <3> QED BY <2>1, <2>3, <3>3 DEF AtomicsKnown, old
  <2> HIDE DEF k, old
  <2> QED BY <2>1, <2>3, <2>4, SameShape DEF AtomicsKnown
<1>3. CASE NextAccess
  <2> DEFINE k == Head(m_current_response)
             old == m_data[k].list
             left == Tail(old)
  <2>1. k \in Keys /\ m_data[k] \in EntrySpace /\ UNCHANGED config
        /\ m_data' = [m_data EXCEPT ![k] = [list |-> left, has_atomic |-> m_data[k].has_atomic /\ left # <<>>]]
    BY <1>3 DEF NextAccess, Typed
  <2>2. old \in Seq(Ops) /\ old # <<>>
    <3>1. Ready(k)
      BY <1>3 DEF NextAccess, Typed, Ready
    <3> QED BY <2>1, <3>1 DEF Matched, Entries, EntrySpace
  <2>3. /\ m_data'[k].list = left /\ m_data'[k].has_atomic = (m_data[k].has_atomic /\ left # <<>>)
        /\ \A x \in Keys : x # k => m_data'[x] = m_data[x]
    BY <2>1 DEF Typed
  <2>4. ASSUME NEW n \in DOMAIN left, left[n] = "atomic"
        PROVE  left # <<>> /\ m_data[k].has_atomic
    <3> HIDE DEF old
    <3>1. left \in Seq(Ops) /\ n \in 1..Len(left) /\ left # <<>>
      BY <2>2, <2>4
    <3>2. n + 1 \in DOMAIN old /\ old[n + 1] = left[n]
      BY <2>2, <3>1
    <3> QED BY <2>1, <2>4, <3>1, <3>2 DEF AtomicsKnown, old
  <2> HIDE DEF k, old, left
  <2>5. (\E n \in DOMAIN m_data'[k].list : m_data'[k].list[n] = "atomic") => m_data'[k].has_atomic
    BY <2>3, <2>4
  <2> QED BY <2>1, <2>3, <2>5, SameShape DEF AtomicsKnown
<1> QED BY <1>1, <1>2, <1>3, Steps
        DEF vars, RdHitBase, WrHitWb, WrHitWe, WrMissNoWa, WrMissWaLazy, Untouched, Cycle, Drop, ForceTagAccess,
            FillPart, FillByIndex, FillByAddress, MarkReady

LEMMA HitsOneLine ==
    ASSUME Typed, HitsWhole, UNCHANGED config, NEW l \in Lines, NEW n, lines' = [lines EXCEPT ![l] = n],
           \A x \in Sectors : HasData(n, x)
    PROVE  HitsWhole'
<1>1. lines'[l] = n /\ \A m \in Lines : m # l => lines'[m] = lines[m]
  BY DEF Typed
<1>2. \A m \in Lines, x \in Sectors : HasData(lines[m], x)
  BY DEF HitsWhole, HasData
<1>3. \A m \in Lines, x \in Sectors : HasData(lines'[m], x)
  BY <1>1, <1>2
<1> QED BY <1>3, SameShape DEF HitsWhole, HasData

LEMMA HitsSetStatus ==
    ASSUME Typed, HitsWhole, UNCHANGED config, NEW l \in Lines, NEW s \in Sectors, NEW v \in Status,
           v = "INVALID" \/ lines[l].data[s] = "full", lines' = [lines EXCEPT ![l].status[s] = v]
    PROVE  HitsWhole'
<1>1. /\ lines'[l].readable = lines[l].readable /\ lines'[l].data = lines[l].data
      /\ \A x \in Sectors : lines'[l].status[x] = IF x = s THEN v ELSE lines[l].status[x]
      /\ \A m \in Lines : m # l => lines'[m] = lines[m]
  BY SetStatus, ZenonT(60)
<1>2. \A m \in Lines, x \in Sectors : HasData(lines[m], x)
  BY DEF HitsWhole, HasData
<1>3. \A m \in Lines, x \in Sectors : HasData(lines'[m], x)
  BY <1>1, <1>2 DEF HasData
<1> QED BY <1>3, SameShape DEF HitsWhole, HasData

LEMMA HitsStep ==
    ASSUME Typed, Matched, Pinned, FilledOnce, Settled, HitsWhole, Next \/ UNCHANGED vars
    PROVE  HitsWhole'
<1>1. ASSUME UNCHANGED <<config, lines>>
      PROVE  HitsWhole'
  BY <1>1, SameShape DEF HitsWhole
<1>2. \A m \in Lines, x \in Sectors : HasData(lines[m], x)
  BY DEF HitsWhole, HasData
<1>3. ASSUME NEW a \in Accesses, NEW p, ProbeResult(a.tag, a.sector, p),
             p.status \in {"HIT_RESERVED", "SECTOR_MISS", "MISS"}
      PROVE  /\ p.idx \in Lines /\ \A x \in Sectors : x # a.sector => HasData(Accessed(a, p), x)
             /\ HasData(Accessed(a, p), a.sector)
  <2> DEFINE n == Accessed(a, p)
  <2>1. /\ p.idx \in Lines /\ config.alloc \in {"ON_MISS", "ON_FILL"}
        /\ config.alloc = "ON_FILL" => n = lines[p.idx]
        /\ config.alloc = "ON_MISS" /\ p.status = "MISS" => Fresh(n, a.tag, a.sector)
        /\ config.alloc = "ON_MISS" /\ p.status # "MISS" => More(n, lines[p.idx], a.sector)
    BY <1>3, AccessedLine, ConfigFacts DEF Typed
  <2>2. a.sector \in Sectors
    BY AccessFacts DEF Typed
  <2> HIDE DEF n
  <2>3. \A x \in Sectors : HasData(lines[p.idx], x)
    BY <1>2, <2>1
  <2>4. CASE config.alloc = "ON_FILL"
    BY <2>1, <2>2, <2>3, <2>4 DEF n
  <2>5. CASE Fresh(n, a.tag, a.sector)
    BY <2>1, <2>2, <2>5 DEF Fresh, HasData, n
  <2>6. CASE More(n, lines[p.idx], a.sector)
    BY <2>1, <2>2, <2>3, <2>6 DEF More, HasData, n
  <2> QED BY <2>1, <2>4, <2>5, <2>6
<1>4. ASSUME NEW a \in Accesses, NEW op, Sends(a, op)
      PROVE  HitsWhole'
  <2> DEFINE p == Probe(a.tag, a.sector)
  <2> PICK first : SendReadRequest(a, p, op, first)
    BY <1>4 DEF Sends
  <2>1. p.idx \in Lines /\ \A x \in Sectors : HasData(Accessed(a, p), x)
    BY <1>3, <1>4 DEF Sends
  <2>2. lines' = [lines EXCEPT ![p.idx] = Accessed(a, p)] /\ UNCHANGED config
    BY <1>4 DEF SendReadRequest, Sends
  <2> HIDE DEF p
  <2> QED BY <2>1, <2>2, HitsOneLine
<1>5. ASSUME NEW a \in Accesses, RdHitBase(a) \/ WrHitWb(a)
      PROVE  HitsWhole'
  <2>1. CASE HitWrite(a)
    <3> DEFINE p == Probe(a.tag, a.sector)
    <3>1. p.idx \in Lines /\ a.sector \in Sectors /\ "MODIFIED" \in Status /\ UNCHANGED config
          /\ lines' = [lines EXCEPT ![p.idx].status[a.sector] = "MODIFIED"]
      BY <2>1, AccessFacts DEF HitWrite, SetModified, Untouched, Typed, Status
    <3>2. lines[p.idx].data[a.sector] = "full"
      BY <1>2, <2>1, <3>1 DEF HitWrite, ProbeResult, HasData
    <3> HIDE DEF p
    <3> QED BY <3>1, <3>2, HitsSetStatus
  <2> QED BY <1>1, <1>5, <2>1, HitCases DEF Untouched
<1>6. ASSUME NEW a \in Accesses, WrHitWe(a)
      PROVE  HitsWhole'
  <2> DEFINE p == Probe(a.tag, a.sector)
  <2>1. ProbeResult(a.tag, a.sector, p) /\ p.status = "HIT" /\ a.sector \in Sectors /\ "INVALID" \in Status
    BY <1>6, AccessFacts, ProbeFinds DEF WrHitWe, Typed, Status
  <2>2. p.idx \in Lines
    BY <2>1 DEF ProbeResult
  <2>3. lines' = [lines EXCEPT ![p.idx].status[a.sector] = "INVALID"] /\ UNCHANGED config
    BY <1>6 DEF WrHitWe, Untouched
  <2> HIDE DEF p
  <2> QED BY <2>1, <2>2, <2>3, HitsSetStatus
<1>7. ASSUME NEW a \in Accesses, WrMissWaLazy(a)
      PROVE  HitsWhole'
  <2> DEFINE p == Probe(a.tag, a.sector)
             line == Accessed(a, p)
             n == LazyLine(a, p)
  <2>1. /\ ProbeResult(a.tag, a.sector, p) /\ p.status \in {"HIT_RESERVED", "SECTOR_MISS", "MISS"} /\ p.idx \in Lines
        /\ line \in LineSpace /\ lines' = [lines EXCEPT ![p.idx] = n] /\ UNCHANGED config
    BY <1>7, LazyFacts DEF WrMissWaLazy, Untouched
  <2>2. /\ n.status[a.sector] = "MODIFIED" /\ n.readable[a.sector] => n.data[a.sector] = "full"
        /\ \A x \in Sectors : x # a.sector =>
              n.status[x] = line.status[x] /\ n.readable[x] = line.readable[x] /\ n.data[x] = line.data[x]
    BY <2>1, LazyWrites
  <2>3. \A x \in Sectors : x # a.sector => HasData(line, x)
    BY <1>3, <2>1
  <2>4. n.status[a.sector] = "MODIFIED"
    BY <2>1, LazyWrites
  <2> HIDE DEF p, line, n
  <2>5. \A x \in Sectors : HasData(n, x)
    BY <2>2, <2>3, <2>4 DEF HasData
  <2> QED BY <2>1, <2>5, HitsOneLine
<1>8. ASSUME NEW r \in m_extra_mf_fields, FillByIndex(r)
      PROVE  HitsWhole'
  <2> DEFINE line == lines[r.index]
             n == Filled(line, r)
             s == r.key[2]
  <2>1. r \in Requests /\ r.index \in Lines /\ line \in LineSpace
    BY DEF Typed, Requests
  <2>2. lines' = [lines EXCEPT ![r.index] = n] /\ UNCHANGED config /\ config.alloc = "ON_MISS"
    BY <1>8 DEF FillByIndex, MarkReady
  <2>3. line.tag = r.key[1]
    BY <2>2 DEF Pinned
  <2>4. n.data[s] = "full" /\ n.readable = line.readable
        /\ \A x \in Sectors : x # s => n.status[x] = line.status[x] /\ n.data[x] = line.data[x]
    BY <2>1, <2>3, FilledLine
  <2> HIDE DEF n, s
  <2>5. \A x \in Sectors : HasData(n, x)
    BY <1>2, <2>1, <2>4 DEF HasData
  <2> QED BY <2>1, <2>2, <2>5, HitsOneLine
<1>9. ASSUME NEW r \in m_extra_mf_fields, FillByAddress(r)
      PROVE  HitsWhole'
  <2> DEFINE t == r.key[1]
             s == r.key[2]
             p == Probe(t, s)
             line == Allocate(t, s, p)
             n == Filled(line, r)
  <2>1. /\ r \in Requests /\ t \in Tags /\ s \in Sectors /\ r.key \in Keys
        /\ ProbeResult(t, s, p) /\ p.status \in {"SECTOR_MISS", "MISS"} /\ p.idx \in Lines
    BY <1>9, FillFacts
  <2>2. IF p.status = "MISS" THEN Fresh(line, t, s) ELSE More(line, lines[p.idx], s)
    BY <2>1, AllocatedLine
  <2>3. lines' = [lines EXCEPT ![p.idx] = n] /\ UNCHANGED config
    BY <1>9 DEF FillByAddress, MarkReady
  <2>4. line \in LineSpace /\ line.tag = t
    <3>1. p.status # "MISS" => lines[p.idx].tag = t
      BY <2>1 DEF ProbeResult
    <3> QED BY <2>2, <3>1 DEF Fresh, More
  <2>5. \A x \in Sectors : x # s => HasData(line, x)
    <3>1. CASE p.status = "MISS"
      BY <2>2, <3>1 DEF Fresh, HasData
    <3>2. CASE p.status # "MISS"
      <4> HIDE DEF line, p, s
      <4> QED BY <1>2, <2>1, <2>2, <3>2 DEF More, HasData
    <3> QED BY <3>1, <3>2
  <2> HIDE DEF line
  <2>6. n.data[s] = "full" /\ n.readable = line.readable
        /\ \A x \in Sectors : x # s => n.status[x] = line.status[x] /\ n.data[x] = line.data[x]
    BY <2>1, <2>4, FilledLine
  <2> HIDE DEF n, p, s
  <2>7. \A x \in Sectors : HasData(n, x)
    BY <2>5, <2>6 DEF HasData
  <2> QED BY <2>1, <2>3, <2>7, HitsOneLine
<1> QED BY <1>1, <1>4, <1>5, <1>6, <1>7, <1>8, <1>9, SettledSteps
        DEF vars, WrMissNoWa, Untouched, Cycle, NextAccess, FillPart

\* A line is replaced by one that keeps what is dirty in it, or it is saved, and
\* what is new has been put in that line.
LEMMA DirtyOneLine ==
    ASSUME Typed, DirtyHeld, UNCHANGED config, NEW l \in Lines, NEW n, lines' = [lines EXCEPT ![l] = n],
           \A k \in unsaved' \cap unsaved :
              lines[l].tag = k[1] /\ Dirty(lines[l], k[2]) => n.tag = k[1] /\ Dirty(n, k[2]),
           \A k \in unsaved' \ unsaved : n.tag = k[1] /\ Dirty(n, k[2])
    PROVE  DirtyHeld'
<1>1. lines'[l] = n /\ \A m \in Lines : m # l => lines'[m] = lines[m]
  BY DEF Typed
<1>2. \A k \in unsaved : \E m \in Lines : lines[m].tag = k[1] /\ Dirty(lines[m], k[2])
  BY DEF DirtyHeld, Dirty
<1>3. ASSUME NEW k \in unsaved'
      PROVE  \E m \in Lines : lines'[m].tag = k[1] /\ Dirty(lines'[m], k[2])
  <2>1. CASE k \in unsaved
    <3>1. PICK m \in Lines : lines[m].tag = k[1] /\ Dirty(lines[m], k[2])
      BY <1>2, <2>1
    <3>2. CASE m = l
      BY <1>1, <2>1, <3>1, <3>2
    <3>3. CASE m # l
      BY <1>1, <3>1, <3>3
    <3> QED BY <3>2, <3>3
  <2>2. CASE k \notin unsaved
    BY <1>1, <2>2
  <2> QED BY <2>1, <2>2
<1> QED BY <1>3, SameShape DEF DirtyHeld, Dirty

\* What an access leaves dirty when it takes a line.
LEMMA DirtyAccessed ==
    ASSUME Typed, NEW a \in Accesses, NEW p, ProbeResult(a.tag, a.sector, p),
           p.status \in {"HIT_RESERVED", "SECTOR_MISS", "MISS"}, NEW k \in Keys,
           k \notin WrittenBack(p), lines[p.idx].tag = k[1], Dirty(lines[p.idx], k[2])
    PROVE  Accessed(a, p).tag = k[1] /\ Dirty(Accessed(a, p), k[2])
<1> DEFINE n == Accessed(a, p)
           old == lines[p.idx]
<1>1. /\ p.idx \in Lines /\ config.alloc \in {"ON_MISS", "ON_FILL"}
      /\ config.alloc = "ON_FILL" => n = old
      /\ config.alloc = "ON_MISS" /\ p.status # "MISS" => More(n, old, a.sector)
  BY AccessedLine, ConfigFacts DEF Typed
<1>2. k[1] \in Tags /\ k[2] \in Sectors /\ k = <<k[1], k[2]>>
  BY DEF Keys
<1>3. ~(config.alloc = "ON_MISS" /\ p.status = "MISS")
  <2> SUFFICES ASSUME config.alloc = "ON_MISS", p.status = "MISS" PROVE FALSE
    OBVIOUS
  <2>1. ~IsReserved(p.idx)
    BY DEF ProbeResult
  <2>2. old.status[k[2]] = "MODIFIED"
    BY <1>2, <2>1 DEF IsReserved, Dirty
  <2>3. Evicts(p)
    BY <1>2, <2>2 DEF Evicts, IsModified
  <2>4. k \in WrittenBack(p)
    BY <1>2, <2>2, <2>3 DEF WrittenBack
  <2> QED BY <2>4
<1>4. CASE config.alloc = "ON_FILL"
  BY <1>1, <1>4
<1>5. CASE More(n, old, a.sector)
  <2> HIDE DEF n, old
  <2>1. n.tag = old.tag /\ (k[2] # a.sector => n.status[k[2]] = old.status[k[2]]
                                  /\ n.modified_on_fill[k[2]] = old.modified_on_fill[k[2]])
        /\ (Dirty(old, a.sector) => Dirty(n, a.sector))
    BY <1>2, <1>5 DEF More
  <2>2. old.tag = k[1] /\ Dirty(old, k[2])
    BY DEF old
  <2>3. n.tag = k[1] /\ Dirty(n, k[2])
    BY <2>1, <2>2 DEF Dirty
  <2> QED BY <2>3 DEF n
<1> QED BY <1>1, <1>3, <1>4, <1>5

LEMMA DirtyStep ==
    ASSUME Typed, Matched, Pinned, FilledOnce, AtomicsKnown, Settled, config.alloc = "ON_MISS", DirtyHeld,
           Next \/ UNCHANGED vars
    PROVE  DirtyHeld'
<1>1. ASSUME UNCHANGED <<config, lines, unsaved>>
      PROVE  DirtyHeld'
  BY <1>1, SameShape DEF DirtyHeld
<1>2. \A k \in unsaved : k \in Keys /\ k[1] \in Tags /\ k[2] \in Sectors /\ k = <<k[1], k[2]>>
  BY DEF Typed, Keys
<1>3. ASSUME NEW a \in Accesses, NEW op, Sends(a, op), LateAtomic(KeyOf(a), op) = {}
      PROVE  DirtyHeld'
  <2> DEFINE p == Probe(a.tag, a.sector)
             n == Accessed(a, p)
  <2> PICK first : SendReadRequest(a, p, op, first)
    BY <1>3 DEF Sends
  <2>1. ProbeResult(a.tag, a.sector, p) /\ p.status \in {"HIT_RESERVED", "SECTOR_MISS", "MISS"} /\ UNCHANGED config
    BY <1>3 DEF Sends
  <2>2. lines' = [lines EXCEPT ![p.idx] = n] /\ unsaved' = unsaved \ WrittenBack(p) /\ p.idx \in Lines
    BY <1>3, <2>1, AccessedLine DEF SendReadRequest
  <2>3. \A k \in unsaved' \cap unsaved :
           lines[p.idx].tag = k[1] /\ Dirty(lines[p.idx], k[2]) => n.tag = k[1] /\ Dirty(n, k[2])
    BY <1>2, <2>1, <2>2, DirtyAccessed
  <2>4. unsaved' \ unsaved = {}
    BY <2>2
  <2> HIDE DEF p, n
  <2> QED BY <2>1, <2>2, <2>3, <2>4, DirtyOneLine
<1>4. ASSUME NEW l \in Lines, NEW s \in Sectors, lines' = [lines EXCEPT ![l].status[s] = "MODIFIED"],
             UNCHANGED config, unsaved' = unsaved \cup {<<lines[l].tag, s>>}
      PROVE  DirtyHeld'
  <2> DEFINE n == [lines[l] EXCEPT !.status[s] = "MODIFIED"]
  <2>1. lines' = [lines EXCEPT ![l] = n]
    BY <1>4
  <2>2. n.tag = lines[l].tag /\ n.modified_on_fill = lines[l].modified_on_fill /\ n.status[s] = "MODIFIED"
        /\ \A x \in Sectors : x # s => n.status[x] = lines[l].status[x]
    BY DEF Typed, LineSpace
  <2> HIDE DEF n
  <2>3. \A k \in unsaved' \cap unsaved :
           lines[l].tag = k[1] /\ Dirty(lines[l], k[2]) => n.tag = k[1] /\ Dirty(n, k[2])
    BY <1>2, <2>2 DEF Dirty
  <2>4. \A k \in unsaved' \ unsaved : n.tag = k[1] /\ Dirty(n, k[2])
    BY <1>4, <2>2 DEF Dirty
  <2> QED BY <1>4, <2>1, <2>3, <2>4, DirtyOneLine
<1>5. ASSUME NEW a \in Accesses, RdHitBase(a) \/ WrHitWb(a)
      PROVE  DirtyHeld'
  <2>1. CASE HitWrite(a)
    <3> DEFINE p == Probe(a.tag, a.sector)
    <3>1. p.idx \in Lines /\ a.sector \in Sectors /\ UNCHANGED config
          /\ lines' = [lines EXCEPT ![p.idx].status[a.sector] = "MODIFIED"]
      BY <2>1, AccessFacts DEF HitWrite, SetModified, Untouched, Typed
    <3>2. lines[p.idx].tag = a.tag /\ unsaved' = unsaved \cup {KeyOf(a)}
      BY <2>1 DEF HitWrite, ProbeResult
    <3>3. unsaved' = unsaved \cup {<<lines[p.idx].tag, a.sector>>}
      BY <3>2 DEF KeyOf
    <3> HIDE DEF p
    <3> QED BY <1>4, <3>1, <3>3
  <2> QED BY <1>1, <1>5, <2>1, HitCases DEF Untouched
<1>6. ASSUME NEW a \in Accesses, WrHitWe(a)
      PROVE  DirtyHeld'
  <2> DEFINE p == Probe(a.tag, a.sector)
             s == a.sector
             n == [lines[p.idx] EXCEPT !.status[s] = "INVALID"]
  <2>1. ProbeResult(a.tag, s, p) /\ p.status = "HIT" /\ s \in Sectors
    BY <1>6, AccessFacts, ProbeFinds DEF WrHitWe, Typed
  <2>2. p.idx \in Lines /\ lines[p.idx].tag = a.tag
    BY <2>1 DEF ProbeResult
  <2>3. lines' = [lines EXCEPT ![p.idx].status[s] = "INVALID"] /\ UNCHANGED config
        /\ unsaved' = unsaved \ {<<a.tag, s>>}
    BY <1>6 DEF WrHitWe, Untouched, KeyOf
  <2>4. lines' = [lines EXCEPT ![p.idx] = n]
    BY <2>3
  <2>5. n.tag = lines[p.idx].tag /\ n.modified_on_fill = lines[p.idx].modified_on_fill
        /\ \A x \in Sectors : x # s => n.status[x] = lines[p.idx].status[x]
    BY <2>2 DEF Typed, LineSpace
  <2> HIDE DEF p, s, n
  <2>6. \A k \in unsaved' \cap unsaved :
           lines[p.idx].tag = k[1] /\ Dirty(lines[p.idx], k[2]) => n.tag = k[1] /\ Dirty(n, k[2])
    BY <1>2, <2>2, <2>3, <2>5 DEF Dirty
  <2>7. unsaved' \ unsaved = {}
    BY <2>3
  <2> QED BY <2>2, <2>3, <2>4, <2>6, <2>7, DirtyOneLine
<1>7. ASSUME NEW a \in Accesses, WrMissWaLazy(a)
      PROVE  DirtyHeld'
  <2> DEFINE p == Probe(a.tag, a.sector)
             s == a.sector
             line == Accessed(a, p)
             n == LazyLine(a, p)
  <2>1. /\ ProbeResult(a.tag, s, p) /\ p.status \in {"HIT_RESERVED", "SECTOR_MISS", "MISS"} /\ p.idx \in Lines
        /\ line \in LineSpace /\ config.alloc = "ON_MISS" /\ lines' = [lines EXCEPT ![p.idx] = n]
    BY <1>7, LazyFacts
  <2>2. UNCHANGED config /\ unsaved' = (unsaved \ WrittenBack(p)) \cup {<<a.tag, s>>}
    BY <1>7 DEF WrMissWaLazy, KeyOf, Untouched
  <2>3. /\ n.tag = line.tag /\ n.status[s] = "MODIFIED"
        /\ \A x \in Sectors : x # s => n.status[x] = line.status[x] /\ n.modified_on_fill[x] = line.modified_on_fill[x]
    BY <2>1, LazyWrites
  <2>4. line.tag = a.tag
    <3>1. p.status = "MISS" => Fresh(line, a.tag, s)
      BY <2>1, AccessedLine
    <3>2. p.status # "MISS" => More(line, lines[p.idx], s) /\ lines[p.idx].tag = a.tag
      BY <2>1, AccessedLine
    <3> QED BY <3>1, <3>2 DEF Fresh, More
  <2>5. \A k \in Keys : k \notin WrittenBack(p) /\ lines[p.idx].tag = k[1] /\ Dirty(lines[p.idx], k[2])
           => line.tag = k[1] /\ Dirty(line, k[2])
    BY <2>1, DirtyAccessed
  <2>6. <<a.tag, s>>[1] = a.tag /\ <<a.tag, s>>[2] = s
    OBVIOUS
  <2> HIDE DEF p, s, line, n
  <2>7. \A k \in unsaved' \cap unsaved :
           lines[p.idx].tag = k[1] /\ Dirty(lines[p.idx], k[2]) => n.tag = k[1] /\ Dirty(n, k[2])
    <3> SUFFICES ASSUME NEW k \in unsaved' \cap unsaved, lines[p.idx].tag = k[1], Dirty(lines[p.idx], k[2])
                 PROVE  n.tag = k[1] /\ Dirty(n, k[2])
      OBVIOUS
    <3>1. CASE k \in WrittenBack(p)
      BY <2>2, <2>3, <2>4, <3>1 DEF Dirty
    <3>2. CASE k \notin WrittenBack(p)
      <4>1. line.tag = k[1] /\ Dirty(line, k[2]) /\ k[2] \in Sectors
        BY <1>2, <2>5, <3>2
      <4> QED BY <2>3, <4>1 DEF Dirty
    <3> QED BY <3>1, <3>2
  <2>8. \A k \in unsaved' \ unsaved : n.tag = k[1] /\ Dirty(n, k[2])
    BY <2>2, <2>3, <2>4, <2>6 DEF Dirty
  <2> QED BY <2>1, <2>2, <2>7, <2>8, DirtyOneLine
<1>8. ASSUME NEW r \in m_extra_mf_fields, FillByIndex(r)
      PROVE  DirtyHeld'
  <2> DEFINE line == lines[r.index]
             n == Filled(line, r)
             s == r.key[2]
             list == m_data[r.key].list
  <2>1. r \in Requests /\ r.index \in Lines /\ line \in LineSpace /\ r.key \in Keys
    BY DEF Typed, Requests
  <2>2. /\ lines' = [lines EXCEPT ![r.index] = n] /\ UNCHANGED config
        /\ unsaved' = unsaved \cup {k \in {r.key} : \E m \in DOMAIN m_data[k].list : m_data[k].list[m] = "atomic"}
    BY <1>8 DEF FillByIndex, MarkReady
  <2>3. /\ n.tag = line.tag /\ n.modified_on_fill = line.modified_on_fill
        /\ n.status[s] = IF line.modified_on_fill[s] \/ m_data[r.key].has_atomic THEN "MODIFIED" ELSE "VALID"
        /\ \A x \in Sectors : x # s => n.status[x] = line.status[x]
    BY <2>1, FilledLine
  <2>4. (\E m \in DOMAIN list : list[m] = "atomic") => m_data[r.key].has_atomic
    BY <2>1 DEF AtomicsKnown
  <2>5. line.tag = r.key[1] /\ line.status[s] = "RESERVED"
    BY DEF Pinned
  <2> HIDE DEF n, s, list, line
  <2>6. \A k \in unsaved' \cap unsaved : line.tag = k[1] /\ Dirty(line, k[2]) => n.tag = k[1] /\ Dirty(n, k[2])
    <3> SUFFICES ASSUME NEW k \in unsaved' \cap unsaved, line.tag = k[1], Dirty(line, k[2])
                 PROVE  n.tag = k[1] /\ Dirty(n, k[2])
      OBVIOUS
    <3>1. CASE k[2] # s
      BY <1>2, <2>3, <3>1 DEF Dirty
    <3>2. CASE k[2] = s
      <4>1. line.modified_on_fill[s]
        BY <2>5, <3>2 DEF Dirty
      <4> QED BY <2>3, <3>2, <4>1 DEF Dirty
    <3> QED BY <3>1, <3>2
  <2>7. \A k \in unsaved' \ unsaved : n.tag = k[1] /\ Dirty(n, k[2])
    <3> SUFFICES ASSUME NEW k \in unsaved' \ unsaved
                 PROVE  n.tag = k[1] /\ Dirty(n, k[2])
      OBVIOUS
    <3>1. k = r.key /\ m_data[r.key].has_atomic
      BY <2>2, <2>4 DEF list
    <3> QED BY <2>3, <2>5, <3>1 DEF Dirty, s
  <2> QED BY <2>1, <2>2, <2>6, <2>7, DirtyOneLine DEF line
<1>9. \A r \in m_extra_mf_fields : ~FillByAddress(r)
  BY DEF FillByAddress
<1>10. ASSUME NEW a \in Accesses, WrMissNoWa(a)
       PROVE  DirtyHeld'
  BY <1>1, <1>10 DEF WrMissNoWa, Untouched
<1> QED BY <1>1, <1>3, <1>5, <1>6, <1>7, <1>8, <1>9, <1>10, SettledSteps
        DEF vars, Cycle, NextAccess, FillPart

\* A cache that allocates on fills, without local writes, is never dirty.
LEMMA CleanStep ==
    ASSUME Typed, FilledOnce, Clean, Next \/ UNCHANGED vars
    PROVE  Clean'
<1>1. UNCHANGED config
  BY ConfigKept
<1> SUFFICES ASSUME config.alloc = "ON_FILL", WritesBelow PROVE unsaved' = {}
  BY <1>1 DEF Clean, WritesBelow
<1>2. unsaved = {}
  BY DEF Clean
<1>3. config.write # "WB" /\ config.miss # "LAZY" /\ "atomic" \notin config.accesses /\ "local" \notin config.accesses
  BY ConfigFacts DEF Typed, WritesBelow
<1>4. \A a \in Accesses : a.op # "atomic" /\ a.op # "local"
  BY <1>3 DEF Accesses
<1>5. ASSUME NEW a \in Accesses, RdMissBase(a) \/ WrMissWaNaive(a)
      PROVE  unsaved' = {}
  BY <1>2, <1>4, <1>5 DEF RdMissBase, WrMissWaNaive, SendReadRequest, LateAtomic
<1>6. ASSUME NEW a \in Accesses, RdHitBase(a) \/ WrHitWb(a) \/ WrHitWe(a) \/ WrMissNoWa(a) \/ WrMissWaLazy(a)
      PROVE  unsaved' = {}
  BY <1>2, <1>3, <1>4, <1>6 DEF RdHitBase, WrHitWb, WrHitWe, WrMissNoWa, WrMissWaLazy
<1>7. \A k \in Keys : ~ForceTagAccess(k)
  BY CopyFacts
<1>8. ASSUME Fill PROVE unsaved' = {}
  BY <1>2, <1>8 DEF Fill, FillPart, FillByIndex, FillByAddress
<1> QED BY <1>2, <1>5, <1>6, <1>7, <1>8 DEF Next, Access, Invalidate, Flush, Drop, Cycle, NextAccess, vars

-----------------------------------------------------------------------------
(* The theorems.                                                            *)

LEMMA InitIInv == Init => IInv
<1> SUFFICES ASSUME Init PROVE IInv
  OBVIOUS
<1>1. config \in Configs /\ \A l \in Lines : lines[l] = Cleared(NoTag)
  BY DEF Init
<1>2. Cleared(NoTag) \in LineSpace
  BY DEF Cleared, LineSpace, Status
<1>3. Typed
  <2>1. lines \in [Lines -> LineSpace]
    BY <1>2 DEF Init
  <2>2. lru \in [Lines -> Nat]
    BY ConfigFacts DEF Init, Lines
  <2>3. m_data \in [Keys -> EntrySpace]
    BY DEF Init, EntrySpace
  <2>4. m_current_response \in Seq(Keys) /\ m_miss_queue \in Seq(Nat)
    BY DEF Init
  <2>5. /\ is_used \in BOOLEAN /\ accesses \in Nat
        /\ m_extra_mf_fields \subseteq Requests /\ unsaved \subseteq Keys
    BY DEF Init
  <2> QED BY <1>1, <2>1, <2>2, <2>3, <2>4, <2>5 DEF Typed
<1>4. Matched /\ AtomicsKnown
  BY DEF Init, Matched, AtomicsKnown, Entries, ReadOf, Ready
<1>5. Pinned /\ DirtyHeld /\ Clean
  BY DEF Init, Pinned, DirtyHeld, Clean
<1>6. \A l \in Lines, s \in Sectors : lines[l].status[s] = "INVALID" /\ lines[l].readable[s]
  BY <1>1 DEF Cleared
<1>7. FilledOnce /\ HitsWhole
  BY <1>6 DEF Init, FilledOnce, HitsWhole, IsInvalid
<1> QED BY <1>3, <1>4, <1>5, <1>7 DEF IInv

LEMMA NextIInv == IInv /\ [Next]_vars => IInv'
<1> SUFFICES ASSUME IInv, Next \/ UNCHANGED vars PROVE IInv'
  OBVIOUS
<1>1. Typed' /\ Matched' /\ Pinned' /\ FilledOnce' /\ AtomicsKnown' /\ Clean'
  BY TypedStep, MatchedStep, PinnedStep, FilledOnceStep, AtomicsStep, CleanStep DEF IInv
<1>2. (Settled' => Settled) /\ (WritesBelow' => WritesBelow)
  BY ConfigKept DEF IInv, Settled, WritesBelow
<1>3. Settled => HitsWhole'
  BY HitsStep DEF IInv
<1>4. ASSUME Settled, WritesBelow PROVE DirtyHeld'
  <2>1. CASE config.alloc = "ON_MISS"
    BY <1>4, <2>1, DirtyStep DEF IInv
  <2>2. CASE config.alloc = "ON_FILL"
    <3>1. unsaved' = {}
      BY <1>1, <1>4, <2>2, ConfigKept DEF IInv, Clean, WritesBelow
    <3> QED BY <3>1 DEF DirtyHeld
  <2> QED BY <2>1, <2>2, ConfigFacts DEF IInv, Typed
<1> QED BY <1>1, <1>2, <1>3, <1>4 DEF IInv

LEMMA InvHolds == Spec => []IInv
BY InitIInv, NextIInv, PTL DEF Spec

\* Whatever an access would hit has all the data of its own block: probe(),
\* allocate() and fill() (gpu-cache.cc:242-327, 338-408, 1036-1077), in any
\* interleaving of misses, merges, partial writes, evictions and fills, though
\* no fill tests the line it finds under its saved index: in a cache that nothing
\* takes sectors from under a request (Settled).
THEOREM HitsFindData == Spec => []HitsHaveData
<1>1. IInv => HitsHaveData
  BY DEF IInv, HitsHaveData
<1> QED BY <1>1, InvHolds, PTL

\* Data that was written and not sent below stays in a line that is written back
\* when it is evicted, through fetches of a dirty sector, fills of a written one
\* and atomics (gpu-cache.cc:338-386, 1054-1077, gpu-cache.h:271-306): in a cache
\* that is neither flushed nor invalidated, sees no copies or races (Settled), and
\* has no local writes where a fill may evict them (WritesBelow).
THEOREM DirtyDataStays == Spec => []DirtyDataKept
<1>1. IInv => DirtyDataKept
  BY DEF IInv, DirtyDataKept
<1> QED BY <1>1, InvHolds, PTL

\* Each address with waiting accesses has one read below or is ready once: no
\* miss is sent twice, none is left without a read, and no reply comes for an
\* entry that is gone (mshr_table, gpu-cache.cc:515-578, 1111-1156).
THEOREM MshrMatches == Spec => []MshrMatchesRequests
<1>1. IInv => MshrMatchesRequests
  <2> SUFFICES ASSUME IInv, NEW k \in Keys
               PROVE  LET reads == Cardinality({r \in m_extra_mf_fields : r.key = k})
                          ready == Cardinality({n \in DOMAIN m_current_response : m_current_response[n] = k})
                      IN  reads + ready = IF k \in Entries THEN 1 ELSE 0
    BY DEF MshrMatchesRequests
  <2> DEFINE R == {r \in m_extra_mf_fields : r.key = k}
             N == {n \in DOMAIN m_current_response : m_current_response[n] = k}
  <2>1. R = {} \/ \E r : R = {r}
    BY DEF IInv, Matched
  <2>2. N = {} \/ \E n : N = {n}
    BY DEF IInv, Matched
  <2>3. /\ k \in Entries <=> R # {} \/ N # {}
        /\ ~(R # {} /\ N # {})
    BY DEF IInv, Matched, ReadOf, Ready
  <2> HIDE DEF R, N
  <2>4. Cardinality(R) = (IF R = {} THEN 0 ELSE 1) /\ Cardinality(N) = (IF N = {} THEN 0 ELSE 1)
    BY <2>1, <2>2, FS_EmptySet, FS_Singleton
  <2> QED BY <2>3, <2>4 DEF R, N
<1> QED BY <1>1, InvHolds, PTL

\* The line saved with a request on its way is still its own, with its sector
\* reserved, whatever is evicted, fetched and filled meanwhile
\* (gpu-cache.cc:1054-1060).
THEOREM RequestsPinTheirLines ==
    Spec => [](config.alloc = "ON_MISS" /\ Settled => \A r \in m_extra_mf_fields :
                 lines[r.index].tag = r.key[1] /\ lines[r.index].status[r.key[2]] = "RESERVED")
<1>1. IInv => (config.alloc = "ON_MISS" /\ Settled => \A r \in m_extra_mf_fields :
                 lines[r.index].tag = r.key[1] /\ lines[r.index].status[r.key[2]] = "RESERVED")
  BY DEF IInv, Pinned
<1> QED BY <1>1, InvHolds, PTL

=============================================================================
