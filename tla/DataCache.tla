------------------------------ MODULE DataCache ------------------------------
(***************************************************************************)
(* One set of a data cache (data_cache, src/gpgpu-sim/gpu-cache.cc): the    *)
(* tag array, the MSHRs, the miss queue and the fill path, for the write    *)
(* and allocation policies of the shipped configurations.  The client (the  *)
(* load/store unit or the L2 partition) sends any access it may send and    *)
(* retries the ones the cache refuses; the memory below is external and     *)
(* answers the reads it has been sent in any order.                        *)
(*                                                                         *)
(* A sector of a block stands for its address.  A line cache is the case    *)
(* of one sector.  Ports, which delay an access, and the streaming cache's  *)
(* pending_lines, which change statistics only, are left out.              *)
(***************************************************************************)
EXTENDS Integers, Sequences, FiniteSets

CONSTANTS
    Configs,      \* the cache configurations
    Tags,         \* blocks that map to the set
    MaxAccesses   \* bound: accesses the client gets accepted

\* A configuration string: line or sector cache, associativity, write policy
\* ("WB": WRITE_BACK, "LWB": LOCAL_WB_GLOBAL_WT), allocation policy, write
\* miss policy, MSHRs, merged accesses each, miss queue, and the replies to a
\* read (2 where a line cache reads a sectored one).  accesses are the
\* operations of its client.  Three options say what else may happen to it:
\* discards, that it is flushed or invalidated (-gpgpu_flush_l1_cache,
\* -gpgpu_flush_l2_cache); copies, that copies of the host update its tags
\* (-gpgpu_perf_sim_memcpy); races, that a write may come before the answer to
\* a read of its sector has been taken.
ConfigSpace ==
    [sectors : SUBSET Nat, assoc : Nat \ {0}, write : {"WB", "LWB"}, alloc : {"ON_MISS", "ON_FILL"},
     miss : {"NO_WA", "NAIVE", "LAZY"}, mshrs : Nat, merge : Nat, queue : Nat, replies : {1, 2},
     accesses : SUBSET {"read", "atomic", "write", "part", "local"},
     discards : BOOLEAN, copies : BOOLEAN, races : BOOLEAN]

\* What cache_config::init accepts, fill() asserts, and that only an L2 is told
\* of copies.
ASSUME DataCacheAssumption ==
    /\ Configs \subseteq ConfigSpace /\ MaxAccesses \in Nat
    /\ \A c \in Configs : c.alloc = "ON_FILL" => c.write # "WB" /\ c.miss # "LAZY" /\ "atomic" \notin c.accesses
    /\ \A c \in Configs : c.copies => c.write = "WB"

VARIABLES
    config,
    lines,              \* m_lines, the blocks of the set
    lru,                \* the places of the lines in the order of their last accesses
    is_used,
    m_data,             \* the MSHR entries: accesses waiting for each address
    m_current_response, \* the entries whose data has come
    m_miss_queue,       \* requests to the memory below: a read's mf, 0 for a write
    m_extra_mf_fields,  \* the reads sent and not yet filled
    accesses,           \* accesses accepted so far; they number the mfs
    unsaved             \* history: addresses whose last write has not been sent below

vars == <<config, lines, lru, is_used, m_data, m_current_response, m_miss_queue, m_extra_mf_fields,
          accesses, unsaved>>

Lines   == 1..config.assoc
Sectors == config.sectors
Keys    == Tags \X Sectors
NoTag   == "none"

\* An access: "write" covers its sector, "part" some bytes of it, "local" is a
\* write to local memory.
Accesses == [tag : Tags, sector : Sectors, op : config.accesses]
KeyOf(a) == <<a.tag, a.sector>>
IsWrite(a) == a.op \in {"write", "part", "local"}

\* A line after init(): data is a history variable, what the sector holds.
Cleared(t) == [tag |-> t, status |-> [s \in Sectors |-> "INVALID"], modified_on_fill |-> [s \in Sectors |-> FALSE],
               readable |-> [s \in Sectors |-> TRUE], data |-> [s \in Sectors |-> "none"]]

Init ==
    /\ config \in Configs
    /\ lines = [l \in Lines |-> Cleared(NoTag)] /\ lru = [l \in Lines |-> l] /\ is_used = FALSE
    /\ m_data = [k \in Keys |-> [list |-> <<>>, has_atomic |-> FALSE]]
    /\ m_current_response = <<>> /\ m_miss_queue = <<>> /\ m_extra_mf_fields = {}
    /\ accesses = 0 /\ unsaved = {}
-----------------------------------------------------------------------------
(* The tag array.                                                           *)

IsInvalid(l)  == \A s \in Sectors : lines[l].status[s] = "INVALID"
\* A variant: a line counts as reserved only when all of it is.
IsReservedWhole(l) == \A s \in Sectors : lines[l].status[s] = "RESERVED"
IsReserved(l) == \E s \in Sectors : lines[l].status[s] = "RESERVED"
IsModified(l) == \E s \in Sectors : lines[l].status[s] = "MODIFIED"

Least(S)    == CHOOSE x \in S : \A y \in S : x <= y
Greatest(S) == CHOOSE x \in S : \A y \in S : x >= y
Oldest(S)   == CHOOSE x \in S : \A y \in S : lru[x] <= lru[y]

\* The line a miss takes: the last invalid one, or the least recently used.
Victim ==
    LET free == {l \in Lines : ~IsReserved(l)}
        invalid == {l \in free : IsInvalid(l)}
    IN  IF invalid # {} THEN Greatest(invalid) ELSE Oldest(free)

\* tag_array::probe.  A sector written in part is not readable and is fetched.
Probe(t, s) ==
    LET match == {l \in Lines : lines[l].tag = t /\ ~IsInvalid(l)}
        l == Least(match)
        status == lines[l].status[s]
    IN  IF match # {}
        THEN [idx |-> l, status |->
                CASE status = "RESERVED" -> "HIT_RESERVED"
                  [] status = "VALID" \/ (status = "MODIFIED" /\ lines[l].readable[s]) -> "HIT"
                  [] OTHER -> "SECTOR_MISS"]
        ELSE IF \A x \in Lines : IsReserved(x) THEN [idx |-> 0, status |-> "RESERVATION_FAIL"]
        ELSE [idx |-> Victim, status |-> "MISS"]

\* A variant: fetching a sector written in part forgets that it is dirty.
AllocateSectorClean(line, s) ==
    [line EXCEPT !.modified_on_fill[s] = FALSE, !.status[s] = "RESERVED", !.readable[s] = TRUE]
AllocateSector(line, s) ==
    [line EXCEPT !.modified_on_fill[s] = (line.status[s] = "MODIFIED"), !.status[s] = "RESERVED",
                 !.readable[s] = TRUE]

Allocate(t, s, p) ==
    IF p.status = "MISS" THEN AllocateSector(Cleared(t), s)
    ELSE IF p.status = "SECTOR_MISS" THEN AllocateSector(lines[p.idx], s)
    ELSE lines[p.idx]

Touch(l) == lru' = [x \in Lines |-> IF x = l THEN config.assoc ELSE IF lru[x] > lru[l] THEN lru[x] - 1 ELSE lru[x]]

\* What tag_array::access leaves in the line a probe found.
Accessed(a, p) == IF config.alloc = "ON_MISS" THEN Allocate(a.tag, a.sector, p) ELSE lines[p.idx]
TouchAccessed(p) ==
    IF config.alloc = "ON_MISS" \/ p.status = "HIT" THEN Touch(p.idx) ELSE UNCHANGED lru

\* The write-back of the block an access evicts, and what it saves.
Evicts(p)     == p.status = "MISS" /\ config.alloc = "ON_MISS" /\ IsModified(p.idx)
WriteBack(p)  == IF Evicts(p) THEN <<0>> ELSE <<>>
WrittenBack(p) ==
    IF Evicts(p)
    THEN {<<lines[p.idx].tag, s>> : s \in {x \in Sectors : lines[p.idx].status[x] = "MODIFIED"}}
    ELSE {}
-----------------------------------------------------------------------------
(* Sending requests below.                                                  *)

Entries == {k \in Keys : m_data[k].list # <<>>}
MissQueueFull(n) == Len(m_miss_queue) + n >= config.queue

\* An access joins the entry of its address, or takes a free one and sends
\* the read.
MshrAvailable(k) ==
    IF k \in Entries THEN Len(m_data[k].list) < config.merge
    ELSE Cardinality(Entries) < config.mshrs /\ Len(m_miss_queue) < config.queue

\* An atomic that joins an entry whose data has come writes its address, too late
\* for fill() to see it.
Ready(k) == \E n \in DOMAIN m_current_response : m_current_response[n] = k
LateAtomic(k, op) == IF op = "atomic" /\ Ready(k) THEN {k} ELSE {}

\* A variant: the tag array, not the MSHR entry, decides whether a read is sent.
SendReadRequestAgain(a, p, op, first) ==
    LET k == KeyOf(a)
        sends == p.status # "HIT_RESERVED"
    IN  /\ p.status # "RESERVATION_FAIL" /\ MshrAvailable(k)
        /\ lines' = [lines EXCEPT ![p.idx] = Accessed(a, p)] /\ TouchAccessed(p) /\ is_used' = TRUE
        /\ m_data' = [m_data EXCEPT ![k].list = Append(@, op), ![k].has_atomic = @ \/ op = "atomic"]
        /\ m_extra_mf_fields' = m_extra_mf_fields \cup
             (IF sends THEN {[mf |-> accesses + 1, key |-> k, index |-> p.idx, pending |-> config.replies]}
              ELSE {})
        /\ m_miss_queue' = m_miss_queue \o first \o (IF sends THEN <<accesses + 1>> ELSE <<>>) \o WriteBack(p)
        /\ unsaved' = (unsaved \ WrittenBack(p)) \cup LateAtomic(k, op)

\* send_read_request, and the write-back its callers send after it; first is
\* what the caller has queued before.
SendReadRequest(a, p, op, first) ==
    LET k == KeyOf(a)
        sends == k \notin Entries
    IN  /\ p.status # "RESERVATION_FAIL" /\ MshrAvailable(k)
        /\ lines' = [lines EXCEPT ![p.idx] = Accessed(a, p)] /\ TouchAccessed(p) /\ is_used' = TRUE
        /\ m_data' = [m_data EXCEPT ![k].list = Append(@, op), ![k].has_atomic = @ \/ op = "atomic"]
        /\ m_extra_mf_fields' = m_extra_mf_fields \cup
             (IF sends THEN {[mf |-> accesses + 1, key |-> k, index |-> p.idx, pending |-> config.replies]}
              ELSE {})
        /\ m_miss_queue' = m_miss_queue \o first \o (IF sends THEN <<accesses + 1>> ELSE <<>>) \o WriteBack(p)
        /\ unsaved' = (unsaved \ WrittenBack(p)) \cup LateAtomic(k, op)

Accept == accesses < MaxAccesses /\ accesses' = accesses + 1
-----------------------------------------------------------------------------
(* data_cache::access.  An access none of these actions takes is refused    *)
(* (RESERVATION_FAIL) and changes nothing.                                  *)

SetModified(l, s) == lines' = [lines EXCEPT ![l].status[s] = "MODIFIED"]
Untouched == UNCHANGED <<config, m_data, m_current_response, m_extra_mf_fields>>

RdHitBase(a) ==
    LET p == Probe(a.tag, a.sector)
    IN  /\ ~IsWrite(a) /\ p.status = "HIT" /\ Accept
        /\ IF a.op = "atomic"
           THEN SetModified(p.idx, a.sector) /\ unsaved' = unsaved \cup {KeyOf(a)}
           ELSE UNCHANGED <<lines, unsaved>>
        /\ Touch(p.idx) /\ is_used' = TRUE
        /\ Untouched /\ UNCHANGED m_miss_queue

RdMissBase(a) ==
    LET p == Probe(a.tag, a.sector)
    IN  /\ ~IsWrite(a) /\ p.status # "HIT" /\ ~MissQueueFull(1) /\ Accept
        /\ config.races \/ LateAtomic(KeyOf(a), a.op) = {}
        /\ SendReadRequest(a, p, a.op, <<>>)
        /\ UNCHANGED <<config, m_current_response>>

\* wr_hit_wb: all writes of a write-back cache, local ones of an L1.
WrHitWb(a) ==
    LET p == Probe(a.tag, a.sector)
    IN  /\ IsWrite(a) /\ p.status = "HIT" /\ (config.write = "WB" \/ a.op = "local") /\ Accept
        /\ SetModified(p.idx, a.sector) /\ Touch(p.idx) /\ is_used' = TRUE
        /\ unsaved' = unsaved \cup {KeyOf(a)}
        /\ Untouched /\ UNCHANGED m_miss_queue

\* wr_hit_we: a global write evicts its sector from an L1.
WrHitWe(a) ==
    LET p == Probe(a.tag, a.sector)
    IN  /\ IsWrite(a) /\ p.status = "HIT" /\ config.write = "LWB" /\ a.op # "local"
        /\ ~MissQueueFull(0) /\ Accept
        /\ lines' = [lines EXCEPT ![p.idx].status[a.sector] = "INVALID"]
        /\ m_miss_queue' = Append(m_miss_queue, 0) /\ unsaved' = unsaved \ {KeyOf(a)}
        /\ Untouched /\ UNCHANGED <<lru, is_used>>

WrMissNoWa(a) ==
    /\ IsWrite(a) /\ config.miss = "NO_WA" /\ Probe(a.tag, a.sector).status # "HIT"
    /\ ~MissQueueFull(0) /\ Accept
    /\ m_miss_queue' = Append(m_miss_queue, 0)
    /\ Untouched /\ UNCHANGED <<lines, lru, is_used, unsaved>>

\* wr_miss_wa_naive sends the write, and a read of its own for the block.
WrMissWaNaive(a) ==
    LET p == Probe(a.tag, a.sector)
    IN  /\ IsWrite(a) /\ config.miss = "NAIVE" /\ p.status # "HIT"
        /\ ~MissQueueFull(2) /\ Accept
        /\ SendReadRequest(a, p, "alloc", <<0>>)
        /\ UNCHANGED <<config, m_current_response>>

\* wr_miss_wa_lazy_fetch_on_read writes the sector at once, also one that a
\* read has reserved: the sector is MODIFIED from here on and the read's line
\* may go before its data comes.
WrMissWaLazy(a) ==
    LET p == Probe(a.tag, a.sector)
        s == a.sector
    IN  /\ IsWrite(a) /\ config.miss = "LAZY" /\ p.status \notin {"HIT", "RESERVATION_FAIL"}
        /\ config.races \/ KeyOf(a) \notin Entries
        /\ ~MissQueueFull(0) /\ Accept
        /\ lines' = [lines EXCEPT ![p.idx] =
             [Accessed(a, p) EXCEPT !.status[s] = "MODIFIED", !.readable[s] = (a.op = "write"),
                                    !.modified_on_fill[s] = @ \/ p.status = "HIT_RESERVED",
                                    !.data[s] = IF a.op = "write" THEN "full" ELSE "part"]]
        /\ TouchAccessed(p) /\ is_used' = TRUE
        /\ m_miss_queue' = m_miss_queue \o WriteBack(p)
        /\ unsaved' = (unsaved \ WrittenBack(p)) \cup {KeyOf(a)} /\ Untouched
-----------------------------------------------------------------------------
(* Answers.                                                                 *)

\* cycle: the memory below takes the next request.
Cycle ==
    /\ m_miss_queue # <<>> /\ m_miss_queue' = Tail(m_miss_queue)
    /\ UNCHANGED <<config, lines, lru, is_used, m_data, m_current_response, m_extra_mf_fields, accesses, unsaved>>

Below(r) == r \in m_extra_mf_fields /\ \A n \in DOMAIN m_miss_queue : m_miss_queue[n] # r.mf

\* Some of the replies a read of a sectored cache needs.
FillPart(r) ==
    /\ Below(r) /\ r.pending > 1
    /\ m_extra_mf_fields' = (m_extra_mf_fields \ {r}) \cup {[r EXCEPT !.pending = @ - 1]}
    /\ UNCHANGED <<config, lines, lru, is_used, m_data, m_current_response, m_miss_queue, accesses, unsaved>>

\* block::fill: the sector is dirty if it was written before.
FillSector(line, s, data) ==
    [line EXCEPT !.status[s] = IF line.modified_on_fill[s] THEN "MODIFIED" ELSE "VALID", !.data[s] = data]

\* A line after the fill of a request, MODIFIED for an entry with an atomic.
\* Nothing tests that the line still is the request's.
Filled(line, r) ==
    LET s == r.key[2]
        filled == FillSector(line, s, IF line.tag = r.key[1] THEN "full" ELSE "stray")
    IN  IF m_data[r.key].has_atomic THEN [filled EXCEPT !.status[s] = "MODIFIED"] ELSE filled

MarkReady(r) ==
    /\ Below(r) /\ r.pending = 1
    /\ m_current_response' = Append(m_current_response, r.key)
    /\ UNCHANGED <<config, is_used, m_data, m_miss_queue, accesses>>

\* ON_MISS: the data goes to the line saved with the request.
FillByIndex(r) ==
    /\ config.alloc = "ON_MISS" /\ MarkReady(r)
    /\ lines' = [lines EXCEPT ![r.index] = Filled(@, r)]
    /\ m_extra_mf_fields' = m_extra_mf_fields \ {r}
    /\ unsaved' = unsaved \cup {k \in {r.key} : \E n \in DOMAIN m_data[k].list : m_data[k].list[n] = "atomic"}
    /\ UNCHANGED lru

\* ON_FILL: the data takes a line now.  What it evicts is not written back.
FillByAddress(r) ==
    LET p == Probe(r.key[1], r.key[2])
    IN  /\ config.alloc = "ON_FILL" /\ MarkReady(r)
        /\ m_extra_mf_fields' = m_extra_mf_fields \ {r}
        /\ lines' = [lines EXCEPT ![p.idx] = Filled(Allocate(r.key[1], r.key[2], p), r)]
        /\ IF p.status = "HIT" THEN UNCHANGED lru ELSE Touch(p.idx)
        /\ UNCHANGED unsaved

\* A variant: the entry gives up its turn with its first access.
NextAccessPops ==
    /\ m_current_response # <<>>
    /\ LET k == Head(m_current_response)
           left == Tail(m_data[k].list)
       IN  /\ m_data' = [m_data EXCEPT ![k] = [list |-> left, has_atomic |-> @.has_atomic /\ left # <<>>]]
           /\ m_current_response' = Tail(m_current_response)
    /\ UNCHANGED <<config, lines, lru, is_used, m_miss_queue, m_extra_mf_fields, accesses, unsaved>>

\* next_access: the client takes the next access of the first ready entry.
NextAccess ==
    /\ m_current_response # <<>>
    /\ LET k == Head(m_current_response)
           left == Tail(m_data[k].list)
       IN  /\ m_data' = [m_data EXCEPT ![k] = [list |-> left, has_atomic |-> @.has_atomic /\ left # <<>>]]
           /\ m_current_response' = IF left = <<>> THEN Tail(m_current_response) ELSE m_current_response
    /\ UNCHANGED <<config, lines, lru, is_used, m_miss_queue, m_extra_mf_fields, accesses, unsaved>>

-----------------------------------------------------------------------------
(* Discards and copies.                                                     *)

\* The sectors of some lines become INVALID; what was dirty is not written back.
Drop(S) ==
    /\ is_used /\ is_used' = FALSE
    /\ lines' = [l \in Lines |-> IF l \in S
                   THEN [lines[l] EXCEPT !.status = [s \in Sectors |-> "INVALID"]] ELSE lines[l]]
    /\ UNCHANGED <<config, lru, m_data, m_current_response, m_miss_queue, m_extra_mf_fields, accesses, unsaved>>

\* invalidate, at a memory barrier of one of the core's warps: loads of the
\* others may be outstanding.
Invalidate == config.discards /\ config.write = "LWB" /\ Drop(Lines)

\* flush of the L2, when all threads have completed.
Flush ==
    /\ config.discards /\ config.write = "WB"
    /\ \A k \in Entries : \A n \in DOMAIN m_data[k].list : m_data[k].list[n] = "alloc"
    /\ Drop({l \in Lines : IsModified(l)})

\* force_tag_access: a copy to or from the memory of the GPU has the L2's tags
\* filled, whatever the state of the sector, and nothing is sent below.  Where
\* every line is reserved the code fills the line of an uninitialized index:
\* left out.
ForceTagAccess(k) ==
    LET p == Probe(k[1], k[2])
    IN  /\ config.copies /\ p.status # "RESERVATION_FAIL"
        /\ lines' = [lines EXCEPT ![p.idx] = FillSector(Allocate(k[1], k[2], p), k[2], "full")]
        /\ IF p.status \in {"MISS", "SECTOR_MISS"} THEN Touch(p.idx) ELSE UNCHANGED lru
        /\ Untouched /\ UNCHANGED <<is_used, m_miss_queue, accesses, unsaved>>
-----------------------------------------------------------------------------
Access == \E a \in Accesses :
    RdHitBase(a) \/ RdMissBase(a) \/ WrHitWb(a) \/ WrHitWe(a) \/ WrMissNoWa(a) \/ WrMissWaNaive(a) \/ WrMissWaLazy(a)

Fill == \E r \in m_extra_mf_fields : FillPart(r) \/ FillByIndex(r) \/ FillByAddress(r)

Next == Access \/ Cycle \/ Fill \/ NextAccess \/ Invalidate \/ Flush
        \/ \E k \in Keys : ForceTagAccess(k)

Spec == Init /\ [][Next]_vars

\* The cache is clocked, the memory below answers, and the client takes answers.
FairSpec == Spec /\ WF_vars(Cycle) /\ WF_vars(Fill) /\ WF_vars(NextAccess)
-----------------------------------------------------------------------------
(* Properties.                                                              *)

\* Nothing takes away a sector while a request waits for it: the cache is not
\* flushed or invalidated, its tags are not changed by copies, and no write comes
\* before the answer to a read of the sector has been taken.
Settled == ~config.discards /\ ~config.copies /\ ~config.races

\* What a fill may evict holds no local writes.
WritesBelow == config.alloc = "ON_FILL" => "local" \notin config.accesses

HitsWhole == \A l \in Lines, s \in Sectors :
    LET line == lines[l]
    IN  line.status[s] = "VALID" \/ (line.status[s] = "MODIFIED" /\ line.readable[s]) => line.data[s] = "full"

DirtyHeld == \A k \in unsaved : \E l \in Lines :
    /\ lines[l].tag = k[1]
    /\ lines[l].status[k[2]] = "MODIFIED" \/ (lines[l].status[k[2]] = "RESERVED" /\ lines[l].modified_on_fill[k[2]])

\* A sector an access would hit holds all its bytes, and those of its own block:
\* it was filled or written whole since the line took it, and no fill that comes
\* to a saved index brings the data of another block (gpu-cache.cc:1054-1060).
\* Each of the three things Settled excludes breaks it.
HitsHaveData == Settled => HitsWhole

\* What was written to the cache and not sent below stays where it is going to
\* be written back: in a MODIFIED sector, or one its fill will make MODIFIED
\* (gpu-cache.cc:355-360, gpu-cache.h:271-306).  Flush and invalidate drop it
\* (gpu-cache.cc:415-436), so do fills that allocate their line (392-408), copies
\* and races: no cache they may happen to is claimed to keep its data.
DirtyDataKept == Settled /\ WritesBelow => DirtyHeld

\* Each address with waiting accesses has one read below or one place among
\* the ready entries, and no other address has either.
MshrMatchesRequests == \A k \in Keys :
    LET reads == Cardinality({r \in m_extra_mf_fields : r.key = k})
        ready == Cardinality({n \in DOMAIN m_current_response : m_current_response[n] = k})
    IN  reads + ready = IF k \in Entries THEN 1 ELSE 0

\* Every access that waits for data is answered.
ReadsAnswered == \A t \in Tags : \A s \in UNION {c.sectors : c \in Configs} :
    []<>(<<t, s>> \notin DOMAIN m_data \/ m_data[<<t, s>>].list = <<>>)
=============================================================================
