---------------------------- MODULE MCDataCache ----------------------------
(* DataCache on four shipped shapes of cache, three blocks.                *)
EXTENDS DataCache

L1Line   == [sectors |-> {1}, assoc |-> 2, write |-> "LWB", alloc |-> "ON_MISS", miss |-> "NO_WA",
             mshrs |-> 2, merge |-> 2, queue |-> 2, replies |-> 2, accesses |-> {"read", "write", "local"},
             discards |-> FALSE, copies |-> FALSE, races |-> FALSE]
L1Stream == [sectors |-> {1, 2}, assoc |-> 1, write |-> "LWB", alloc |-> "ON_FILL", miss |-> "NO_WA",
             mshrs |-> 2, merge |-> 2, queue |-> 2, replies |-> 1, accesses |-> {"read", "write", "local"},
             discards |-> FALSE, copies |-> FALSE, races |-> FALSE]
L2Line   == [sectors |-> {1}, assoc |-> 2, write |-> "WB", alloc |-> "ON_MISS", miss |-> "NAIVE",
             mshrs |-> 2, merge |-> 2, queue |-> 3, replies |-> 1, accesses |-> {"read", "atomic", "write"},
             discards |-> FALSE, copies |-> FALSE, races |-> FALSE]
L2Sector == [sectors |-> {1, 2}, assoc |-> 1, write |-> "WB", alloc |-> "ON_MISS", miss |-> "LAZY",
             mshrs |-> 2, merge |-> 2, queue |-> 2, replies |-> 1, accesses |-> {"read", "atomic", "write", "part"},
             discards |-> FALSE, copies |-> FALSE, races |-> FALSE]
Shapes == {L1Line, L1Stream, L2Line, L2Sector}

\* A streaming L1 without local writes loses nothing by a fill.
Undisturbed == Shapes \cup {[L1Stream EXCEPT !.accesses = {"read", "write"}]}

\* Small caches to which all that may happen happens.
Disturbed(c, kinds) == [c EXCEPT !.assoc = 1, !.mshrs = 1, !.accesses = kinds, !.replies = 1,
                                 !.discards = TRUE, !.copies = (c.write = "WB"), !.races = TRUE]
MCConfigs == Undisturbed \cup {Disturbed(L1Line, {"read", "local"}), Disturbed(L2Line, {"read", "atomic"}),
                               Disturbed(L2Sector, {"read", "part"})}
=============================================================================
