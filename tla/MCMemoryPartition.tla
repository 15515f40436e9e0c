------------------------ MODULE MCMemoryPartition ------------------------
(* Instances of MemoryPartition for TLC.                                    *)
EXTENDS MemoryPartition, TLC

CONSTANTS b1, b2, row0, row1

\* Three requests of one sub-partition and two of the other; requests of both
\* meet in b1, with changes of row.
SubOfFive  == <<0, 0, 0, 1, 1>>
KindOfFive == <<"write", "read", "read", "writeback", "texture">>
BankOfFive == <<b1, b1, b2, b1, b1>>
RowOfFive  == <<row1, row1, row0, row1, row0>>
=============================================================================
