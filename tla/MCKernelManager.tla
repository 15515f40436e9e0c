-------------------------- MODULE MCKernelManager --------------------------
(* Instances of KernelManager for TLC.                                      *)
EXTENDS KernelManager, TLC

CONSTANTS k1, k2, k3, k4, s1, s2, t1, t2

\* All grids from the host, in two streams.
Flat        == [k \in Kernels |-> None]
FlatStreams == [k \in Kernels |-> IF k = k1 THEN s1 ELSE s2]

\* k2 is a child of k1, k3 a child of k2, each in a stream of its parent; k4 is
\* from the host.
Chain        == [k \in Kernels |-> IF k = k2 THEN k1 ELSE IF k = k3 THEN k2 ELSE None]
ChainStreams == [k \in Kernels |-> IF k = k1 THEN s1 ELSE IF k = k2 THEN t1 ELSE IF k = k3 THEN t2 ELSE s2]

\* k2 is a child of k1, k4 a child of k3; k1 and k3 are from the host.
Families       == [k \in Kernels |-> IF k = k2 THEN k1 ELSE IF k = k4 THEN k3 ELSE None]
FamilyStreams  == [k \in Kernels |-> IF k = k1 THEN s1 ELSE IF k = k2 THEN t1 ELSE IF k = k3 THEN s2 ELSE t2]

One     == [k \in Kernels |-> 1]
Two     == [k \in Kernels |-> 2]
Uneven  == [k \in Kernels |-> IF k = k1 THEN 3 ELSE IF k = k2 THEN 2 ELSE 1]
=============================================================================
