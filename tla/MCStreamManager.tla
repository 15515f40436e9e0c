-------------------------- MODULE MCStreamManager --------------------------
(* Instances of StreamManager for TLC.                                      *)
EXTENDS StreamManager

CONSTANTS h1, h2, s1, s2, s3, e1

\* One host, or two hosts with a stream each.
OneHost  == [h \in Hosts |-> Streams]
TwoHosts == [h \in Hosts |-> IF h = h1 THEN {s1} ELSE {s2}]

\* Records of an event go to one stream, or to any.
OneStream == [e \in Events |-> {s1}]
AnyStream == [e \in Events |-> Streams]
=============================================================================
