----------------------------- MODULE MCCrossbar -----------------------------
(* Crossbar with two clusters and two partitions: two clusters compete for  *)
(* a partition while one of them also sends to another, and replies.        *)
EXTENDS Crossbar

MCArbiters == [algo : {"iSLIP"}, grant_cycles : {1, 2}] \cup {[algo |-> "NAIVE_RR", grant_cycles |-> 1]}
MCTraffic  == {{<<0, 2>>, <<1, 2>>, <<1, 3>>}, {<<2, 0>>, <<3, 0>>}}
=============================================================================
