---------------------------- MODULE MCSimtStack ----------------------------
(* Instances of SimtStack for TLC: every kernel of four instructions, and   *)
(* of five with forward jumps only where they are not guarded, that ends in *)
(* ret, has a predecessor for every instruction and a path to the end from  *)
(* each, and may call (a longer one in its middle) a function that holds a  *)
(* branch or a loop.                                                        *)
EXTENDS SimtStack

I(op, pred, target) == [op |-> op, pred |-> pred, target |-> target]

Op == I("op", FALSE, 0)
Call == I("call", FALSE, 0)
Ret == I("ret", FALSE, 0)
Leave(b) == I("exit", b, 0)

\* Instructions for address i of a kernel of n; branches to the next are left out.
Branches(i, n, b) == {I("bra", b, t) : t \in (1 .. n) \ {i + 1}}
Forward(i, n)     == {I("bra", FALSE, t) : t \in i + 2 .. n}
AnyOf(i, n)  == {Op, Call, Leave(TRUE), Leave(FALSE)} \cup Branches(i, n, TRUE) \cup Branches(i, n, FALSE)
SomeOf(i, n) == {Op, Leave(TRUE)} \cup Branches(i, n, TRUE) \cup Forward(i, n)

Mains == {<<a, b, c, Ret>> : a \in AnyOf(1, 4), b \in AnyOf(2, 4), c \in AnyOf(3, 4)}
           \cup {<<a, b, c, d, Ret>> : a \in SomeOf(1, 5), b \in SomeOf(2, 5), c \in SomeOf(3, 5) \cup {Call}, d \in SomeOf(4, 5)}

\* A function at address n + 1: a branch over an instruction, or a loop.
Functions(n) == {<<I("bra", TRUE, n + 3), Op, Ret>>, <<Op, I("bra", TRUE, n + 1), Ret>>}

\* The kernel alone, or with each function when it calls one.
Linked(m) ==
  IF \E i \in DOMAIN m : m[i] = Call
  THEN {[main |-> Len(m), code |-> m \o f] : f \in Functions(Len(m))}
  ELSE {[main |-> Len(m), code |-> m]}

NoDeadCode(m) == \A i \in 2 .. Len(m) : \E j \in DOMAIN m : j # i /\ i \in Successors([code |-> m], j)

AllKernels == UNION {Linked(m) : m \in {m \in Mains : NoDeadCode(m) /\ CanEnd([code |-> m])}}
=============================================================================
