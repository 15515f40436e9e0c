---------------------------- MODULE MCShaderCore ----------------------------
(* Instances of ShaderCore for TLC.                                         *)
EXTENDS ShaderCore

CONSTANTS x, y, b1, b2

I(op, out, in, n, route) == [op |-> op, out |-> out, in |-> in, n |-> n, route |-> route, id |-> b1]
Exit   == I("exit", {}, {}, 0, "bypass")
Bar    == I("bar", {}, {}, 0, "bypass")
Bar2   == [Bar EXCEPT !.n = 2, !.id = b2]
Arrive == [Bar2 EXCEPT !.op = "arrive"]
Alu(out, in) == I("alu", out, in, 0, "bypass")
Load(out, n, route) == I("load", out, {}, n, route)
Store(in, n, route) == I("store", {}, in, n, route)

\* Loads of several accesses on all routes, a membar, a branch over instructions
\* already fetched, atomics, barriers one warp exits instead of reaching, and
\* barriers that count arrivals; the last CTA takes over a context.
Loads    == <<Load({x}, 2, "queue"), Load({y}, 1, "bypass"), I("shared", {x}, {}, 0, "bypass"), I("membar", {}, {}, 0, "bypass"), Exit>>
Atomics  == <<I("atom", {x}, {}, 2, "bypass"), Bar, I("atom", {}, {x}, 1, "bypass"), Exit>>
Branches == <<I("bra", {}, {}, 4, "bypass"), Exit, Alu({y}, {y}), I("bra", {}, {}, 2, "bypass")>>
Waits    == <<Bar, Store({}, 1, "bypass"), Bar, Exit>>
Arrives  == <<Arrive, Load({y}, 0, "queue"), Store({y}, 2, "queue"), Exit>>
Counted  == <<Load({x}, 2, "L1"), Store({x}, 1, "L1"), Bar2, Exit>>
Once     == <<Bar, Exit>>
Early    == <<Load({x}, 1, "queue"), Exit>>

Kernels == {
    << <<Once, Early>>, <<Once, Once>>, << <<Exit>>, <<Exit>> >> >>,
    << <<Once, Early, Waits>> >>,
    << <<Loads, Branches>> >>, << <<Atomics, Waits>> >>, << <<Counted, Arrives>> >> }
=============================================================================
