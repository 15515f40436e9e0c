----------------------------- MODULE SimtStack -----------------------------
(***************************************************************************)
(* The SIMT reconvergence stack of one warp (abstract_hardware_model.cc,   *)
(* simt_stack::update) with what feeds it: the reconvergence points that   *)
(* do_pdom computes from the control flow of a function (ptx_ir.cc) and    *)
(* the threads, each with a program counter and a call stack of its own    *)
(* (ptx_sim.cc, instructions.cc).  The warp executes the instruction at    *)
(* the top of the stack for the threads in the top mask; every thread      *)
(* executes the instruction at its own program counter, and the simulator  *)
(* asserts that the two are the same.                                      *)
(*                                                                         *)
(* A program is a kernel, instructions 1 .. main, followed by one function *)
(* it may call.  What instructions compute is abstracted to the outcome of *)
(* their guard predicate, chosen per thread.  Analysis is done on          *)
(* instructions instead of basic blocks: the immediate postdominator of a  *)
(* branch is the first instruction of the block the code finds.            *)
(***************************************************************************)
EXTENDS Integers, Sequences, FiniteSets, SequencesExt

CONSTANTS WarpSize,  \* threads of the warp (m_warp_size)
          Programs   \* [main |-> n, code |-> sequence of instructions]

VARIABLES program,   \* the kernel the warp runs
          recon,     \* reconvergence_pc of every instruction, pre-decoded
          pc,        \* m_PC of every thread
          calls,     \* return addresses of m_callstack of every thread
          done,      \* threads that have exited
          stack      \* m_stack

vars == <<program, recon, pc, calls, done, stack>>

Threads == 0 .. WarpSize - 1

NoPc     == -1  \* (address_type)-1, NO_BRANCH_DIVERGENCE
ReturnPc == -2  \* RECONVERGE_RETURN_PC
Exit     == 0   \* the exit block; also the return address below a kernel

Entry(p, mask, recvg, type) == [pc |-> p, mask |-> mask, recvg |-> recvg, type |-> type]

----------------------------------------------------------------------------
(* Reconvergence points.                                                   *)

\* A variant: a guarded exit is not linked to the exit block.
SuccessorsOfGuarded(p, i) ==
  LET c == p.code[i]
  IN  CASE c.op \in {"exit", "ret"} -> {IF c.pred THEN i + 1 ELSE Exit}
        [] c.op = "bra"             -> {c.target} \cup (IF c.pred THEN {i + 1} ELSE {})
        [] OTHER                    -> {i + 1}

\* Where control goes from instruction i of a program.
Successors(p, i) ==
  LET c == p.code[i]
  IN  CASE c.op \in {"exit", "ret"} -> {Exit} \cup (IF c.pred THEN {i + 1} ELSE {})
        [] c.op = "bra"             -> {c.target} \cup (IF c.pred THEN {i + 1} ELSE {})
        [] OTHER                    -> {i + 1}

\* One pass: b stays a postdominator of a if it is one of all that may follow a.
Refine(p, pdom) ==
  {e \in pdom : e[1] # e[2] => \A s \in Successors(p, e[1]) : <<s, e[2]>> \in pdom}

\* <<i, j>> for every j that postdominates i: the greatest fixed point that
\* iterating from the full sets reaches.
Postdominators(p) ==
  LET nodes == 0 .. Len(p.code)
      after[n \in nodes] ==
        IF n = 0 THEN {e \in nodes \X nodes : e[1] = Exit => e[2] = Exit} ELSE Refine(p, after[n - 1])
  IN  after[Len(p.code)]

\* The closest strict postdominators of i.
Immediate(pdom, i) ==
  LET strict == {e[2] : e \in {e \in pdom : e[1] = i /\ e[2] # i}}
  IN  {j \in strict : \A k \in strict : <<j, k>> \in pdom}

\* Only branches have a reconvergence point; the exit block has no instruction
\* to reconverge at, so the return address of the function stands for it.
ReconvergencePoints(p) ==
  LET pdom == Postdominators(p)
  IN  [i \in DOMAIN p.code |->
         IF p.code[i].op # "bra" THEN NoPc
         ELSE LET j == CHOOSE j \in Immediate(pdom, i) : TRUE
              IN  IF j = Exit THEN ReturnPc ELSE j]

\* find_ipostdominators asserts that every block but the exit has an immediate
\* postdominator.
Assembles(p) == LET pdom == Postdominators(p) IN \A i \in DOMAIN p.code : Immediate(pdom, i) # {}

----------------------------------------------------------------------------
(* The programs.                                                           *)

Instruction == [op : {"op", "call", "ret", "exit", "bra"}, pred : BOOLEAN, target : Nat]

\* The instructions of the kernel or of the function, whichever has i.
Part(p, i) == IF i <= p.main THEN 1 .. p.main ELSE p.main + 1 .. Len(p.code)

\* The exit can be reached from every instruction.
CanEnd(p) ==
  LET toExit[n \in 0 .. Len(p.code)] ==
        IF n = 0 THEN {Exit}
        ELSE LET r == toExit[n - 1]
             IN  r \cup {i \in DOMAIN p.code : Successors(p, i) \cap r # {}}
  IN  DOMAIN p.code \subseteq toExit[Len(p.code)]

\* Control leaves the kernel and the function by exit and ret only.  The function
\* has one return, at its end, and no exit; calls and its return have no guard
\* (update asserts that they do not diverge).  It calls no other.
WellFormed(p) ==
  /\ p.code \in Seq(Instruction) /\ p.main \in DOMAIN p.code
  /\ \A i \in DOMAIN p.code :
       LET c == p.code[i]
       IN  /\ Successors(p, i) \subseteq Part(p, i) \cup (IF c.op \in {"exit", "ret"} THEN {Exit} ELSE {})
           /\ c.op = "call" => i < p.main /\ p.main < Len(p.code) /\ ~c.pred
           /\ i > p.main => c.op # "exit" /\ (c.op = "ret" <=> i = Len(p.code)) /\ (c.op = "ret" => ~c.pred)
  /\ CanEnd(p)

ASSUME WarpAssumption == WarpSize \in Nat \ {0}
ASSUME ProgramsAssumption == \A p \in Programs : WellFormed(p)

----------------------------------------------------------------------------
(* Threads.                                                                *)

Init ==
  /\ program \in Programs
  /\ recon = ReconvergencePoints(program)
  /\ pc = [t \in Threads |-> 1]
  /\ calls = [t \in Threads |-> <<Exit>>]
  /\ done = {}
  /\ stack = <<Entry(1, Threads, NoPc, "normal")>>

\* The next program counter of thread t, whose guard allows its instruction or
\* not.
NextPc(t, taken) ==
  LET c == program.code[pc[t]]
  IN  IF ~taken THEN pc[t] + 1
      ELSE CASE c.op = "bra"  -> c.target
             [] c.op = "call" -> program.main + 1
             [] c.op = "ret"  -> Last(calls[t])
             [] OTHER         -> pc[t] + 1

\* A call pushes the address after the instruction at the top of the stack.
NextCalls(t, taken) ==
  LET c == program.code[pc[t]]
  IN  IF taken /\ c.op = "call" THEN Append(calls[t], Last(stack).pc + 1)
      ELSE IF taken /\ c.op = "ret" THEN Front(calls[t])
      ELSE calls[t]

\* A thread is done after exit, or after ret from the kernel.
Exits(t) ==
  LET c == program.code[pc[t]]
  IN  c.op = "exit" \/ (c.op = "ret" /\ Len(calls[t]) = 1)

\* The return address at which the warp reconverges when the function ends first:
\* that of its first live thread.
ReconvergeAt(i, npc, ncalls, ndone) ==
  IF recon[i] = ReturnPc /\ ndone # Threads
  THEN Last(ncalls[CHOOSE t \in Threads \ ndone : \A u \in Threads \ ndone : t <= u])
  ELSE recon[i]

----------------------------------------------------------------------------
(* The stack.                                                              *)

\* A variant: the caller goes on even if it is where it reconverges.
ReturnedKeeps(below, p) == Append(Front(below), [Last(below) EXCEPT !.pc = p])

\* A function returns to p: its entry is gone, and so is the caller's entry when
\* it reconverges right after the call.
Returned(below, p) ==
  LET caller == Last(below)
  IN  IF p = caller.recvg /\ caller.type # "call" THEN Front(below)
      ELSE Append(Front(below), [caller EXCEPT !.pc = p])

\* The groups that are pushed, the one that did not take branch i first.
Paths(pcs, i) == IF i + 1 \in pcs THEN <<i + 1>> \o SetToSeq(pcs \ {i + 1}) ELSE SetToSeq(pcs)

\* simt_stack::update after the instruction i at the top of stack s: the live
\* threads go on at npc, and a branch reconverges at recvg.
Update(s, i, npc, ndone, recvg) ==
  LET top      == Last(s)
      rest     == Front(s)
      active   == top.mask \ ndone
      targets  == {npc[t] : t \in active}
      group(p) == {t \in active : npc[t] = p}
      drops(p) == p = top.recvg /\ top.type # "call"
      kept     == {p \in targets : ~drops(p)}
      first    == IF i + 1 \in targets THEN i + 1 ELSE CHOOSE p \in targets : \A q \in targets : p <= q
      paths    == Paths(kept \ {recvg}, i)
      \* a divergent branch: the top waits at the reconvergence point, unless the
      \* entry below it already does
      deeper   == recvg # top.recvg
      below    == IF deeper THEN Append(rest, [top EXCEPT !.pc = recvg]) ELSE rest
      pushed   == [n \in DOMAIN paths |->
                     Entry(paths[n], group(paths[n]), recvg,
                           IF n = 1 /\ ~deeper THEN top.type ELSE "normal")]
  IN  IF targets = {} THEN rest
      ELSE IF program.code[i].op = "call" THEN Append(s, Entry(first, group(first), NoPc, "call"))
      ELSE IF program.code[i].op = "ret" /\ top.type = "call"
        THEN Returned(rest, first)
      ELSE IF Cardinality(targets) > 1 /\ kept # {} THEN below \o pushed
      ELSE IF kept = {} THEN rest
      ELSE Append(rest, [top EXCEPT !.pc = first, !.mask = active])

\* The warp executes the instruction at the top of its stack.
ExecuteWarp ==
  /\ done # Threads
  /\ stack # <<>>
  /\ LET top == Last(stack)
     IN  \E taken \in SUBSET top.mask :
           LET npc    == [t \in Threads |-> IF t \in top.mask THEN NextPc(t, t \in taken) ELSE pc[t]]
               ncalls == [t \in Threads |-> IF t \in top.mask THEN NextCalls(t, t \in taken) ELSE calls[t]]
               ndone  == done \cup {t \in taken : Exits(t)}
           IN  /\ \A t \in top.mask \ taken : program.code[pc[t]].pred
               /\ pc' = npc
               /\ calls' = ncalls
               /\ done' = ndone
               /\ stack' = Update(stack, top.pc, npc, ndone, ReconvergeAt(top.pc, npc, ncalls, ndone))
  /\ UNCHANGED <<program, recon>>

\* A warp whose threads have all exited is not executed again.
WarpDone == done = Threads /\ UNCHANGED vars

Next == ExecuteWarp \/ WarpDone

Spec == Init /\ [][Next]_vars

----------------------------------------------------------------------------
(* Properties.                                                             *)

\* The entry a thread is in: the topmost one that names it.
EntriesOf(t) == {n \in DOMAIN stack : t \in stack[n].mask}
EntryOf(t)   == stack[CHOOSE n \in EntriesOf(t) : \A k \in EntriesOf(t) : k <= n]

\* Every thread that has not exited is in the stack and waits where its entry
\* says, so that the timing and the functional model stay in sync, and no thread
\* that has exited is executed again: what ptx_exec_inst asserts, and that no
\* thread is lost on the way (simt_stack::update, abstract_hardware_model.cc).
ThreadsInSync ==
  done # Threads =>
    /\ \A t \in Threads \ done : EntriesOf(t) # {} /\ EntryOf(t).pc = pc[t]
    /\ Last(stack).mask \cap done = {}

\* No entry runs past the point where it reconverges, and loops, calls and exits
\* in any nesting keep the stack short: two entries for each further group the
\* warp is split into, and one for each call.
Reconverges ==
  done # Threads =>
    /\ Last(stack).type = "normal" => Last(stack).pc # Last(stack).recvg
    /\ Len(stack) <= 2 * WarpSize - 1 + Cardinality({n \in DOMAIN stack : stack[n].type = "call"})
=============================================================================
