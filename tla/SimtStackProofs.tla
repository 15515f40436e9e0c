-------------------------- MODULE SimtStackProofs --------------------------
(***************************************************************************)
(* Proofs about SimtStack, for warps of any size and any well-formed        *)
(* programs.  First the postdominator analysis: the passes that it makes    *)
(* over a program are enough to reach the fixed point, and every branch has *)
(* a point where its paths meet.  Then the stack: each entry runs some of   *)
(* the threads of one below it, up to the instruction at which that waits.  *)
(***************************************************************************)
EXTENDS SimtStack, FiniteSetTheorems, SequenceTheorems, TLAPS

----------------------------------------------------------------------------
(* Induction.                                                              *)

LEMMA LeastExists ==
    ASSUME NEW S, S \subseteq Nat, S # {}
    PROVE  \E m \in S : \A k \in S : m <= k
<1>1. PICK i \in S : \A j \in S : ~(<<j, i>> \in OpToRel(<, Nat))
  BY NatLessThanWellFounded, WFMin
<1>2. \A j \in S : ~(j < i)
  BY <1>1 DEF OpToRel
<1> QED BY <1>2

\* A set of numbers that has 0, and with a number the next, has all.
LEMMA Induction ==
    ASSUME NEW S, 0 \in S, \A n \in Nat : n \in S => n + 1 \in S
    PROVE  Nat \subseteq S
<1> DEFINE bad == Nat \ S
<1> SUFFICES ASSUME bad # {} PROVE FALSE
  OBVIOUS
<1>1. PICK m \in bad : \A k \in bad : m <= k
  BY LeastExists
<1>2. m # 0 /\ m \in Nat
  OBVIOUS
<1>3. m - 1 \in Nat /\ ~(m <= m - 1)
  BY <1>2
<1>4. m - 1 \in S
  BY <1>1, <1>3
<1>5. (m - 1) + 1 \in S
  BY <1>3, <1>4
<1> QED BY <1>2, <1>5

\* g is what m passes of f make of b.
Passes(g, b, f, m) == \A n \in 0 .. m : g[n] = IF n = 0 THEN b ELSE f[g[n - 1]]

LEMMA PassesExist ==
    ASSUME NEW X, NEW b \in X, NEW f \in [X -> X]
    PROVE  \A m \in Nat : \E g \in [0 .. m -> X] : Passes(g, b, f, m)
<1> DEFINE S == {m \in Nat : \E g \in [0 .. m -> X] : Passes(g, b, f, m)}
<1>1. 0 \in S
  <2> DEFINE g == [n \in 0 .. 0 |-> b]
  <2>1. g \in [0 .. 0 -> X] /\ Passes(g, b, f, 0)
    BY DEF Passes
  <2> QED BY <2>1
<1>2. ASSUME NEW m \in Nat, m \in S
      PROVE  m + 1 \in S
  <2>1. PICK g \in [0 .. m -> X] : Passes(g, b, f, m)
    BY <1>2
  <2> DEFINE h == [n \in 0 .. m + 1 |-> IF n = m + 1 THEN f[g[m]] ELSE g[n]]
  <2>2. h \in [0 .. m + 1 -> X]
    OBVIOUS
  <2>3. \A n \in 0 .. m : h[n] = g[n]
    OBVIOUS
  <2>4. h[m + 1] = f[h[m]]
    BY <2>3
  <2>5. Passes(h, b, f, m + 1)
    <3> SUFFICES ASSUME NEW n \in 0 .. m + 1
                 PROVE  h[n] = IF n = 0 THEN b ELSE f[h[n - 1]]
      BY DEF Passes
    <3>1. CASE n = m + 1
      BY <2>4, <3>1
    <3>2. CASE n # m + 1
      <4>1. n \in 0 .. m /\ (n # 0 => n - 1 \in 0 .. m)
        BY <3>2
      <4> HIDE DEF h
      <4> QED BY <2>1, <2>3, <4>1 DEF Passes
    <3> QED BY <3>1, <3>2
  <2> QED BY <2>2, <2>5
<1>3. Nat \subseteq S
  BY <1>1, <1>2, Induction
<1> QED BY <1>3

----------------------------------------------------------------------------
(* The postdominator analysis.                                             *)

Nodes(p) == 0 .. Len(p.code)
First(p) == {e \in Nodes(p) \X Nodes(p) : e[1] = Exit => e[2] = Exit}

LEMMA Shape ==
    ASSUME NEW p, WellFormed(p)
    PROVE  /\ Len(p.code) \in Nat \ {0} /\ DOMAIN p.code = 1 .. Len(p.code) /\ p.main \in 1 .. Len(p.code)
           /\ \A i \in DOMAIN p.code : p.code[i] \in Instruction /\ Successors(p, i) \subseteq Nodes(p)
<1>1. Len(p.code) \in Nat /\ DOMAIN p.code = 1 .. Len(p.code) /\ p.code \in Seq(Instruction) /\ p.main \in 1 .. Len(p.code)
  BY DEF WellFormed
<1>2. \A i \in DOMAIN p.code : Part(p, i) \subseteq Nodes(p)
  BY <1>1 DEF Part, Nodes
<1>3. \A i \in DOMAIN p.code : Successors(p, i) \subseteq Part(p, i) \cup {Exit}
  BY DEF WellFormed
<1>4. Exit \in Nodes(p)
  BY <1>1 DEF Exit, Nodes
<1> QED BY <1>1, <1>2, <1>3, <1>4

\* The passes of find_postdominators.
Analysis(g, p) ==
    /\ g \in [Nodes(p) -> SUBSET (Nodes(p) \X Nodes(p))]
    /\ g[0] = First(p)
    /\ \A n \in Nat : n + 1 \in Nodes(p) => g[n + 1] = Refine(p, g[n])
    /\ Postdominators(p) = g[Len(p.code)]

LEMMA AnalysisExists ==
    ASSUME NEW p, Len(p.code) \in Nat
    PROVE  \E g : Analysis(g, p)
<1> DEFINE X == SUBSET (Nodes(p) \X Nodes(p))
           f == [S \in X |-> Refine(p, S)]
           Is(g) == g = [n \in Nodes(p) |-> IF n = 0 THEN First(p) ELSE Refine(p, g[n - 1])]
           h == CHOOSE g : Is(g)
<1>1. f \in [X -> X] /\ First(p) \in X
  BY DEF Refine, First
<1>2. PICK g \in [Nodes(p) -> X] : Passes(g, First(p), f, Len(p.code))
  <2> HIDE DEF f, X
  <2> QED BY <1>1, PassesExist DEF Nodes
<1>3. \A n \in Nodes(p) : n # 0 => n - 1 \in Nodes(p)
  BY DEF Nodes
<1>4. Is(g)
  <2>1. \A n \in Nodes(p) : g[n] = IF n = 0 THEN First(p) ELSE Refine(p, g[n - 1])
    BY <1>2, <1>3 DEF Passes, Nodes
  <2>2. g = [n \in Nodes(p) |-> g[n]]
    BY <1>2
  <2> QED BY <2>1, <2>2
<1>5. Is(h)
  BY <1>4
<1>6. Postdominators(p) = h[Len(p.code)]
  BY DEF Postdominators, First, Nodes
<1> HIDE DEF h
<1>7. \A n \in Nodes(p) : h[n] = IF n = 0 THEN First(p) ELSE Refine(p, h[n - 1])
  BY <1>5
<1>8. 0 \in Nodes(p)
  BY DEF Nodes
<1>9. \A n \in Nat : n + 1 \in Nodes(p) => n \in Nodes(p) /\ n + 1 # 0 /\ (n + 1) - 1 = n
  BY DEF Nodes
<1>10. \A n \in Nat : n \in Nodes(p) => h[n] \in X
  <2> DEFINE S == {n \in Nat : n \in Nodes(p) => h[n] \in X}
  <2>1. 0 \in S
    BY <1>1, <1>7
  <2>2. ASSUME NEW n \in Nat, n \in S PROVE n + 1 \in S
    <3>1. \A T \in X : Refine(p, T) \in X
      BY DEF Refine
    <3> QED BY <1>7, <1>9, <2>2, <3>1
  <2>3. Nat \subseteq S
    <3> HIDE DEF S
    <3> QED BY <2>1, <2>2, Induction
  <2> QED BY <2>3
<1>11. h \in [Nodes(p) -> X]
  <2>1. Nodes(p) \subseteq Nat
    BY DEF Nodes
  <2>2. h = [n \in Nodes(p) |-> h[n]]
    BY <1>5
  <2> QED BY <1>10, <2>1, <2>2
<1>12. Analysis(h, p)
  BY <1>6, <1>7, <1>8, <1>9, <1>11 DEF Analysis
<1> QED BY <1>12

\* Each pass only takes away, the same whatever the other postdominators are; and
\* every instruction postdominates itself.
Before(S, b) == {e \in S : e[2] = b}

LEMMA RefineFacts ==
    ASSUME NEW p, NEW S \in SUBSET (Nodes(p) \X Nodes(p))
    PROVE  /\ Refine(p, S) \subseteq S
           /\ \A b : <<b, b>> \in S => <<b, b>> \in Refine(p, S)
           /\ \A T \in SUBSET (Nodes(p) \X Nodes(p)) : \A b :
                Before(S, b) = Before(T, b) => Before(Refine(p, S), b) = Before(Refine(p, T), b)
<1>1. ASSUME NEW T \in SUBSET (Nodes(p) \X Nodes(p)), NEW U \in SUBSET (Nodes(p) \X Nodes(p)), NEW b,
             Before(U, b) = Before(T, b)
      PROVE  Before(Refine(p, U), b) \subseteq Before(Refine(p, T), b)
  <2>1. \A a : <<a, b>> \in U <=> <<a, b>> \in T
    BY <1>1 DEF Before
  <2>2. SUFFICES ASSUME NEW e \in U, e[2] = b, e[1] # b => \A s \in Successors(p, e[1]) : <<s, b>> \in U
                 PROVE  e \in T /\ (e[1] # b => \A s \in Successors(p, e[1]) : <<s, b>> \in T)
    BY DEF Before, Refine
  <2>3. e \in T
    BY <1>1, <2>2 DEF Before
  <2> QED BY <2>1, <2>2, <2>3
<1> QED BY <1>1 DEF Refine, Before

LEMMA AnalysisFacts ==
    ASSUME NEW p, WellFormed(p), NEW g, Analysis(g, p)
    PROVE  \A n \in Nodes(p) : /\ g[n] \subseteq First(p)
                               /\ \A b \in Nodes(p) : <<b, b>> \in g[n]
<1> DEFINE Good(n) == n \in Nodes(p) => g[n] \subseteq First(p) /\ \A b \in Nodes(p) : <<b, b>> \in g[n]
           S == {n \in Nat : Good(n)}
<1>1. 0 \in S
  BY DEF Analysis, First
<1>2. ASSUME NEW n \in Nat, n \in S PROVE n + 1 \in S
  <2> SUFFICES ASSUME n + 1 \in Nodes(p) PROVE Good(n + 1)
    OBVIOUS
  <2>1. n \in Nodes(p) /\ g[n + 1] = Refine(p, g[n]) /\ g[n] \in SUBSET (Nodes(p) \X Nodes(p))
    BY DEF Analysis, Nodes
  <2>2. g[n] \subseteq First(p) /\ \A b \in Nodes(p) : <<b, b>> \in g[n]
    BY <1>2, <2>1
  <2> QED BY <2>1, <2>2, RefineFacts
<1>3. Nat \subseteq S
  <2> HIDE DEF S
  <2> QED BY <1>1, <1>2, Induction
<1> QED BY <1>3 DEF Nodes

\* There are as many passes as instructions: each takes away a node that b does
\* not postdominate, until a pass takes none, and none after it does.
LEMMA AnalysisStable ==
    ASSUME NEW p, WellFormed(p), NEW g, Analysis(g, p), NEW b \in Nodes(p)
    PROVE  LET last == g[Len(p.code)] IN Before(Refine(p, last), b) = Before(last, b)
<1> DEFINE N == Len(p.code)
           Fixed(T) == Before(Refine(p, T), b) = Before(T, b)
           Good(n) == n \in Nodes(p) => Fixed(g[n]) \/ Cardinality(Before(g[n], b)) <= N + 1 - n
           S == {n \in Nat : Good(n)}
<1>1. N \in Nat /\ IsFiniteSet(Nodes(p)) /\ Cardinality(Nodes(p)) = N + 1
  <2>1. N \in Nat
    BY Shape
  <2> HIDE DEF N
  <2>2. IsFiniteSet(0 .. N) /\ Cardinality(0 .. N) = IF 0 > N THEN 0 ELSE N - 0 + 1
    BY <2>1, FS_Interval
  <2> QED BY <2>1, <2>2 DEF Nodes, N
<1>2. IsFiniteSet(Nodes(p) \X {b}) /\ Cardinality(Nodes(p) \X {b}) = N + 1
  <2>1. IsFiniteSet({b}) /\ Cardinality({b}) = 1
    BY FS_Singleton
  <2>2. IsFiniteSet(Nodes(p) \X {b}) /\ Cardinality(Nodes(p) \X {b}) = (N + 1) * 1
    BY <1>1, <2>1, FS_Product, ZenonT(60)
  <2> QED BY <1>1, <2>2
<1>3. \A n \in Nodes(p) : /\ Before(g[n], b) \subseteq Nodes(p) \X {b}
                          /\ IsFiniteSet(Before(g[n], b)) /\ Cardinality(Before(g[n], b)) \in Nat
  <2> SUFFICES ASSUME NEW n \in Nodes(p)
               PROVE  /\ Before(g[n], b) \subseteq Nodes(p) \X {b}
                      /\ IsFiniteSet(Before(g[n], b)) /\ Cardinality(Before(g[n], b)) \in Nat
    OBVIOUS
  <2>1. Before(g[n], b) \subseteq Nodes(p) \X {b}
    BY DEF Analysis, Before
  <2>2. IsFiniteSet(Before(g[n], b))
    BY <1>2, <2>1, FS_Subset
  <2> QED BY <2>1, <2>2, FS_CardinalityType
<1>4. 0 \in S
  <2>1. 0 \in Nodes(p)
    BY <1>1 DEF Nodes
  <2>2. Cardinality(Before(g[0], b)) <= N + 1
    BY <1>2, <1>3, <2>1, FS_Subset
  <2> QED BY <1>1, <2>2
<1>5. ASSUME NEW n \in Nat, n \in S PROVE n + 1 \in S
  <2> SUFFICES ASSUME n + 1 \in Nodes(p)
               PROVE  Fixed(g[n + 1]) \/ Cardinality(Before(g[n + 1], b)) <= N + 1 - (n + 1)
    <3> HIDE DEF Fixed, N
    <3> QED OBVIOUS
  <2>1. n \in Nodes(p) /\ g[n + 1] = Refine(p, g[n]) /\ g[n] \in SUBSET (Nodes(p) \X Nodes(p))
    BY <1>1, SMTT(30) DEF Analysis, Nodes
  <2>2. g[n + 1] \in SUBSET (Nodes(p) \X Nodes(p))
    BY DEF Analysis
  <2>3. CASE Fixed(g[n])
    <3>1. Before(g[n + 1], b) = Before(g[n], b)
      BY <2>1, <2>3
    <3>2. Before(Refine(p, g[n + 1]), b) = Before(Refine(p, g[n]), b)
      BY <2>1, <2>2, <3>1, RefineFacts
    <3>3. Fixed(g[n + 1])
      BY <2>3, <3>1, <3>2
    <3> QED BY <3>3
  <2>4. CASE ~Fixed(g[n])
    <3>1. Cardinality(Before(g[n], b)) <= N + 1 - n
      BY <1>5, <2>1, <2>4
    <3>2. Before(g[n + 1], b) \subseteq Before(g[n], b) /\ Before(g[n + 1], b) # Before(g[n], b)
      BY <2>1, <2>4, RefineFacts DEF Before
    <3>3. Cardinality(Before(g[n + 1], b)) < Cardinality(Before(g[n], b))
      BY <1>3, <2>1, <3>2, FS_Subset
    <3>4. Cardinality(Before(g[n + 1], b)) \in Nat /\ Cardinality(Before(g[n], b)) \in Nat
      BY <1>3, <2>1
    <3>5. Cardinality(Before(g[n + 1], b)) <= N + 1 - (n + 1)
      <4> DEFINE c == Cardinality(Before(g[n + 1], b))
                 d == Cardinality(Before(g[n], b))
      <4> HIDE DEF c, d, N
      <4> QED BY <1>1, <3>1, <3>3, <3>4 DEF c, d
    <3> QED BY <3>5
  <2> QED BY <2>3, <2>4
<1>6. Nat \subseteq S
  <2> HIDE DEF S
  <2> QED BY <1>4, <1>5, Induction
<1>7. N \in Nodes(p) /\ Good(N) /\ g[N] \in SUBSET (Nodes(p) \X Nodes(p))
  BY <1>1, <1>6 DEF Analysis, Nodes
<1>8. CASE Cardinality(Before(g[N], b)) <= 1
  <2>1. <<b, b>> \in Before(g[N], b) /\ <<b, b>> \in Before(Refine(p, g[N]), b)
    <3>1. <<b, b>> \in g[N]
      BY <1>7, AnalysisFacts
    <3>2. <<b, b>> \in Refine(p, g[N])
      BY <1>7, <3>1, RefineFacts
    <3> QED BY <3>1, <3>2 DEF Before
  <2>2. Before(g[N], b) = {<<b, b>>}
    <3>1. IsFiniteSet(Before(g[N], b)) /\ {<<b, b>>} \subseteq Before(g[N], b)
      BY <1>3, <1>7, <2>1
    <3>2. Cardinality({<<b, b>>}) = 1 /\ Cardinality(Before(g[N], b)) \in Nat
      BY <1>3, <1>7, FS_Singleton
    <3>3. /\ Cardinality({<<b, b>>}) <= Cardinality(Before(g[N], b))
          /\ Cardinality(Before(g[N], b)) = Cardinality({<<b, b>>}) => Before(g[N], b) = {<<b, b>>}
      BY <3>1, FS_Subset
    <3> QED BY <1>8, <3>2, <3>3
  <2>3. Before(Refine(p, g[N]), b) \subseteq Before(g[N], b)
    BY <1>7, RefineFacts DEF Before
  <2> QED BY <2>1, <2>2, <2>3
<1>9. CASE ~(Cardinality(Before(g[N], b)) <= 1)
  <2>1. Fixed(g[N])
    BY <1>1, <1>7, <1>9
  <2> QED BY <2>1
<1> QED BY <1>8, <1>9

\* What Postdominators(p) is: all nodes but the exit may have any postdominator,
\* and b # a is one of a if it is one of all that may follow a.
LEMMA PdomFacts ==
    ASSUME NEW p, WellFormed(p)
    PROVE  LET pdom == Postdominators(p)
           IN  /\ pdom \subseteq Nodes(p) \X Nodes(p)
               /\ \A b : <<Exit, b>> \in pdom => b = Exit
               /\ \A b \in Nodes(p) : <<b, b>> \in pdom
               /\ \A a, b, s : <<a, b>> \in pdom /\ a # b /\ s \in Successors(p, a) => <<s, b>> \in pdom
<1> DEFINE pdom == Postdominators(p)
<1>1. Len(p.code) \in Nat
  BY Shape
<1>2. PICK g : Analysis(g, p)
  BY <1>1, AnalysisExists
<1>3. pdom = g[Len(p.code)] /\ Len(p.code) \in Nodes(p)
  BY <1>1, <1>2 DEF Analysis, Nodes
<1>4. pdom \subseteq First(p) /\ \A b \in Nodes(p) : <<b, b>> \in pdom
  BY <1>2, <1>3, AnalysisFacts
<1>5. ASSUME NEW a, NEW b, NEW s, <<a, b>> \in pdom, a # b, s \in Successors(p, a)
      PROVE  <<s, b>> \in pdom
  <2>1. b \in Nodes(p)
    BY <1>4, <1>5 DEF First
  <2>2. Before(Refine(p, pdom), b) = Before(pdom, b)
    BY <1>2, <1>3, <2>1, AnalysisStable
  <2>3. <<a, b>> \in Refine(p, pdom)
    BY <1>5, <2>2 DEF Before
  <2> QED BY <1>5, <2>3 DEF Refine
<1>6. pdom \subseteq Nodes(p) \X Nodes(p) /\ \A b : <<Exit, b>> \in pdom => b = Exit
  BY <1>4 DEF First
<1> QED BY <1>4, <1>5, <1>6

----------------------------------------------------------------------------
(* The points where paths meet.                                            *)

\* The instructions from which the exit is reached in one more step.
Back(p, T) == T \cup {i \in DOMAIN p.code : Successors(p, i) \cap T # {}}

\* g[n] are the nodes from which the exit is reached in n steps.
Ends(g, p) ==
    /\ g[0] = {Exit}
    /\ \A n \in Nat : n + 1 \in Nodes(p) => g[n + 1] = Back(p, g[n])
    /\ Nodes(p) \subseteq g[Len(p.code)]

LEMMA EndsExist ==
    ASSUME NEW p, WellFormed(p)
    PROVE  \E g : Ends(g, p)
<1> DEFINE N == Len(p.code)
           X == SUBSET (Nodes(p) \cup DOMAIN p.code)
           f == [T \in X |-> Back(p, T)]
           Is(g) == g = [n \in 0 .. N |-> IF n = 0 THEN {Exit} ELSE Back(p, g[n - 1])]
           h == CHOOSE g : Is(g)
<1>1. N \in Nat /\ DOMAIN p.code = 1 .. N
  BY Shape
<1>2. f \in [X -> X] /\ {Exit} \in X
  BY <1>1 DEF Back, Exit, Nodes
<1>3. PICK g \in [0 .. N -> X] : Passes(g, {Exit}, f, N)
  <2> HIDE DEF f, X, N
  <2> QED BY <1>1, <1>2, PassesExist
<1>4. \A n \in 0 .. N : n # 0 => n - 1 \in 0 .. N
  BY <1>1
<1>5. Is(g)
  <2> HIDE DEF N
  <2>1. \A n \in 0 .. N : g[n] = IF n = 0 THEN {Exit} ELSE Back(p, g[n - 1])
    BY <1>3, <1>4 DEF Passes
  <2>2. g = [n \in 0 .. N |-> g[n]]
    BY <1>3
  <2> QED BY <2>1, <2>2
<1>6. Is(h)
  BY <1>5
<1>7. CanEnd(p) <=> DOMAIN p.code \subseteq h[N]
  BY DEF CanEnd, Back
<1> HIDE DEF h, N
<1>8. \A n \in 0 .. N : h[n] = IF n = 0 THEN {Exit} ELSE Back(p, h[n - 1])
  BY <1>6
<1>9. \A n \in Nat : n + 1 \in 0 .. N => n \in 0 .. N /\ h[n + 1] = Back(p, h[n])
  <2> SUFFICES ASSUME NEW n \in Nat, n + 1 \in 0 .. N PROVE n \in 0 .. N /\ h[n + 1] = Back(p, h[n])
    OBVIOUS
  <2>1. n \in 0 .. N /\ n + 1 # 0 /\ (n + 1) - 1 = n
    BY <1>1
  <2> QED BY <1>8, <2>1
<1>10. 0 \in 0 .. N /\ h[0] = {Exit}
  BY <1>1, <1>8
<1>11. \A n \in Nat : n \in 0 .. N => Exit \in h[n]
  <2> DEFINE S == {n \in Nat : n \in 0 .. N => Exit \in h[n]}
  <2>1. 0 \in S
    BY <1>10
  <2>2. ASSUME NEW n \in Nat, n \in S PROVE n + 1 \in S
    BY <1>9, <2>2 DEF Back
  <2>3. Nat \subseteq S
    <3> HIDE DEF S
    <3> QED BY <2>1, <2>2, Induction
  <2> QED BY <2>3
<1>12. Nodes(p) \subseteq h[N]
  <2>1. N \in 0 .. N
    BY <1>1
  <2>2. DOMAIN p.code \subseteq h[N] /\ Exit \in h[N]
    BY <1>1, <1>7, <1>11, <2>1 DEF WellFormed
  <2>3. Nodes(p) \subseteq DOMAIN p.code \cup {Exit}
    BY <1>1 DEF Nodes, Exit, N
  <2> QED BY <2>2, <2>3
<1>13. Ends(h, p)
  BY <1>9, <1>10, <1>12 DEF Ends, Nodes, N
<1> QED BY <1>13

\* No set of instructions is left by nobody.
LEMMA NoTrap ==
    ASSUME NEW p, WellFormed(p), NEW C, Exit \notin C,
           \A x \in C \cap DOMAIN p.code : Successors(p, x) \subseteq C
    PROVE  C \cap Nodes(p) = {}
<1>1. PICK g : Ends(g, p)
  BY EndsExist
<1>2. Len(p.code) \in Nat
  BY Shape
<1> DEFINE S == {n \in Nat : n \in Nodes(p) => g[n] \cap C = {}}
<1>3. 0 \in S
  BY <1>1 DEF Ends
<1>4. ASSUME NEW n \in Nat, n \in S PROVE n + 1 \in S
  <2> SUFFICES ASSUME n + 1 \in Nodes(p) PROVE g[n + 1] \cap C = {}
    OBVIOUS
  <2>1. n \in Nodes(p) /\ g[n + 1] = Back(p, g[n])
    BY <1>1, <1>2 DEF Ends, Nodes
  <2>2. g[n] \cap C = {}
    BY <1>4, <2>1
  <2> QED BY <2>1, <2>2 DEF Back
<1>5. Nat \subseteq S
  <2> HIDE DEF S
  <2> QED BY <1>3, <1>4, Induction
<1>6. Len(p.code) \in Nodes(p)
  BY <1>2 DEF Nodes
<1>7. g[Len(p.code)] \cap C = {}
  BY <1>2, <1>5, <1>6
<1> QED BY <1>1, <1>7 DEF Ends

\* Two nodes do not postdominate each other.
LEMMA PdomOneWay ==
    ASSUME NEW p, WellFormed(p), NEW a, NEW b, <<a, b>> \in Postdominators(p), <<b, a>> \in Postdominators(p)
    PROVE  a = b
<1> DEFINE pdom == Postdominators(p)
           C == {x \in Nodes(p) : <<x, a>> \in pdom \/ <<x, b>> \in pdom}
<1> SUFFICES ASSUME a # b PROVE FALSE
  OBVIOUS
<1>1. /\ pdom \subseteq Nodes(p) \X Nodes(p)
      /\ \A c : <<Exit, c>> \in pdom => c = Exit
      /\ \A x, c, s : <<x, c>> \in pdom /\ x # c /\ s \in Successors(p, x) => <<s, c>> \in pdom
  BY PdomFacts
<1> HIDE DEF pdom
<1>2. <<a, b>> \in pdom /\ <<b, a>> \in pdom
  BY DEF pdom
<1>3. Exit \notin C
  BY <1>1, <1>2
<1>4. \A x \in C : Successors(p, x) \subseteq C
  <2> SUFFICES ASSUME NEW x \in C, NEW s \in Successors(p, x) PROVE s \in C
    OBVIOUS
  <2>1. <<s, a>> \in pdom \/ <<s, b>> \in pdom
    BY <1>1, <1>2
  <2> QED BY <1>1, <2>1
<1>5. a \in C \cap Nodes(p)
  BY <1>1, <1>2
<1> HIDE DEF C
<1>6. C \cap Nodes(p) = {}
  BY <1>3, <1>4, NoTrap
<1> QED BY <1>5, <1>6

\* Of two postdominators of an instruction one comes before the other.
LEMMA PdomChain ==
    ASSUME NEW p, WellFormed(p), NEW a \in Nodes(p), NEW b, NEW c,
           <<a, b>> \in Postdominators(p), <<a, c>> \in Postdominators(p)
    PROVE  <<b, c>> \in Postdominators(p) \/ <<c, b>> \in Postdominators(p)
<1> DEFINE pdom == Postdominators(p)
           C == {x \in Nodes(p) : <<x, b>> \in pdom /\ <<x, c>> \in pdom}
<1> SUFFICES ASSUME <<b, c>> \notin pdom, <<c, b>> \notin pdom PROVE FALSE
  OBVIOUS
<1>1. /\ pdom \subseteq Nodes(p) \X Nodes(p)
      /\ \A d : <<Exit, d>> \in pdom => d = Exit
      /\ \A x, d, s : <<x, d>> \in pdom /\ x # d /\ s \in Successors(p, x) => <<s, d>> \in pdom
      /\ \A d \in Nodes(p) : <<d, d>> \in pdom
  BY PdomFacts
<1> HIDE DEF pdom
<1>2. <<a, b>> \in pdom /\ <<a, c>> \in pdom
  BY DEF pdom
<1>3. b # c /\ b \notin C /\ c \notin C
  BY <1>1, <1>2
<1>4. Exit \notin C
  BY <1>1, <1>3
<1>5. \A x \in C : Successors(p, x) \subseteq C
  <2> SUFFICES ASSUME NEW x \in C, NEW s \in Successors(p, x) PROVE s \in C
    OBVIOUS
  <2>1. x # b /\ x # c
    BY <1>3
  <2>2. <<s, b>> \in pdom /\ <<s, c>> \in pdom
    BY <1>1, <2>1
  <2> QED BY <1>1, <2>2
<1>6. a \in C \cap Nodes(p)
  BY <1>2
<1> HIDE DEF C
<1>7. C \cap Nodes(p) = {}
  BY <1>4, <1>5, NoTrap
<1> QED BY <1>6, <1>7

LEMMA ExitPostdominates ==
    ASSUME NEW p, WellFormed(p)
    PROVE  \A a \in Nodes(p) : <<a, Exit>> \in Postdominators(p)
<1>1. Len(p.code) \in Nat /\ Exit \in Nodes(p) /\ Len(p.code) \in Nodes(p)
  BY Shape DEF Exit, Nodes
<1>2. PICK g : Analysis(g, p)
  BY <1>1, AnalysisExists
<1> DEFINE S == {n \in Nat : n \in Nodes(p) => \A a \in Nodes(p) : <<a, Exit>> \in g[n]}
<1>3. 0 \in S
  BY <1>1, <1>2 DEF Analysis, First
<1>4. ASSUME NEW n \in Nat, n \in S PROVE n + 1 \in S
  <2> SUFFICES ASSUME n + 1 \in Nodes(p), NEW a \in Nodes(p) PROVE <<a, Exit>> \in g[n + 1]
    OBVIOUS
  <2>1. n \in Nodes(p) /\ g[n + 1] = Refine(p, g[n])
    BY <1>1, <1>2 DEF Analysis, Nodes
  <2>2. a # Exit => a \in DOMAIN p.code
    BY Shape DEF Nodes, Exit
  <2>3. a # Exit => Successors(p, a) \subseteq Nodes(p)
    BY <2>2, Shape
  <2> QED BY <1>4, <2>1, <2>3 DEF Refine
<1>5. Nat \subseteq S
  <2> HIDE DEF S
  <2> QED BY <1>3, <1>4, Induction
<1> QED BY <1>1, <1>2, <1>5 DEF Analysis

\* What postdominates an instruction is nearer to the exit.
LEMMA PdomNearer ==
    ASSUME NEW p, WellFormed(p), NEW g, Ends(g, p)
    PROVE  \A n \in Nodes(p) : \A a \in g[n] : \A b :
             <<a, b>> \in Postdominators(p) /\ a # b => n # 0 /\ b \in g[n - 1]
<1> DEFINE pdom == Postdominators(p)
           S == {n \in Nat : n \in Nodes(p) => \A a \in g[n] : \A b : <<a, b>> \in pdom /\ a # b => n # 0 /\ b \in g[n - 1]}
<1>1. /\ \A c : <<Exit, c>> \in pdom => c = Exit
      /\ \A x, c, s : <<x, c>> \in pdom /\ x # c /\ s \in Successors(p, x) => <<s, c>> \in pdom
  BY PdomFacts
<1>2. Len(p.code) \in Nat
  BY Shape
<1> HIDE DEF pdom
<1>3. 0 \in S
  BY <1>1 DEF Ends
<1>4. ASSUME NEW n \in Nat, n \in S PROVE n + 1 \in S
  <2> SUFFICES ASSUME n + 1 \in Nodes(p), NEW a \in g[n + 1], NEW b, <<a, b>> \in pdom, a # b
               PROVE  b \in g[n]
    OBVIOUS
  <2>1. n \in Nodes(p) /\ g[n + 1] = Back(p, g[n])
    BY <1>2 DEF Ends, Nodes
  <2>2. n # 0 => g[n - 1] \subseteq g[n]
    <3> SUFFICES ASSUME n # 0 PROVE g[n - 1] \subseteq g[n]
      OBVIOUS
    <3>1. n - 1 \in Nat /\ (n - 1) + 1 = n
      OBVIOUS
    <3> QED BY <2>1, <3>1 DEF Ends, Back
  <2>3. \A x \in g[n] : <<x, b>> \in pdom => b \in g[n]
    BY <1>4, <2>1, <2>2
  <2>4. CASE a \in g[n]
    BY <2>3, <2>4
  <2>5. CASE Successors(p, a) \cap g[n] # {}
    BY <1>1, <2>3, <2>5
  <2> QED BY <2>1, <2>4, <2>5 DEF Back
<1>5. Nat \subseteq S
  <2> HIDE DEF S
  <2> QED BY <1>3, <1>4, Induction
<1> QED BY <1>5 DEF pdom, Nodes

\* The assertion of find_ipostdominators holds: in a program that can end every
\* instruction has an immediate postdominator, the nearest of those it has.
THEOREM AlwaysAssembles ==
    ASSUME NEW p \in Programs
    PROVE  Assembles(p)
<1> DEFINE pdom == Postdominators(p)
<1>1. WellFormed(p)
  BY ProgramsAssumption
<1>2. Len(p.code) \in Nat /\ DOMAIN p.code = 1 .. Len(p.code)
  BY <1>1, Shape
<1>3. PICK g : Ends(g, p)
  BY <1>1, EndsExist
<1> SUFFICES ASSUME NEW i \in DOMAIN p.code PROVE Immediate(pdom, i) # {}
  BY DEF Assembles
<1> DEFINE strict == {e[2] : e \in {e \in pdom : e[1] = i /\ e[2] # i}}
           Within(n) == n \in Nodes(p) /\ strict \subseteq g[n]
           S == {n \in Nat : Within(n)}
<1>4. pdom \subseteq Nodes(p) \X Nodes(p) /\ i \in Nodes(p) /\ i # Exit /\ Exit \in Nodes(p)
  BY <1>1, <1>2, PdomFacts DEF Nodes, Exit
<1>5. \A j \in strict : <<i, j>> \in pdom /\ j # i /\ j \in Nodes(p)
  <2> HIDE DEF pdom
  <2> QED BY <1>4
<1>6. Exit \in strict
  <2>1. <<i, Exit>> \in pdom
    BY <1>1, <1>4, ExitPostdominates
  <2> HIDE DEF pdom
  <2> QED BY <1>4, <2>1
<1>7. Immediate(pdom, i) = {j \in strict : \A k \in strict : <<j, k>> \in pdom}
  BY DEF Immediate
<1> HIDE DEF strict
<1>8. S # {}
  <2>1. Len(p.code) \in Nodes(p)
    BY <1>2 DEF Nodes
  <2> QED BY <1>2, <1>3, <1>5, <2>1 DEF Ends
<1>9. PICK n \in S : \A k \in S : n <= k
  <2> HIDE DEF S
  <2>1. S \subseteq Nat
    BY DEF S
  <2> QED BY <1>8, <2>1, LeastExists
<1>10. PICK j \in strict : n # 0 => j \notin g[n - 1]
  <2>1. CASE n = 0
    BY <1>6, <2>1
  <2>2. CASE n # 0
    <3>1. n - 1 \in Nat /\ ~(n <= n - 1) /\ n - 1 \in Nodes(p)
      BY <1>2, <1>9, <2>2 DEF Nodes
    <3>2. ~ (strict \subseteq g[n - 1])
      BY <1>9, <3>1
    <3> QED BY <3>2
  <2> QED BY <2>1, <2>2
<1>11. ASSUME NEW k \in strict PROVE <<j, k>> \in pdom
  <2>1. <<j, k>> \in pdom \/ <<k, j>> \in pdom
    BY <1>1, <1>4, <1>5, PdomChain
  <2>2. CASE k = j
    BY <1>1, <1>5, <2>2, PdomFacts
  <2>3. ASSUME k # j, <<k, j>> \in pdom PROVE FALSE
    <3>1. n \in Nodes(p) /\ k \in g[n]
      BY <1>9
    <3>2. n # 0 /\ j \in g[n - 1]
      BY <1>1, <1>3, <2>3, <3>1, PdomNearer
    <3> QED BY <1>10, <3>2
  <2> QED BY <2>1, <2>2, <2>3
<1> QED BY <1>7, <1>10, <1>11

\* Every path through the function ends in its return.
LEMMA ReturnPostdominates ==
    ASSUME NEW p, WellFormed(p), NEW a \in p.main + 1 .. Len(p.code)
    PROVE  <<a, Len(p.code)>> \in Postdominators(p)
<1> DEFINE N == Len(p.code)
           F == p.main + 1 .. N
<1>1. N \in Nat /\ N \in Nodes(p) /\ p.main \in Nat /\ p.main >= 1 /\ DOMAIN p.code = 1 .. N
  BY Shape DEF Nodes
<1>2. N # Exit /\ F \subseteq Nodes(p) /\ F \subseteq DOMAIN p.code /\ \A b \in F : b # Exit
  BY <1>1 DEF Nodes, Exit
<1>3. PICK g : Analysis(g, p)
  BY <1>1, AnalysisExists
<1>4. \A b \in F : b # N => Successors(p, b) \subseteq F
  <2> SUFFICES ASSUME NEW b \in F, b # N PROVE Successors(p, b) \subseteq F
    OBVIOUS
  <2>1. b \in DOMAIN p.code /\ b > p.main /\ Part(p, b) = F
    BY <1>1, <1>2 DEF Part
  <2>2. p.code[b].op # "exit" /\ p.code[b].op # "ret"
    BY <2>1 DEF WellFormed
  <2>3. Successors(p, b) \subseteq Part(p, b) \cup (IF p.code[b].op \in {"exit", "ret"} THEN {Exit} ELSE {})
    BY <2>1 DEF WellFormed
  <2> QED BY <2>1, <2>2, <2>3
<1> DEFINE S == {n \in Nat : n \in Nodes(p) => \A b \in F : <<b, N>> \in g[n]}
<1> HIDE DEF F, N
<1>5. 0 \in S
  BY <1>1, <1>2, <1>3 DEF Analysis, First
<1>6. ASSUME NEW n \in Nat, n \in S PROVE n + 1 \in S
  <2> SUFFICES ASSUME n + 1 \in Nodes(p), NEW b \in F PROVE <<b, N>> \in g[n + 1]
    OBVIOUS
  <2>1. n \in Nodes(p) /\ g[n + 1] = Refine(p, g[n])
    BY <1>1, <1>3 DEF Analysis, Nodes, N
  <2> QED BY <1>4, <1>6, <2>1 DEF Refine
<1>7. Nat \subseteq S
  <2> HIDE DEF S
  <2> QED BY <1>5, <1>6, Induction
<1>8. a \in F
  BY DEF F, N
<1> QED BY <1>1, <1>3, <1>7, <1>8 DEF Analysis, N

----------------------------------------------------------------------------
(* Stacks.                                                                 *)

Kernel(p)   == 1 .. p.main
Function(p) == p.main + 1 .. Len(p.code)

Entries == [pc : Int, mask : SUBSET Threads, recvg : Int, type : {"normal", "call"}]

\* Entry e on stack s belongs to entry m: it runs some of its threads, up to where
\* it waits, and no entry between them has any of these; or it is its call.
Under(p, s, m, e) ==
    /\ e.mask \subseteq s[m].mask
    /\ \A k \in m + 1 .. Len(s) : s[k].mask \cap e.mask = {}
    /\ \/ /\ e.type = "normal"
          /\ s[m].pc = e.recvg /\ e.pc # e.recvg /\ <<e.pc, e.recvg>> \in Postdominators(p)
       \/ /\ e.type = "call" /\ e.recvg = NoPc /\ e.pc # Exit
          /\ m = Len(s) /\ e.mask = s[m].mask /\ s[m].pc \in Kernel(p) /\ p.code[s[m].pc].op = "call"

CallIn(s) == \E c \in DOMAIN s : s[c].type = "call"

\* Entry e may be put on stack s: there is one call at most, everything above it
\* belongs to it, and each further entry has fewer threads.
Joins(p, s, e) ==
    /\ e.mask # {}
    /\ \A c \in DOMAIN s : s[c].type = "call" => e.type = "normal" /\ e.mask \subseteq s[c].mask
    /\ IF s = <<>> THEN e.type = "normal" /\ e.recvg = NoPc ELSE \E m \in DOMAIN s : Under(p, s, m, e)
    /\ Len(s) <= 2 * (WarpSize - Cardinality(e.mask)) + (IF e.type = "call" \/ CallIn(s) THEN 1 ELSE 0)

Nested(p, s) == s \in Seq(Entries) /\ \A n \in DOMAIN s : Joins(p, SubSeq(s, 1, n - 1), s[n])

\* Threads that have exited are in no entry but the lowest, when that is at the exit.
DoneOut(s, dn) == \A n \in DOMAIN s : s[n].mask \cap dn = {} \/ (n = 1 /\ s[1].pc = Exit)

\* The entry that holds thread t waits at x.
Holds(s, t, n)  == n \in DOMAIN s /\ t \in s[n].mask /\ \A k \in n + 1 .. Len(s) : t \notin s[k].mask
SyncAt(s, t, x) == \A n : Holds(s, t, n) => s[n].pc = x

InBase(s, t)    == s # <<>> /\ t \in s[1].mask
NoCall(s, t)    == \A c \in DOMAIN s : s[c].type = "call" => t \notin s[c].mask
Called(s, t, x) == \E c \in DOMAIN s : c > 1 /\ s[c].type = "call" /\ t \in s[c].mask /\ x = s[c - 1].pc + 1

\* Thread t, at x with call stack y, is in the kernel or in the call that the
\* stack says.
Where(p, s, t, x, y) ==
    /\ InBase(s, t)
    /\ \/ y = <<Exit>> /\ x \in Kernel(p) /\ NoCall(s, t)
       \/ x \in Function(p) /\ \E z \in Int : y = <<Exit, z>> /\ Called(s, t, z)
Located(p, s, t, x, y) == Where(p, s, t, x, y) /\ SyncAt(s, t, x)

IInv ==
    /\ program \in Programs /\ recon = ReconvergencePoints(program)
    /\ pc \in [Threads -> Int] /\ calls \in [Threads -> Seq(Int)] /\ done \subseteq Threads
    /\ done # Threads =>
         /\ stack # <<>> /\ Nested(program, stack) /\ DoneOut(stack, done)
         /\ \A t \in Threads \ done : Located(program, stack, t, pc[t], calls[t])

LEMMA ThreadsFacts == IsFiniteSet(Threads) /\ Cardinality(Threads) = WarpSize
<1>1. WarpSize \in Nat /\ WarpSize - 1 \in Int /\ 0 \in Int
  BY WarpAssumption
<1>2. IsFiniteSet(0 .. WarpSize - 1)
      /\ Cardinality(0 .. WarpSize - 1) = IF 0 > WarpSize - 1 THEN 0 ELSE WarpSize - 1 - 0 + 1
  BY <1>1, FS_Interval
<1> QED BY <1>1, <1>2 DEF Threads

LEMMA PushFacts ==
    ASSUME NEW s \in Seq(Entries), NEW e \in Entries
    PROVE  LET u == Append(s, e)
           IN  /\ u \in Seq(Entries) /\ u # <<>> /\ Len(s) \in Nat /\ Len(u) = Len(s) + 1
               /\ DOMAIN s = 1 .. Len(s) /\ DOMAIN u = 1 .. Len(s) + 1
               /\ u[Len(s) + 1] = e /\ \A n \in 1 .. Len(s) : u[n] = s[n]
               /\ Front(u) = s /\ Last(u) = e
<1> DEFINE u == Append(s, e)
<1>1. u \in Seq(Entries) /\ u # <<>> /\ Len(s) \in Nat /\ Len(u) = Len(s) + 1 /\ u[Len(s) + 1] = e
      /\ (\A n \in 1 .. Len(s) : u[n] = s[n]) /\ DOMAIN s = 1 .. Len(s)
  BY AppendProperties, LenProperties
<1>2. DOMAIN u = 1 .. Len(s) + 1
  BY <1>1, LenProperties
<1>3. SubSeq(u, 1, Len(u) - 1) = s
  <2> HIDE DEF u
  <2>1. Len(u) - 1 = Len(s) /\ \A n \in 1 .. Len(s) : u[n] \in Entries
    BY <1>1, <1>2
  <2>2. SubSeq(u, 1, Len(s)) \in Seq(Entries) /\ Len(SubSeq(u, 1, Len(s))) = Len(s)
        /\ \A n \in 1 .. Len(s) : SubSeq(u, 1, Len(s))[n] = u[n]
    <3>1. SubSeq(u, 1, Len(s)) \in Seq(Entries)
          /\ Len(SubSeq(u, 1, Len(s))) = (IF 1 <= Len(s) THEN Len(s) - 1 + 1 ELSE 0)
          /\ \A n \in 1 .. Len(s) - 1 + 1 : SubSeq(u, 1, Len(s))[n] = u[1 + n - 1]
      BY <1>1, <2>1, SubSeqProperties
    <3> QED BY <1>1, <3>1
  <2> QED BY <1>1, <2>1, <2>2, SeqEqual
<1> QED BY <1>1, <1>2, <1>3 DEF Front, Last

\* A stack is its top on what is below.
LEMMA PopFacts ==
    ASSUME NEW s \in Seq(Entries), s # <<>>
    PROVE  /\ Front(s) \in Seq(Entries) /\ Last(s) \in Entries /\ s = Append(Front(s), Last(s))
           /\ Len(s) \in Nat \ {0} /\ Len(Front(s)) = Len(s) - 1 /\ Last(s) = s[Len(s)]
           /\ \A n \in 1 .. Len(s) - 1 : Front(s)[n] = s[n]
<1>1. PICK r \in Seq(Entries), e \in Entries : s = Append(r, e)
  BY SequenceEmptyOrAppend
<1>2. Front(s) = r /\ Last(s) = e /\ Len(s) = Len(r) + 1 /\ Len(r) \in Nat /\ \A n \in 1 .. Len(r) : s[n] = r[n]
  BY <1>1, PushFacts
<1> QED BY <1>1, <1>2 DEF Last

LEMMA BelowFacts ==
    ASSUME NEW s \in Seq(Entries), NEW e \in Entries, NEW n \in 1 .. Len(s) + 1
    PROVE  SubSeq(Append(s, e), 1, n - 1) = SubSeq(s, 1, n - 1)
<1> DEFINE u == Append(s, e)
<1>1. Len(s) \in Nat /\ DOMAIN s = 1 .. Len(s) /\ \A k \in 1 .. Len(s) : u[k] = s[k] /\ s[k] \in Entries
  BY PushFacts
<1> HIDE DEF u
<1>2. n - 1 \in 0 .. Len(s) /\ \A k \in 1 .. n - 1 : u[k] = s[k] /\ s[k] \in Entries
  BY <1>1
<1> DEFINE k == n - 1
<1> HIDE DEF k
<1>3. k \in Int /\ \A j \in 1 .. k : u[j] \in Entries /\ s[j] \in Entries
  BY <1>1, <1>2 DEF k
<1>4. SubSeq(u, 1, k) \in Seq(Entries) /\ Len(SubSeq(u, 1, k)) = (IF 1 <= k THEN k - 1 + 1 ELSE 0)
      /\ \A j \in 1 .. k - 1 + 1 : SubSeq(u, 1, k)[j] = u[1 + j - 1]
  BY <1>3, SubSeqProperties
<1>5. SubSeq(s, 1, k) \in Seq(Entries) /\ Len(SubSeq(s, 1, k)) = (IF 1 <= k THEN k - 1 + 1 ELSE 0)
      /\ \A j \in 1 .. k - 1 + 1 : SubSeq(s, 1, k)[j] = s[1 + j - 1]
  BY <1>3, SubSeqProperties
<1>6. \A j \in 1 .. Len(SubSeq(u, 1, k)) : SubSeq(u, 1, k)[j] = SubSeq(s, 1, k)[j]
  <2> SUFFICES ASSUME NEW j \in 1 .. Len(SubSeq(u, 1, k)) PROVE SubSeq(u, 1, k)[j] = SubSeq(s, 1, k)[j]
    OBVIOUS
  <2>1. j \in 1 .. k /\ j \in 1 .. k - 1 + 1 /\ 1 + j - 1 = j
    BY <1>3, <1>4
  <2> QED BY <1>2, <1>4, <1>5, <2>1 DEF k
<1>7. Len(SubSeq(u, 1, k)) = Len(SubSeq(s, 1, k))
  BY <1>4, <1>5
<1> QED BY <1>4, <1>5, <1>6, <1>7, SeqEqual DEF k, u

LEMMA NestedPush ==
    ASSUME NEW p, NEW s, Nested(p, s), NEW e \in Entries
    PROVE  Nested(p, Append(s, e)) <=> Joins(p, s, e)
<1> DEFINE u == Append(s, e)
<1>1. s \in Seq(Entries)
  BY DEF Nested
<1>2. /\ u \in Seq(Entries) /\ Len(s) \in Nat /\ DOMAIN s = 1 .. Len(s) /\ DOMAIN u = 1 .. Len(s) + 1
      /\ u[Len(s) + 1] = e /\ \A n \in 1 .. Len(s) : u[n] = s[n]
  BY <1>1, PushFacts
<1>3. \A n \in 1 .. Len(s) + 1 : SubSeq(u, 1, n - 1) = SubSeq(s, 1, n - 1)
  BY <1>1, BelowFacts
<1>4. SubSeq(s, 1, Len(s) + 1 - 1) = s
  <2>1. Len(s) + 1 - 1 = Len(s)
    BY <1>2
  <2>2. SubSeq(s, 1, Len(s)) = s
    BY <1>1, SubSeqFull
  <2> QED BY <2>1, <2>2
<1> HIDE DEF u
<1>5. \A n \in 1 .. Len(s) : Joins(p, SubSeq(u, 1, n - 1), u[n])
  <2> SUFFICES ASSUME NEW n \in 1 .. Len(s) PROVE Joins(p, SubSeq(u, 1, n - 1), u[n])
    OBVIOUS
  <2>1. n \in 1 .. Len(s) + 1
    BY <1>2
  <2>2. SubSeq(u, 1, n - 1) = SubSeq(s, 1, n - 1) /\ u[n] = s[n]
    BY <1>2, <1>3, <2>1
  <2> QED BY <1>2, <2>2 DEF Nested
<1>6. Joins(p, SubSeq(u, 1, Len(s) + 1 - 1), u[Len(s) + 1]) <=> Joins(p, s, e)
  <2>1. Len(s) + 1 \in 1 .. Len(s) + 1
    BY <1>2
  <2>2. SubSeq(u, 1, Len(s) + 1 - 1) = SubSeq(s, 1, Len(s) + 1 - 1)
    BY <1>3, <2>1
  <2>3. SubSeq(u, 1, Len(s) + 1 - 1) = s /\ u[Len(s) + 1] = e
    BY <1>2, <1>4, <2>2
  <2> QED BY <2>3
<1>7. \A n \in 1 .. Len(s) + 1 : n \in 1 .. Len(s) \/ n = Len(s) + 1
  BY <1>2
<1>8. Nested(p, u) <=> \A n \in 1 .. Len(s) + 1 : Joins(p, SubSeq(u, 1, n - 1), u[n])
  BY <1>2 DEF Nested
<1>9. Len(s) + 1 \in 1 .. Len(s) + 1
  BY <1>2
<1>10. Nested(p, u) <=> Joins(p, s, e)
  BY <1>5, <1>6, <1>7, <1>8, <1>9
<1> QED BY <1>10 DEF u

LEMMA NestedPop ==
    ASSUME NEW p, NEW s, Nested(p, s), s # <<>>
    PROVE  Nested(p, Front(s)) /\ Joins(p, Front(s), Last(s))
<1> DEFINE r == Front(s)
           e == Last(s)
<1>1. s \in Seq(Entries)
  BY DEF Nested
<1>2. r \in Seq(Entries) /\ e \in Entries /\ s = Append(r, e)
  BY <1>1, PopFacts
<1> HIDE DEF r, e
<1>3. /\ Len(r) \in Nat /\ DOMAIN r = 1 .. Len(r) /\ DOMAIN s = 1 .. Len(r) + 1
      /\ \A n \in 1 .. Len(r) : s[n] = r[n]
  BY <1>2, PushFacts
<1>4. \A n \in 1 .. Len(r) : n \in 1 .. Len(r) + 1 /\ SubSeq(s, 1, n - 1) = SubSeq(r, 1, n - 1)
  <2> SUFFICES ASSUME NEW n \in 1 .. Len(r)
               PROVE  n \in 1 .. Len(r) + 1 /\ SubSeq(s, 1, n - 1) = SubSeq(r, 1, n - 1)
    OBVIOUS
  <2>1. n \in 1 .. Len(r) + 1
    BY <1>3
  <2> QED BY <1>2, <2>1, BelowFacts
<1>5. Nested(p, r)
  BY <1>2, <1>3, <1>4 DEF Nested
<1>6. Joins(p, r, e)
  BY <1>2, <1>5, NestedPush
<1> QED BY <1>5, <1>6 DEF r, e

\* What an entry pushed changes.
LEMMA HoldsPush ==
    ASSUME NEW s \in Seq(Entries), NEW e \in Entries, NEW t, NEW n
    PROVE  Holds(Append(s, e), t, n) <=> IF t \in e.mask THEN n = Len(s) + 1 ELSE Holds(s, t, n)
<1> DEFINE u == Append(s, e)
<1>1. /\ Len(s) \in Nat /\ Len(u) = Len(s) + 1 /\ DOMAIN s = 1 .. Len(s) /\ DOMAIN u = 1 .. Len(s) + 1
      /\ u[Len(s) + 1] = e /\ \A k \in 1 .. Len(s) : u[k] = s[k]
  BY PushFacts
<1> HIDE DEF u
<1>2. CASE t \in e.mask
  <2>1. Holds(u, t, Len(s) + 1)
    BY <1>1, <1>2 DEF Holds
  <2>2. ASSUME n # Len(s) + 1 PROVE ~Holds(u, t, n)
    <3>1. n \in DOMAIN u => Len(s) + 1 \in n + 1 .. Len(u)
      BY <1>1, <2>2
    <3> QED BY <1>1, <1>2, <3>1 DEF Holds
  <2> QED BY <1>2, <2>1, <2>2 DEF u
<1>3. CASE t \notin e.mask
  <2>1. ASSUME NEW k \in 1 .. Len(s)
        PROVE  (\A j \in k + 1 .. Len(u) : t \notin u[j].mask) <=> (\A j \in k + 1 .. Len(s) : t \notin s[j].mask)
    <3>1. \A j \in k + 1 .. Len(u) : (j \in k + 1 .. Len(s) /\ u[j] = s[j]) \/ (j = Len(s) + 1 /\ u[j] = e)
      BY <1>1
    <3>2. \A j \in k + 1 .. Len(s) : j \in k + 1 .. Len(u) /\ u[j] = s[j]
      BY <1>1
    <3> QED BY <1>3, <3>1, <3>2
  <2>2. Holds(u, t, n) => n \in 1 .. Len(s)
    BY <1>1, <1>3 DEF Holds
  <2>3. n \in 1 .. Len(s) => n \in DOMAIN u /\ u[n] = s[n]
    BY <1>1
  <2>4. Holds(u, t, n) <=> Holds(s, t, n)
    BY <1>1, <2>1, <2>2, <2>3 DEF Holds
  <2> QED BY <1>3, <2>4 DEF u
<1> QED BY <1>2, <1>3

LEMMA SyncPush ==
    ASSUME NEW s \in Seq(Entries), NEW e \in Entries, NEW t, NEW x
    PROVE  SyncAt(Append(s, e), t, x) <=> IF t \in e.mask THEN e.pc = x ELSE SyncAt(s, t, x)
<1> DEFINE u == Append(s, e)
<1>1. /\ Len(s) \in Nat /\ DOMAIN s = 1 .. Len(s) /\ u[Len(s) + 1] = e /\ \A k \in 1 .. Len(s) : u[k] = s[k]
  BY PushFacts
<1>2. \A n : Holds(u, t, n) <=> IF t \in e.mask THEN n = Len(s) + 1 ELSE Holds(s, t, n)
  BY HoldsPush
<1> HIDE DEF u
<1>3. CASE t \in e.mask
  <2>1. SyncAt(u, t, x) <=> u[Len(s) + 1].pc = x
    BY <1>2, <1>3 DEF SyncAt
  <2> QED BY <1>1, <1>3, <2>1 DEF u
<1>4. CASE t \notin e.mask
  <2>1. \A n : Holds(s, t, n) => u[n] = s[n]
    BY <1>1 DEF Holds
  <2>2. SyncAt(u, t, x) <=> SyncAt(s, t, x)
    BY <1>2, <1>4, <2>1 DEF SyncAt
  <2> QED BY <1>4, <2>2 DEF u
<1> QED BY <1>3, <1>4

\* A thread whose entry is popped is held by the one below that the entry belonged to.
LEMMA SyncPop ==
    ASSUME NEW p, NEW s \in Seq(Entries), NEW e, NEW m \in DOMAIN s, Under(p, s, m, e), NEW t \in e.mask
    PROVE  SyncAt(s, t, s[m].pc)
<1>1. Len(s) \in Nat /\ DOMAIN s = 1 .. Len(s)
  BY LenProperties
<1>2. t \in s[m].mask /\ \A k \in m + 1 .. Len(s) : t \notin s[k].mask
  BY DEF Under
<1>3. ASSUME NEW n, Holds(s, t, n) PROVE n = m
  <2>1. n \in 1 .. Len(s) /\ t \in s[n].mask /\ \A k \in n + 1 .. Len(s) : t \notin s[k].mask
    BY <1>1, <1>3 DEF Holds
  <2>2. ~(n > m)
    BY <1>1, <1>2, <2>1
  <2>3. ~(m > n)
    BY <1>1, <1>2, <2>1
  <2> QED BY <1>1, <2>1, <2>2, <2>3
<1> QED BY <1>3 DEF SyncAt

LEMMA BasePush ==
    ASSUME NEW s \in Seq(Entries), NEW e \in Entries, NEW t
    PROVE  InBase(Append(s, e), t) <=> IF s = <<>> THEN t \in e.mask ELSE InBase(s, t)
<1> DEFINE u == Append(s, e)
<1>1. u # <<>> /\ Len(s) \in Nat /\ u[Len(s) + 1] = e /\ \A k \in 1 .. Len(s) : u[k] = s[k]
  BY PushFacts
<1>2. s = <<>> => Len(s) + 1 = 1
  BY EmptySeq
<1>3. s # <<>> => 1 \in 1 .. Len(s)
  BY <1>1, EmptySeq
<1> HIDE DEF u
<1>4. InBase(u, t) <=> IF s = <<>> THEN t \in e.mask ELSE InBase(s, t)
  BY <1>1, <1>2, <1>3 DEF InBase
<1> QED BY <1>4 DEF u

LEMMA CallPush ==
    ASSUME NEW s \in Seq(Entries), NEW e \in Entries, NEW t, NEW x
    PROVE  LET u == Append(s, e)
           IN  /\ CallIn(u) <=> CallIn(s) \/ e.type = "call"
               /\ NoCall(u, t) <=> NoCall(s, t) /\ (e.type = "call" => t \notin e.mask)
               /\ Called(u, t, x) <=> \/ Called(s, t, x)
                                      \/ s # <<>> /\ e.type = "call" /\ t \in e.mask /\ x = Last(s).pc + 1
<1> DEFINE u == Append(s, e)
<1>1. /\ Len(s) \in Nat /\ DOMAIN s = 1 .. Len(s) /\ DOMAIN u = 1 .. Len(s) + 1
      /\ u[Len(s) + 1] = e /\ \A k \in 1 .. Len(s) : u[k] = s[k]
  BY PushFacts
<1>2. \A k : k \in DOMAIN u <=> k \in 1 .. Len(s) \/ k = Len(s) + 1
  BY <1>1
<1>3. s # <<>> <=> Len(s) > 0
  BY EmptySeq
<1> HIDE DEF u
<1>4. CallIn(u) <=> CallIn(s) \/ e.type = "call"
  BY <1>1, <1>2 DEF CallIn
<1>5. NoCall(u, t) <=> NoCall(s, t) /\ (e.type = "call" => t \notin e.mask)
  BY <1>1, <1>2 DEF NoCall
<1>6. Called(u, t, x) <=> \/ Called(s, t, x)
                          \/ s # <<>> /\ e.type = "call" /\ t \in e.mask /\ x = Last(s).pc + 1
  <2>1. \A c \in 1 .. Len(s) : c > 1 => u[c] = s[c] /\ u[c - 1] = s[c - 1]
    <3> SUFFICES ASSUME NEW c \in 1 .. Len(s), c > 1 PROVE u[c] = s[c] /\ u[c - 1] = s[c - 1]
      OBVIOUS
    <3>1. c - 1 \in 1 .. Len(s)
      BY <1>1
    <3> QED BY <1>1, <3>1
  <2> DEFINE Q(v, c) == v[c].type = "call" /\ t \in v[c].mask /\ x = v[c - 1].pc + 1
  <2>2. \A c \in 1 .. Len(s) : c > 1 => (Q(u, c) <=> Q(s, c))
    BY <2>1
  <2>3. Len(s) > 0 => (Q(u, Len(s) + 1) <=> e.type = "call" /\ t \in e.mask /\ x = Last(s).pc + 1)
    <3> SUFFICES ASSUME Len(s) > 0
                 PROVE  Q(u, Len(s) + 1) <=> e.type = "call" /\ t \in e.mask /\ x = Last(s).pc + 1
      OBVIOUS
    <3>1. Len(s) + 1 - 1 = Len(s) /\ Len(s) \in 1 .. Len(s)
      BY <1>1
    <3>2. u[Len(s)] = Last(s)
      BY <1>1, <3>1 DEF Last
    <3> QED BY <1>1, <3>1, <3>2
  <2>4. Called(u, t, x) <=> (\E c \in 1 .. Len(s) : c > 1 /\ Q(u, c)) \/ (Len(s) + 1 > 1 /\ Q(u, Len(s) + 1))
    <3>1. Called(u, t, x) <=> \E c \in DOMAIN u : c > 1 /\ Q(u, c)
      BY DEF Called
    <3> HIDE DEF Q
    <3> QED BY <1>2, <3>1
  <2>5. Called(s, t, x) <=> \E c \in 1 .. Len(s) : c > 1 /\ Q(s, c)
    BY <1>1 DEF Called
  <2> HIDE DEF Q
  <2> QED BY <1>1, <1>3, <2>2, <2>3, <2>4, <2>5
<1> QED BY <1>4, <1>5, <1>6 DEF u

LEMMA DonePush ==
    ASSUME NEW s \in Seq(Entries), NEW e \in Entries, NEW dn
    PROVE  DoneOut(Append(s, e), dn) <=> DoneOut(s, dn) /\ (e.mask \cap dn = {} \/ (s = <<>> /\ e.pc = Exit))
<1> DEFINE u == Append(s, e)
<1>1. /\ Len(s) \in Nat /\ DOMAIN s = 1 .. Len(s) /\ DOMAIN u = 1 .. Len(s) + 1
      /\ u[Len(s) + 1] = e /\ \A k \in 1 .. Len(s) : u[k] = s[k]
  BY PushFacts
<1>2. \A k : k \in DOMAIN u <=> k \in 1 .. Len(s) \/ k = Len(s) + 1
  BY <1>1
<1>3. s = <<>> <=> Len(s) + 1 = 1
  BY <1>1, EmptySeq
<1> HIDE DEF u
<1>4. DoneOut(u, dn) <=> DoneOut(s, dn) /\ (e.mask \cap dn = {} \/ (s = <<>> /\ e.pc = Exit))
  <2> DEFINE Q(v, n) == v[n].mask \cap dn = {} \/ (n = 1 /\ v[1].pc = Exit)
  <2>1. \A n \in 1 .. Len(s) : Q(u, n) <=> Q(s, n)
    BY <1>1
  <2>2. Q(u, Len(s) + 1) <=> (e.mask \cap dn = {} \/ (s = <<>> /\ e.pc = Exit))
    BY <1>1, <1>3
  <2>3. DoneOut(u, dn) <=> \A n \in DOMAIN u : Q(u, n)
    BY DEF DoneOut
  <2>4. DoneOut(s, dn) <=> \A n \in 1 .. Len(s) : Q(s, n)
    BY <1>1 DEF DoneOut
  <2> HIDE DEF Q
  <2> QED BY <1>2, <2>1, <2>2, <2>3, <2>4
<1> QED BY <1>4 DEF u

LEMMA WherePush ==
    ASSUME NEW p, NEW s \in Seq(Entries), NEW e \in Entries, NEW t, NEW x, NEW y
    PROVE  /\ t \notin e.mask => (Where(p, Append(s, e), t, x, y) <=> Where(p, s, t, x, y))
           /\ s # <<>> /\ e.type = "normal" => (Where(p, Append(s, e), t, x, y) <=> Where(p, s, t, x, y))
<1> DEFINE u == Append(s, e)
<1>1. InBase(u, t) <=> IF s = <<>> THEN t \in e.mask ELSE InBase(s, t)
  BY BasePush
<1>2. NoCall(u, t) <=> NoCall(s, t) /\ (e.type = "call" => t \notin e.mask)
  BY CallPush
<1>3. \A z : Called(u, t, z) <=> \/ Called(s, t, z)
                                 \/ s # <<>> /\ e.type = "call" /\ t \in e.mask /\ z = Last(s).pc + 1
  BY CallPush
<1> HIDE DEF u
<1>4. ASSUME t \notin e.mask PROVE Where(p, u, t, x, y) <=> Where(p, s, t, x, y)
  BY <1>1, <1>2, <1>3, <1>4 DEF Where, InBase
<1>5. ASSUME s # <<>>, e.type = "normal" PROVE Where(p, u, t, x, y) <=> Where(p, s, t, x, y)
  BY <1>1, <1>2, <1>3, <1>5 DEF Where
<1> QED BY <1>4, <1>5 DEF u

\* Another entry of the same sort in the place of e.
LEMMA WhereSame ==
    ASSUME NEW p, NEW s \in Seq(Entries), NEW e \in Entries, NEW d \in Entries, e.type = d.type,
           NEW t \in e.mask \cap d.mask, NEW x, NEW y, Where(p, Append(s, e), t, x, y)
    PROVE  Where(p, Append(s, d), t, x, y)
<1> DEFINE u == Append(s, e)
           v == Append(s, d)
<1>1. (InBase(u, t) <=> IF s = <<>> THEN t \in e.mask ELSE InBase(s, t))
      /\ (InBase(v, t) <=> IF s = <<>> THEN t \in d.mask ELSE InBase(s, t))
  BY BasePush
<1>2. (NoCall(u, t) <=> NoCall(s, t) /\ (e.type = "call" => t \notin e.mask))
      /\ (NoCall(v, t) <=> NoCall(s, t) /\ (d.type = "call" => t \notin d.mask))
  BY CallPush
<1>3. \A z : /\ Called(u, t, z) <=> \/ Called(s, t, z)
                                    \/ s # <<>> /\ e.type = "call" /\ t \in e.mask /\ z = Last(s).pc + 1
             /\ Called(v, t, z) <=> \/ Called(s, t, z)
                                    \/ s # <<>> /\ d.type = "call" /\ t \in d.mask /\ z = Last(s).pc + 1
  BY CallPush
<1> HIDE DEF u, v
<1>4. Where(p, u, t, x, y)
  BY DEF u
<1>5. Where(p, v, t, x, y)
  BY <1>1, <1>2, <1>3, <1>4 DEF Where
<1> QED BY <1>5 DEF v

LEMMA LocatedPush ==
    ASSUME NEW p, NEW s \in Seq(Entries), NEW e \in Entries, NEW t, t \notin e.mask, NEW x, NEW y
    PROVE  Located(p, Append(s, e), t, x, y) <=> Located(p, s, t, x, y)
<1>1. Where(p, Append(s, e), t, x, y) <=> Where(p, s, t, x, y)
  BY WherePush
<1>2. SyncAt(Append(s, e), t, x) <=> SyncAt(s, t, x)
  BY SyncPush
<1> QED BY <1>1, <1>2 DEF Located

----------------------------------------------------------------------------
(* What may be pushed.                                                     *)

\* An entry may move on before the point where it waits, and lose threads.
LEMMA JoinsMove ==
    ASSUME NEW p, NEW s \in Seq(Entries), NEW e \in Entries, Joins(p, s, e),
           NEW q \in Int, NEW mask \in SUBSET e.mask, mask # {},
           e.type = "normal" /\ s # <<>> => q # e.recvg /\ <<q, e.recvg>> \in Postdominators(p),
           e.type = "call" => q # Exit /\ mask = e.mask
    PROVE  LET d == [e EXCEPT !.pc = q, !.mask = mask] IN d \in Entries /\ Joins(p, s, d)
<1> DEFINE d == [e EXCEPT !.pc = q, !.mask = mask]
<1>1. d \in Entries /\ d.pc = q /\ d.mask = mask /\ d.recvg = e.recvg /\ d.type = e.type
  BY DEF Entries
<1> HIDE DEF d
<1>2. \A c \in DOMAIN s : s[c].type = "call" => d.type = "normal" /\ d.mask \subseteq s[c].mask
  BY <1>1 DEF Joins
<1>3. IF s = <<>> THEN d.type = "normal" /\ d.recvg = NoPc ELSE \E m \in DOMAIN s : Under(p, s, m, d)
  <2>1. CASE s = <<>>
    BY <1>1, <2>1 DEF Joins
  <2>2. CASE s # <<>>
    <3>1. PICK m \in DOMAIN s : Under(p, s, m, e)
      BY <2>2 DEF Joins
    <3>2. d.mask \subseteq s[m].mask /\ \A k \in m + 1 .. Len(s) : s[k].mask \cap d.mask = {}
      BY <1>1, <3>1 DEF Under
    <3>3. CASE e.type = "normal"
      BY <1>1, <2>2, <3>1, <3>2, <3>3 DEF Under
    <3>4. CASE e.type = "call"
      BY <1>1, <2>2, <3>1, <3>2, <3>4 DEF Under
    <3> QED BY <2>2, <3>1, <3>3, <3>4 DEF Under
  <2> QED BY <2>1, <2>2
<1>4. Len(s) <= 2 * (WarpSize - Cardinality(d.mask)) + (IF d.type = "call" \/ CallIn(s) THEN 1 ELSE 0)
  <2>1. IsFiniteSet(Threads) /\ e.mask \subseteq Threads
    BY ThreadsFacts DEF Entries
  <2>2. IsFiniteSet(e.mask)
    BY <2>1, FS_Subset
  <2>3. Cardinality(mask) <= Cardinality(e.mask) /\ Cardinality(mask) \in Nat /\ Cardinality(e.mask) \in Nat
    BY <2>2, FS_Subset, FS_CardinalityType
  <2>4. Len(s) \in Nat
    BY LenProperties
  <2>5. Len(s) <= 2 * (WarpSize - Cardinality(e.mask)) + (IF e.type = "call" \/ CallIn(s) THEN 1 ELSE 0)
    BY DEF Joins
  <2> DEFINE a == Cardinality(mask)
             b == Cardinality(e.mask)
             k == IF e.type = "call" \/ CallIn(s) THEN 1 ELSE 0
  <2>6. k \in {0, 1}
    OBVIOUS
  <2> HIDE DEF a, b, k
  <2>7. Len(s) <= 2 * (WarpSize - a) + k
    BY <2>3, <2>4, <2>5, <2>6, WarpAssumption DEF a, b, k
  <2> QED BY <1>1, <2>7 DEF a, k
<1>5. Joins(p, s, d)
  BY <1>1, <1>2, <1>3, <1>4 DEF Joins
<1> QED BY <1>1, <1>5 DEF d

\* An entry that waits for the exit is a group of the kernel that parted first.
LEMMA ExitBelow ==
    ASSUME NEW p, WellFormed(p), NEW s, Nested(p, s), s # <<>>,
           NEW e \in Entries, Joins(p, s, e), e.type = "normal", e.recvg = Exit
    PROVE  s[1].pc = Exit /\ ~CallIn(s) /\ \A k \in 2 .. Len(s) : s[k].mask \cap e.mask = {}
<1>1. s \in Seq(Entries) /\ Len(s) \in Nat /\ DOMAIN s = 1 .. Len(s)
  BY LenProperties DEF Nested
<1>2. PICK m \in DOMAIN s : Under(p, s, m, e)
  BY DEF Joins
<1>3. s[m].pc = Exit
  BY <1>2 DEF Under
<1>4. m = 1
  <2> SUFFICES ASSUME m # 1 PROVE FALSE
    OBVIOUS
  <2> DEFINE b == SubSeq(s, 1, m - 1)
  <2>1. Joins(p, b, s[m]) /\ s[m] \in Entries
    BY <1>1, <1>2 DEF Nested
  <2>2. b # <<>>
    <3>1. 1 <= m - 1 /\ m - 1 \in Int /\ \A k \in 1 .. m - 1 : s[k] \in Entries
      BY <1>1, <1>2
    <3>2. Len(b) = IF 1 <= m - 1 THEN m - 1 - 1 + 1 ELSE 0
      BY <3>1, SubSeqProperties
    <3> QED BY <3>1, <3>2, EmptySeq
  <2>3. PICK k \in DOMAIN b : Under(p, b, k, s[m])
    BY <2>1, <2>2 DEF Joins
  <2>4. s[m].type = "normal" => <<Exit, s[m].recvg>> \in Postdominators(p) /\ s[m].recvg # Exit
    BY <1>3, <2>3 DEF Under
  <2>5. s[m].type # "call"
    BY <1>3, <2>3 DEF Under
  <2> QED BY <2>1, <2>4, <2>5, PdomFacts DEF Entries
<1>5. \A k \in 2 .. Len(s) : s[k].mask \cap e.mask = {}
  BY <1>2, <1>4 DEF Under
<1>6. ~CallIn(s)
  <2> SUFFICES ASSUME NEW c \in DOMAIN s, s[c].type = "call" PROVE FALSE
    BY DEF CallIn
  <2>1. e.mask # {} /\ e.mask \subseteq s[c].mask
    BY DEF Joins
  <2>2. c = 1
    BY <1>1, <1>5, <2>1
  <2>3. Joins(p, SubSeq(s, 1, 0), s[1])
    <3>1. 1 - 1 = 0
      OBVIOUS
    <3>2. Joins(p, SubSeq(s, 1, 1 - 1), s[1])
      BY <2>2 DEF Nested
    <3> QED BY <3>1, <3>2
  <2>4. SubSeq(s, 1, 0) = <<>>
    BY SubSeqEmpty
  <2> QED BY <2>2, <2>3, <2>4 DEF Joins
<1> QED BY <1>3, <1>4, <1>5, <1>6

----------------------------------------------------------------------------
(* The instruction at the top of the stack.                                *)

\* Where the branch of an instruction reconverges: what postdominates it
\* otherwise comes later.
Meets(p, i, j) ==
    /\ j \in Nodes(p) /\ <<i, j>> \in Postdominators(p) /\ j # i
    /\ \A k : <<i, k>> \in Postdominators(p) /\ k # i => <<j, k>> \in Postdominators(p)

LEMMA BranchFacts ==
    ASSUME NEW p \in Programs, NEW i \in DOMAIN p.code, p.code[i].op = "bra"
    PROVE  \E j : /\ Meets(p, i, j)
                  /\ ReconvergencePoints(p)[i] = IF j = Exit THEN ReturnPc ELSE j
                  /\ i \in Function(p) => j # Exit
<1> DEFINE pdom == Postdominators(p)
           j == CHOOSE j \in Immediate(pdom, i) : TRUE
<1>1. WellFormed(p)
  BY ProgramsAssumption
<1>2. Immediate(pdom, i) # {}
  BY AlwaysAssembles DEF Assembles
<1>3. j \in Immediate(pdom, i)
  BY <1>2
<1>4. ReconvergencePoints(p)[i] = IF j = Exit THEN ReturnPc ELSE j
  BY DEF ReconvergencePoints
<1> HIDE DEF j
<1>5. pdom \subseteq Nodes(p) \X Nodes(p)
  BY <1>1, PdomFacts
<1>6. <<i, j>> \in pdom /\ j # i /\ j \in Nodes(p) /\ \A k : <<i, k>> \in pdom /\ k # i => <<j, k>> \in pdom
  <2> HIDE DEF pdom
  <2> DEFINE strict == {e[2] : e \in {e \in pdom : e[1] = i /\ e[2] # i}}
  <2>1. j \in strict /\ \A k \in strict : <<j, k>> \in pdom
    BY <1>3 DEF Immediate
  <2>2. \A k : k \in strict <=> <<i, k>> \in pdom /\ k # i
    BY <1>5
  <2> HIDE DEF strict
  <2> QED BY <1>5, <2>1, <2>2
<1>7. ASSUME i \in Function(p) PROVE j # Exit
  <2>1. Len(p.code) \in Nat /\ Len(p.code) # Exit /\ p.main \in Nat
    BY <1>1, Shape DEF Exit
  <2>2. <<i, Len(p.code)>> \in pdom
    BY <1>1, <1>7, ReturnPostdominates DEF Function
  <2>3. i # Len(p.code)
    <3>1. i > p.main
      BY <1>7, <2>1 DEF Function
    <3> QED BY <1>1, <3>1 DEF WellFormed
  <2>4. <<j, Len(p.code)>> \in pdom
    BY <1>6, <2>2, <2>3
  <2> QED BY <1>1, <2>1, <2>4, PdomFacts
<1>8. Meets(p, i, j)
  BY <1>6 DEF Meets
<1> QED BY <1>4, <1>7, <1>8

\* The instruction that is executed, and the threads that execute it.
LEMMA TopFacts ==
    ASSUME IInv, done # Threads
    PROVE  LET top == Last(stack)
               r   == Front(stack)
               i   == top.pc
           IN  /\ stack \in Seq(Entries) /\ r \in Seq(Entries) /\ top \in Entries /\ stack = Append(r, top)
               /\ stack # <<>> /\ Nested(program, r) /\ Joins(program, r, top)
               /\ WellFormed(program)
               /\ top.mask # {} /\ top.mask \subseteq Threads \ done /\ \A t \in top.mask : pc[t] = i
               /\ i \in DOMAIN program.code
               /\ \/ /\ i \in Kernel(program) /\ ~CallIn(stack)
                     /\ \A t \in Threads \ done : calls[t] = <<Exit>>
                  \/ /\ i \in Function(program) /\ CallIn(stack)
                     /\ \A t \in top.mask : \E z \in Int : calls[t] = <<Exit, z>> /\ Called(stack, t, z)
<1> DEFINE top == Last(stack)
           r   == Front(stack)
           i   == top.pc
           live == Threads \ done
<1>1. /\ program \in Programs /\ stack # <<>> /\ Nested(program, stack) /\ DoneOut(stack, done)
      /\ done \subseteq Threads /\ \A t \in live : Located(program, stack, t, pc[t], calls[t])
  BY DEF IInv
<1>2. stack \in Seq(Entries)
  BY <1>1 DEF Nested
<1>3. r \in Seq(Entries) /\ top \in Entries /\ stack = Append(r, top)
  BY <1>1, <1>2, PopFacts
<1>4. Nested(program, r) /\ Joins(program, r, top)
  BY <1>1, NestedPop
<1>5. WellFormed(program)
  BY <1>1, ProgramsAssumption
<1>6. /\ Len(program.code) \in Nat /\ program.main \in Nat /\ program.main >= 1
      /\ DOMAIN program.code = 1 .. Len(program.code) /\ program.main <= Len(program.code)
  BY <1>5, Shape
<1> HIDE DEF top, r
<1>7. top.mask # {} /\ top.mask \subseteq Threads
  BY <1>3, <1>4 DEF Joins, Entries
<1>8. \A t \in live : pc[t] \in Kernel(program) \cup Function(program)
  BY <1>1 DEF Located, Where
<1>9. \A t \in live \cap top.mask : pc[t] = i
  <2> SUFFICES ASSUME NEW t \in live \cap top.mask PROVE pc[t] = i
    OBVIOUS
  <2>1. SyncAt(Append(r, top), t, pc[t])
    BY <1>1, <1>3 DEF Located
  <2> QED BY <1>3, <2>1, SyncPush
<1>10. top.mask \cap done = {}
  <2>1. top.mask \cap done = {} \/ (r = <<>> /\ top.pc = Exit)
    BY <1>1, <1>3, DonePush
  <2> SUFFICES ASSUME r = <<>>, top.pc = Exit PROVE FALSE
    BY <2>1
  <2>2. PICK t \in live : TRUE
    BY <1>1
  <2>3. InBase(Append(r, top), t)
    BY <1>1, <1>3, <2>2 DEF Located, Where
  <2>4. t \in top.mask
    BY <1>3, <2>3, BasePush
  <2>5. pc[t] = Exit
    BY <1>9, <2>2, <2>4
  <2> QED BY <1>6, <1>8, <2>2, <2>5 DEF Kernel, Function, Exit
<1>11. top.mask \subseteq live /\ \A t \in top.mask : pc[t] = i
  BY <1>7, <1>9, <1>10
<1>12. Kernel(program) \cup Function(program) \subseteq DOMAIN program.code /\ Kernel(program) \cap Function(program) = {}
  BY <1>6 DEF Kernel, Function
<1>13. i \in Kernel(program) \cup Function(program)
  BY <1>7, <1>8, <1>11
<1>14. \A t \in live : \/ calls[t] = <<Exit>> /\ pc[t] \in Kernel(program) /\ NoCall(stack, t)
                       \/ pc[t] \in Function(program) /\ \E z \in Int : calls[t] = <<Exit, z>> /\ Called(stack, t, z)
  BY <1>1 DEF Located, Where
<1>15. \A t, z : Called(stack, t, z) => CallIn(stack)
  BY DEF Called, CallIn
<1>16. ASSUME i \in Kernel(program) PROVE ~CallIn(stack)
  <2>1. PICK t \in top.mask : TRUE
    BY <1>7
  <2>2. NoCall(Append(r, top), t)
    BY <1>3, <1>11, <1>12, <1>14, <1>16, <2>1
  <2>3. NoCall(r, t) /\ top.type # "call"
    BY <1>3, <2>1, <2>2, CallPush
  <2>4. ~CallIn(r)
    BY <1>4, <2>1, <2>3 DEF CallIn, NoCall, Joins
  <2>5. CallIn(Append(r, top)) <=> CallIn(r) \/ top.type = "call"
    BY <1>3, CallPush
  <2> QED BY <1>3, <2>3, <2>4, <2>5
<1>17. CASE i \in Kernel(program)
  <2>1. ~CallIn(stack)
    BY <1>16, <1>17
  <2>2. \A t \in live : calls[t] = <<Exit>>
    BY <1>14, <1>15, <2>1
  <2> QED BY <1>1, <1>2, <1>3, <1>4, <1>5, <1>7, <1>11, <1>12, <1>17, <2>1, <2>2 DEF top, r
<1>18. CASE i \in Function(program)
  <2>1. \A t \in top.mask : \E z \in Int : calls[t] = <<Exit, z>> /\ Called(stack, t, z)
    BY <1>11, <1>12, <1>14, <1>18
  <2>2. CallIn(stack)
    BY <1>7, <1>15, <2>1
  <2> QED BY <1>1, <1>2, <1>3, <1>4, <1>5, <1>7, <1>11, <1>12, <1>18, <2>1, <2>2 DEF top, r
<1> QED BY <1>13, <1>17, <1>18

\* What ExecuteWarp computes for the threads, when those in taken may.
Allowed(taken) == taken \in SUBSET Last(stack).mask /\ \A t \in Last(stack).mask \ taken : program.code[pc[t]].pred
Npc(taken)     == [t \in Threads |-> IF t \in Last(stack).mask THEN NextPc(t, t \in taken) ELSE pc[t]]
Ncalls(taken)  == [t \in Threads |-> IF t \in Last(stack).mask THEN NextCalls(t, t \in taken) ELSE calls[t]]
Ndone(taken)   == done \cup {t \in taken : Exits(t)}

IsCall == program.code[Last(stack).pc].op = "call"
IsReturn == program.code[Last(stack).pc].op = "ret" /\ Last(stack).pc \in Function(program)

LEMMA NextPcFacts ==
    ASSUME IInv, done # Threads, NEW taken, Allowed(taken), ~IsCall, ~IsReturn, NEW t \in Last(stack).mask
    PROVE  LET i == Last(stack).pc
               c == program.code[i]
           IN  /\ t \in taken /\ Exits(t) => /\ c.op \in {"exit", "ret"} /\ i \in Kernel(program)
                                             /\ Exit \in Successors(program, i)
               /\ ~(t \in taken /\ Exits(t)) =>
                    /\ NextPc(t, t \in taken) \in Successors(program, i) \cap Part(program, i)
                    /\ NextCalls(t, t \in taken) = calls[t]
                    /\ NextPc(t, t \in taken) = i + 1 \/ (c.op = "bra" /\ NextPc(t, t \in taken) = c.target)
<1> DEFINE i == Last(stack).pc
           c == program.code[i]
           k == t \in taken
<1>1. /\ WellFormed(program) /\ i \in DOMAIN program.code /\ pc[t] = i /\ t \in Threads \ done
      /\ \/ i \in Kernel(program) /\ \A u \in Threads \ done : calls[u] = <<Exit>>
         \/ i \in Function(program)
  BY TopFacts
<1>2. k \/ c.pred
  BY <1>1 DEF Allowed
<1> HIDE DEF k
<1>3. c \in Instruction /\ i \in Nat /\ i # Exit /\ i + 1 # Exit
  BY <1>1, Shape DEF Exit
<1>4. Successors(program, i) \subseteq Part(program, i) \cup (IF c.op \in {"exit", "ret"} THEN {Exit} ELSE {})
  BY <1>1 DEF WellFormed
<1>5. (i \in Function(program) => i > program.main) /\ ~(i \in Kernel(program) /\ i \in Function(program))
  BY <1>1, Shape DEF Function, Kernel
<1>6. c.op # "call" /\ (i \in Function(program) => c.op # "exit" /\ c.op # "ret")
  BY <1>1, <1>5 DEF IsCall, IsReturn, WellFormed
<1> DEFINE S == Successors(program, i)
<1>7. /\ c.op \in {"exit", "ret"} => S = {Exit} \cup (IF c.pred THEN {i + 1} ELSE {})
      /\ c.op = "bra" => S = {c.target} \cup (IF c.pred THEN {i + 1} ELSE {})
      /\ c.op = "op" => S = {i + 1}
  BY DEF Successors
<1>8. c.op \in {"op", "ret", "exit", "bra"}
  BY <1>3, <1>6 DEF Instruction
<1> HIDE DEF c, i, S
<1>9. Exits(t) <=> c.op = "exit" \/ (c.op = "ret" /\ Len(calls[t]) = 1)
  BY <1>1 DEF Exits, c, i
<1>10. c.op \in {"exit", "ret"} => Exits(t)
  <2>1. i \in Kernel(program) => Len(calls[t]) = 1
    <3>1. i \in Kernel(program) => calls[t] = <<Exit>>
      BY <1>1, <1>5 DEF i
    <3> QED BY <3>1
  <2> QED BY <1>1, <1>6, <1>9, <2>1 DEF i
<1>11. ASSUME k, Exits(t)
       PROVE  c.op \in {"exit", "ret"} /\ i \in Kernel(program) /\ Exit \in S
  BY <1>1, <1>6, <1>7, <1>9, <1>11 DEF i
<1>12. ASSUME ~(k /\ Exits(t))
       PROVE  /\ NextPc(t, k) \in S /\ NextPc(t, k) # Exit /\ NextCalls(t, k) = calls[t]
              /\ NextPc(t, k) = i + 1 \/ (c.op = "bra" /\ NextPc(t, k) = c.target)
  <2>1. NextPc(t, k) = IF ~k THEN i + 1 ELSE IF c.op = "bra" THEN c.target ELSE i + 1
    <3>1. k => c.op \notin {"exit", "ret"}
      BY <1>10, <1>12
    <3>2. pc[t] = i /\ program.code[pc[t]] = c
      BY <1>1 DEF i, c
    <3> QED BY <1>8, <3>1, <3>2 DEF NextPc
  <2>2. NextCalls(t, k) = calls[t]
    <3>1. k => c.op \notin {"exit", "ret"}
      BY <1>10, <1>12
    <3>2. program.code[pc[t]] = c
      BY <1>1 DEF i, c
    <3> QED BY <1>6, <3>1, <3>2 DEF NextCalls
  <2>3. NextPc(t, k) \in S
    <3>1. CASE k
      <4>1. c.op \in {"op", "bra"}
        BY <1>8, <1>10, <1>12, <3>1
      <4> QED BY <1>7, <2>1, <3>1, <4>1
    <3>2. CASE ~k
      BY <1>2, <1>7, <1>8, <2>1, <3>2
    <3> QED BY <3>1, <3>2
  <2>4. c.op = "bra" => c.target # Exit
    <3> SUFFICES ASSUME c.op = "bra" PROVE c.target # Exit
      OBVIOUS
    <3>1. c.target \in Part(program, i)
      BY <1>4, <1>7 DEF c, i, S
    <3>2. Exit \notin Part(program, i)
      BY <1>1, Shape DEF Part, Exit
    <3> QED BY <3>1, <3>2
  <2> QED BY <1>3, <2>1, <2>2, <2>3, <2>4 DEF i
<1>13. S \subseteq Part(program, i) \cup {Exit}
  BY <1>4 DEF S, c, i
<1> QED BY <1>11, <1>12, <1>13 DEF k, S, c, i


\* The step of an instruction that is no call, nor the return from one, taken
\* together: only the threads of the top move, and only in the kernel some exit.
LEMMA OrdinaryFacts ==
    ASSUME IInv, done # Threads, NEW taken, Allowed(taken), ~IsCall, ~IsReturn
    PROVE  LET top == Last(stack)
               i   == top.pc
               c   == program.code[i]
               nd  == Ndone(taken)
           IN  /\ done \subseteq nd /\ nd \subseteq done \cup top.mask /\ nd \subseteq Threads
               /\ nd = done \/ (c.op # "bra" /\ i \in Kernel(program) /\ Exit \in Successors(program, i))
               /\ \A t \in Threads \ top.mask : Npc(taken)[t] = pc[t] /\ Ncalls(taken)[t] = calls[t]
               /\ \A t \in top.mask \ nd :
                    /\ Npc(taken)[t] \in Successors(program, i) \cap Part(program, i)
                    /\ Npc(taken)[t] = i + 1 \/ (c.op = "bra" /\ Npc(taken)[t] = c.target)
                    /\ Ncalls(taken)[t] = calls[t]
<1> DEFINE top == Last(stack)
           i   == top.pc
           c   == program.code[i]
           nd  == Ndone(taken)
<1>1. top.mask \subseteq Threads \ done /\ taken \subseteq top.mask /\ done \subseteq Threads
  BY TopFacts DEF Allowed, IInv
<1>2. \A t \in top.mask :
         /\ t \in taken /\ Exits(t) => c.op \in {"exit", "ret"} /\ i \in Kernel(program) /\ Exit \in Successors(program, i)
         /\ ~(t \in taken /\ Exits(t)) =>
              /\ NextPc(t, t \in taken) \in Successors(program, i) \cap Part(program, i)
              /\ NextCalls(t, t \in taken) = calls[t]
              /\ NextPc(t, t \in taken) = i + 1 \/ (c.op = "bra" /\ NextPc(t, t \in taken) = c.target)
  BY NextPcFacts
<1> HIDE DEF top, i, c
<1>3. done \subseteq nd /\ nd \subseteq done \cup top.mask /\ nd \subseteq Threads
  BY <1>1 DEF Ndone
<1>4. nd = done \/ (c.op # "bra" /\ i \in Kernel(program) /\ Exit \in Successors(program, i))
  <2>1. nd # done => \E t \in taken : Exits(t)
    BY DEF Ndone
  <2> QED BY <1>1, <1>2, <2>1
<1>5. \A t \in Threads \ top.mask : Npc(taken)[t] = pc[t] /\ Ncalls(taken)[t] = calls[t]
  BY DEF Npc, Ncalls, top
<1>6. \A t \in top.mask : Npc(taken)[t] = NextPc(t, t \in taken) /\ Ncalls(taken)[t] = NextCalls(t, t \in taken)
  BY <1>1 DEF Npc, Ncalls, top
<1>7. \A t \in top.mask \ nd : ~(t \in taken /\ Exits(t))
  BY DEF Ndone
<1>8. \A t \in top.mask \ nd : /\ Npc(taken)[t] \in Successors(program, i) \cap Part(program, i)
                               /\ Npc(taken)[t] = i + 1 \/ (c.op = "bra" /\ Npc(taken)[t] = c.target)
                               /\ Ncalls(taken)[t] = calls[t]
  <2> SUFFICES ASSUME NEW t \in top.mask \ nd
               PROVE  /\ Npc(taken)[t] \in Successors(program, i) \cap Part(program, i)
                      /\ Npc(taken)[t] = i + 1 \/ (c.op = "bra" /\ Npc(taken)[t] = c.target)
                      /\ Ncalls(taken)[t] = calls[t]
    OBVIOUS
  <2>1. Npc(taken)[t] = NextPc(t, t \in taken) /\ Ncalls(taken)[t] = NextCalls(t, t \in taken)
    BY <1>6
  <2>2. ~(t \in taken /\ Exits(t)) /\ t \in top.mask
    BY <1>7
  <2> QED BY <1>2, <2>1, <2>2
<1> QED BY <1>3, <1>4, <1>5, <1>8 DEF top, i, c

\* Threads exit in the kernel only, where what is below waits for the exit too.
LEMMA DoneBelow ==
    ASSUME IInv, done # Threads, NEW taken, Allowed(taken), ~IsCall, ~IsReturn
    PROVE  DoneOut(Front(stack), Ndone(taken))
<1> DEFINE top == Last(stack)
           r   == Front(stack)
           i   == top.pc
           nd  == Ndone(taken)
<1>1. /\ r \in Seq(Entries) /\ top \in Entries /\ stack = Append(r, top)
      /\ Nested(program, r) /\ Joins(program, r, top) /\ WellFormed(program)
      /\ i \in Kernel(program) => ~CallIn(stack)
  <2>1. ~(i \in Kernel(program) /\ i \in Function(program))
    BY TopFacts, Shape DEF Kernel, Function
  <2> QED BY <2>1, TopFacts
<1>2. nd \subseteq done \cup top.mask /\ (nd = done \/ (i \in Kernel(program) /\ Exit \in Successors(program, i)))
  BY OrdinaryFacts
<1> HIDE DEF top, r, nd
<1>3. DoneOut(r, done)
  <2>1. DoneOut(stack, done)
    BY DEF IInv
  <2> QED BY <1>1, <2>1, DonePush
<1> SUFFICES ASSUME r # <<>>, i \in Kernel(program), Exit \in Successors(program, i)
             PROVE  DoneOut(r, nd)
  <2>1. r = <<>> => DoneOut(r, nd)
    BY DEF DoneOut
  <2> QED BY <1>2, <1>3, <2>1 DEF nd, r
<1>4. top.type = "normal"
  <2>1. CallIn(Append(r, top)) <=> CallIn(r) \/ top.type = "call"
    BY <1>1, CallPush
  <2> QED BY <1>1, <2>1 DEF Entries
<1>5. top.recvg = Exit
  <2>1. PICK m \in DOMAIN r : Under(program, r, m, top)
    BY <1>1 DEF Joins
  <2>2. <<i, top.recvg>> \in Postdominators(program) /\ i # top.recvg
    BY <1>4, <2>1 DEF Under
  <2>3. <<Exit, top.recvg>> \in Postdominators(program)
    BY <1>1, <2>2, PdomFacts
  <2> QED BY <1>1, <2>3, PdomFacts
<1>6. r[1].pc = Exit /\ \A k \in 2 .. Len(r) : r[k].mask \cap top.mask = {}
  BY <1>1, <1>4, <1>5, ExitBelow
<1>7. Len(r) \in Nat /\ DOMAIN r = 1 .. Len(r)
  BY <1>1, LenProperties
<1>8. ASSUME NEW n \in DOMAIN r, n # 1 PROVE r[n].mask \cap nd = {}
  <2>1. n \in 2 .. Len(r)
    BY <1>7, <1>8
  <2>2. r[n].mask \cap done = {}
    BY <1>3, <1>8 DEF DoneOut
  <2> QED BY <1>2, <1>6, <2>1, <2>2
<1> QED BY <1>6, <1>8 DEF DoneOut

\* Where a branch at the top of the stack reconverges.
LEMMA ReconvergesAt ==
    ASSUME IInv, done # Threads, NEW taken, Allowed(taken), program.code[Last(stack).pc].op = "bra"
    PROVE  LET i == Last(stack).pc
               j == ReconvergeAt(i, Npc(taken), Ncalls(taken), Ndone(taken))
           IN  Meets(program, i, j) /\ (i \in Function(program) => j # Exit)
<1> DEFINE i == Last(stack).pc
           live == Threads \ done
<1>1. ~IsCall /\ ~IsReturn
  BY DEF IsCall, IsReturn
<1>2. /\ i \in DOMAIN program.code /\ WellFormed(program) /\ Last(stack).mask \subseteq live
      /\ (\A t \in live : calls[t] = <<Exit>>) \/ i \in Function(program)
  BY TopFacts
<1>3. program \in Programs /\ recon = ReconvergencePoints(program) /\ done \subseteq Threads
  BY DEF IInv
<1>4. PICK j : /\ Meets(program, i, j)
               /\ ReconvergencePoints(program)[i] = IF j = Exit THEN ReturnPc ELSE j
               /\ i \in Function(program) => j # Exit
  BY <1>2, <1>3, BranchFacts
<1>5. Ndone(taken) = done /\ \A t \in live : Ncalls(taken)[t] = calls[t]
  BY <1>1, <1>2, OrdinaryFacts
<1> HIDE DEF i
<1>6. recon[i] = IF j = Exit THEN ReturnPc ELSE j
  BY <1>3, <1>4
<1>7. j \in Nat
  BY <1>2, <1>4, Shape DEF Meets, Nodes
<1>8. CASE j # Exit
  <2>1. recon[i] = j /\ j # ReturnPc
    BY <1>6, <1>7, <1>8 DEF ReturnPc
  <2>2. ReconvergeAt(i, Npc(taken), Ncalls(taken), Ndone(taken)) = j
    BY <2>1 DEF ReconvergeAt
  <2> QED BY <1>4, <2>2 DEF i
<1>9. CASE j = Exit
  <2> DEFINE u == CHOOSE t \in live : \A v \in live : t <= v
  <2>1. live # {} /\ live \subseteq Nat
    <3>1. Threads \subseteq Nat
      BY WarpAssumption DEF Threads
    <3>2. live # {}
      BY <1>3
    <3> QED BY <3>1, <3>2
  <2>2. u \in live
    <3>1. \E t \in live : \A v \in live : t <= v
      <4> HIDE DEF live
      <4> QED BY <2>1, LeastExists
    <3> HIDE DEF live
    <3> QED BY <3>1
  <2>3. Last(Ncalls(taken)[u]) = Exit
    <3> HIDE DEF u
    <3>1. Ncalls(taken)[u] = <<Exit>>
      BY <1>2, <1>4, <1>5, <1>9, <2>2
    <3> QED BY <3>1 DEF Last
  <2>4. ReconvergeAt(i, Npc(taken), Ncalls(taken), Ndone(taken)) = Last(Ncalls(taken)[u])
    BY <1>5, <1>6, <1>9 DEF ReconvergeAt
  <2> HIDE DEF u
  <2> QED BY <1>4, <1>9, <2>3, <2>4 DEF i
<1> QED BY <1>8, <1>9

----------------------------------------------------------------------------
(* What update makes of the stack.                                         *)

\* Threads of the top that have not exited, and those of them that go to q.
Active(nd)      == Last(stack).mask \ nd
Group(f, nd, q) == {t \in Active(nd) : f[t] = q}

LEMMA UpdateEmpty ==
    ASSUME NEW i, NEW f, NEW nd, NEW rv, Active(nd) = {}
    PROVE  Update(stack, i, f, nd, rv) = Front(stack)
<1>1. {f[t] : t \in Active(nd)} = {}
  OBVIOUS
<1>2. {f[t] : t \in Last(stack).mask \ nd} = {}
  BY <1>1 DEF Active
<1> QED BY <1>2 DEF Update

\* The stack when all threads of A are called to q.
Entered(q, A) == Append(stack, Entry(q, A, NoPc, "call"))

\* The stack when they go on at q: the top is gone, or there.
Advanced(q, A) ==
    IF q = Last(stack).recvg /\ Last(stack).type # "call" THEN Front(stack)
    ELSE Append(Front(stack), [Last(stack) EXCEPT !.pc = q, !.mask = A])

Together(f, nd, q) == Active(nd) # {} /\ \A t \in Active(nd) : f[t] = q

LEMMA UpdateSame ==
    ASSUME NEW i, NEW f, NEW nd, NEW rv, NEW q \in Int, Together(f, nd, q)
    PROVE  Update(stack, i, f, nd, rv) =
             IF program.code[i].op = "call" THEN Entered(q, Active(nd))
             ELSE IF program.code[i].op = "ret" /\ Last(stack).type = "call" THEN Returned(Front(stack), q)
             ELSE Advanced(q, Active(nd))
<1> DEFINE top == Last(stack)
           targets == {f[t] : t \in top.mask \ nd}
           group(x) == {t \in top.mask \ nd : f[t] = x}
           kept == {x \in targets : ~(x = top.recvg /\ top.type # "call")}
           first == IF i + 1 \in targets THEN i + 1 ELSE CHOOSE x \in targets : \A y \in targets : x <= y
<1>1. targets = {q} /\ group(q) = Active(nd) /\ top.mask \ nd = Active(nd)
  BY DEF Active, Together
<1>2. Cardinality(targets) = 1
  BY <1>1, FS_Singleton
<1>3. first = q
  <2>1. (CHOOSE x \in {q} : \A y \in {q} : x <= y) = q
    <3>1. \E x \in {q} : \A y \in {q} : x <= y
      OBVIOUS
    <3> QED BY <3>1
  <2> HIDE DEF targets
  <2> QED BY <1>1, <2>1
<1>4. kept = IF q = top.recvg /\ top.type # "call" THEN {} ELSE {q}
  BY <1>1
<1> DEFINE paths == Paths(kept \ {rv}, i)
           deeper == rv # top.recvg
           below == IF deeper THEN Append(Front(stack), [top EXCEPT !.pc = rv]) ELSE Front(stack)
           pushed == [n \in DOMAIN paths |-> Entry(paths[n], group(paths[n]), rv,
                                                   IF n = 1 /\ ~deeper THEN top.type ELSE "normal")]
<1>5. Update(stack, i, f, nd, rv) =
        IF targets = {} THEN Front(stack)
        ELSE IF program.code[i].op = "call" THEN Append(stack, Entry(first, group(first), NoPc, "call"))
        ELSE IF program.code[i].op = "ret" /\ top.type = "call" THEN Returned(Front(stack), first)
        ELSE IF Cardinality(targets) > 1 /\ kept # {} THEN below \o pushed
        ELSE IF kept = {} THEN Front(stack)
        ELSE Append(Front(stack), [top EXCEPT !.pc = first, !.mask = top.mask \ nd])
  BY DEF Update
<1>6. targets # {} /\ ~(Cardinality(targets) > 1) /\ (kept = {} <=> q = top.recvg /\ top.type # "call")
  <2> HIDE DEF targets
  <2> QED BY <1>1, <1>2, <1>4
<1>7. group(first) = Active(nd)
  <2> HIDE DEF first
  <2> QED BY <1>1, <1>3
<1> HIDE DEF targets, group, kept, first, below, pushed
<1> QED BY <1>1, <1>3, <1>5, <1>6, <1>7 DEF Advanced, Entered

LEMMA OnePath ==
    /\ SetToSeq({}) = <<>>
    /\ \A x : SetToSeq({x}) = <<x>>
<1>1. Cardinality({}) = 0
  BY FS_EmptySet
<1>2. SetToSeq({}) = <<>>
  <2>1. SetToSeq({}) \in [1 .. 0 -> {}]
    <3> DEFINE e == [n \in 1 .. 0 |-> n]
    <3>1. e \in [1 .. 0 -> {}] /\ IsInjective(e)
      BY DEF IsInjective
    <3> HIDE DEF e
    <3> QED BY <1>1, <3>1 DEF SetToSeq
  <2>2. SetToSeq({}) \in Seq({}) /\ Len(SetToSeq({})) = 0
    BY <2>1
  <2> QED BY <2>2, EmptySeq
<1>3. ASSUME NEW x PROVE SetToSeq({x}) = <<x>>
  <2>1. Cardinality({x}) = 1
    BY FS_Singleton
  <2>2. SetToSeq({x}) \in [1 .. 1 -> {x}]
    <3> DEFINE e == [n \in 1 .. 1 |-> x]
    <3>1. e \in [1 .. 1 -> {x}] /\ IsInjective(e)
      BY DEF IsInjective
    <3> HIDE DEF e
    <3> QED BY <2>1, <3>1 DEF SetToSeq
  <2> QED BY <2>2
<1> QED BY <1>2, <1>3

LEMMA Pair ==
    ASSUME NEW S, NEW e \in S, NEW d \in S
    PROVE  <<e>> \o <<>> = <<e>> /\ <<e>> \o <<d>> = <<e, d>>
<1>1. <<e>> \in Seq(S) /\ <<d>> \in Seq(S) /\ Len(<<e>>) = 1 /\ Len(<<d>>) = 1 /\ <<e>>[1] = e /\ <<d>>[1] = d
  OBVIOUS
<1>2. <<e, d>> \in Seq(S) /\ Len(<<e, d>>) = 2 /\ <<e, d>>[1] = e /\ <<e, d>>[2] = d
  OBVIOUS
<1> DEFINE w == <<e>> \o <<d>>
<1>3. /\ w \in Seq(S) /\ Len(w) = Len(<<e>>) + Len(<<d>>)
      /\ \A n \in 1 .. Len(<<e>>) + Len(<<d>>) : w[n] = IF n <= Len(<<e>>) THEN <<e>>[n] ELSE <<d>>[n - Len(<<e>>)]
  BY <1>1, ConcatProperties
<1> HIDE DEF w
<1>4. Len(w) = 2 /\ w[1] = e /\ w[2] = d
  <2>1. 1 \in 1 .. Len(<<e>>) + Len(<<d>>) /\ 2 \in 1 .. Len(<<e>>) + Len(<<d>>) /\ 2 - 1 = 1
    BY <1>1
  <2> QED BY <1>1, <1>3, <2>1
<1>5. \A n \in 1 .. Len(w) : w[n] = <<e, d>>[n]
  <2>1. \A n \in 1 .. 2 : n = 1 \/ n = 2
    OBVIOUS
  <2> QED BY <1>2, <1>4, <2>1
<1>6. w = <<e, d>>
  BY <1>2, <1>3, <1>4, <1>5, SeqEqual
<1>7. <<e>> \o <<>> = <<e>>
  BY <1>1, ConcatEmptySeq
<1> QED BY <1>6, <1>7 DEF w

LEMMA ConcatPaths ==
    ASSUME NEW s \in Seq(Entries), NEW e \in Entries, NEW d \in Entries
    PROVE  s \o <<>> = s /\ s \o <<e>> = Append(s, e) /\ s \o <<e, d>> = Append(Append(s, e), d)
<1>1. s \o <<>> = s
  BY ConcatEmptySeq
<1>2. s \o <<e>> = Append(s, e) /\ Append(s, e) \in Seq(Entries)
  BY AppendIsConcat, AppendProperties
<1>3. Append(Append(s, e), d) = Append(s, e) \o <<d>>
  BY <1>2, AppendIsConcat
<1>4. <<e>> \in Seq(Entries) /\ <<d>> \in Seq(Entries)
  OBVIOUS
<1>5. <<e, d>> = <<e>> \o <<d>>
  BY Pair
<1>6. (s \o <<e>>) \o <<d>> = s \o (<<e>> \o <<d>>)
  BY <1>4, ConcatAssociative
<1> QED BY <1>1, <1>2, <1>3, <1>5, <1>6

\* Some go on after branch i, some to b: who is not where the top waited, nor
\* where they meet, gets an entry of its own.
Goes(rv, q)         == q # rv /\ ~(q = Last(stack).recvg /\ Last(stack).type # "call")
Waiting(rv)         == IF rv # Last(stack).recvg THEN Append(Front(stack), [Last(stack) EXCEPT !.pc = rv]) ELSE Front(stack)
Branch(f, nd, rv, q) == Entry(q, Group(f, nd, q), rv, "normal")

LEMMA UpdateSplit ==
    ASSUME NEW i \in Int, NEW b \in Int, b # i + 1, program.code[i].op = "bra",
           NEW f, NEW nd, NEW rv \in Int, Last(stack).type = "call" => rv # Last(stack).recvg,
           stack \in Seq(Entries), stack # <<>>,
           \A t \in Active(nd) : f[t] \in {i + 1, b}, Group(f, nd, i + 1) # {}, Group(f, nd, b) # {}
    PROVE  Update(stack, i, f, nd, rv) =
             LET below == Waiting(rv)
                 one   == IF Goes(rv, i + 1) THEN Append(below, Branch(f, nd, rv, i + 1)) ELSE below
             IN  IF Goes(rv, b) THEN Append(one, Branch(f, nd, rv, b)) ELSE one
<1> DEFINE top == Last(stack)
           n1 == i + 1
           targets == {f[t] : t \in top.mask \ nd}
           group(x) == {t \in top.mask \ nd : f[t] = x}
           kept == {x \in targets : ~(x = top.recvg /\ top.type # "call")}
           first == IF i + 1 \in targets THEN i + 1 ELSE CHOOSE x \in targets : \A y \in targets : x <= y
           paths == Paths(kept \ {rv}, i)
           deeper == rv # top.recvg
           below == IF deeper THEN Append(Front(stack), [top EXCEPT !.pc = rv]) ELSE Front(stack)
           pushed == [n \in DOMAIN paths |-> Entry(paths[n], group(paths[n]), rv,
                                                   IF n = 1 /\ ~deeper THEN top.type ELSE "normal")]
           C(q) == Branch(f, nd, rv, q)
<1>1. Front(stack) \in Seq(Entries) /\ top \in Entries
  BY PopFacts
<1>2. Update(stack, i, f, nd, rv) =
        IF targets = {} THEN Front(stack)
        ELSE IF program.code[i].op = "call" THEN Append(stack, Entry(first, group(first), NoPc, "call"))
        ELSE IF program.code[i].op = "ret" /\ top.type = "call" THEN Returned(Front(stack), first)
        ELSE IF Cardinality(targets) > 1 /\ kept # {} THEN below \o pushed
        ELSE IF kept = {} THEN Front(stack)
        ELSE Append(Front(stack), [top EXCEPT !.pc = first, !.mask = top.mask \ nd])
  BY DEF Update
<1>3. targets = {n1, b}
  BY DEF Active, Group
<1>4. Cardinality(targets) > 1
  <2>1. IsFiniteSet({b}) /\ Cardinality({b}) = 1
    BY FS_Singleton
  <2>2. n1 # b
    OBVIOUS
  <2> HIDE DEF targets, n1
  <2> DEFINE S == {b}
  <2>3. n1 \notin S /\ IsFiniteSet(S) /\ Cardinality(S) = 1
    BY <2>1, <2>2
  <2>4. targets = S \cup {n1}
    BY <1>3
  <2> HIDE DEF S
  <2>5. Cardinality(S \cup {n1}) = Cardinality(S) + 1
    BY <2>3, FS_AddElement
  <2>6. Cardinality(S \cup {n1}) = 2
    BY <2>3, <2>5
  <2> QED BY <2>4, <2>6
<1>5. kept # {}
  <2> HIDE DEF targets
  <2> QED BY <1>3
<1>6. Update(stack, i, f, nd, rv) = below \o pushed
  <2> HIDE DEF targets, kept, below, pushed, group, first
  <2> QED BY <1>2, <1>3, <1>4, <1>5
<1>7. below = Waiting(rv) /\ Waiting(rv) \in Seq(Entries)
  <2>1. [top EXCEPT !.pc = rv] \in Entries
    BY <1>1 DEF Entries
  <2> QED BY <1>1, <2>1, AppendProperties DEF Waiting
<1>8. ~deeper => top.type = "normal"
  BY <1>1 DEF Entries
<1>9. kept \ {rv} = {q \in {n1, b} : Goes(rv, q)}
  <2> HIDE DEF targets
  <2> QED BY <1>3 DEF Goes
<1>10. paths = IF Goes(rv, n1) THEN IF Goes(rv, b) THEN <<n1, b>> ELSE <<n1>>
               ELSE IF Goes(rv, b) THEN <<b>> ELSE <<>>
  <2> DEFINE ps == kept \ {rv}
  <2>1. paths = IF n1 \in ps THEN <<n1>> \o SetToSeq(ps \ {n1}) ELSE SetToSeq(ps)
    BY DEF Paths
  <2>2. n1 \in ps <=> Goes(rv, n1)
    <3> HIDE DEF kept, n1
    <3> QED BY <1>9
  <2>3. ps \ {n1} = IF Goes(rv, b) THEN {b} ELSE {}
    <3>1. n1 # b
      OBVIOUS
    <3> HIDE DEF kept, n1
    <3> QED BY <1>9, <3>1
  <2>4. SetToSeq(ps \ {n1}) = IF Goes(rv, b) THEN <<b>> ELSE <<>>
    <3> HIDE DEF ps, n1
    <3> QED BY <2>3, OnePath
  <2>5. n1 \in Int
    OBVIOUS
  <2> HIDE DEF ps, n1, paths
  <2>6. n1 \notin ps => ps = ps \ {n1}
    OBVIOUS
  <2>7. <<n1>> \o <<>> = <<n1>> /\ <<n1>> \o <<b>> = <<n1, b>>
    BY <2>5, Pair
  <2>8. CASE Goes(rv, n1)
    BY <2>1, <2>2, <2>4, <2>7, <2>8
  <2>9. CASE ~Goes(rv, n1)
    <3>1. paths = SetToSeq(ps \ {n1})
      BY <2>1, <2>2, <2>6, <2>9
    <3> QED BY <2>4, <2>9, <3>1
  <2> QED BY <2>8, <2>9
<1>11. pushed = [n \in DOMAIN paths |-> C(paths[n])]
  BY <1>8 DEF Branch, Group, Active
<1>12. \A q \in Int : C(q) \in Entries
  <2>1. \A q : Group(f, nd, q) \subseteq Threads
    BY <1>1 DEF Group, Active, Entries
  <2> QED BY <2>1 DEF Branch, Entry, Entries
<1>13. b \in Int /\ n1 \in Int
  OBVIOUS
<1> HIDE DEF pushed, paths, below, n1, C
<1>14. CASE Goes(rv, n1) /\ Goes(rv, b)
  <2>1. paths = <<n1, b>>
    BY <1>10, <1>14
  <2>2. pushed = <<C(n1), C(b)>>
    BY <1>11, <2>1
  <2>3. below \o pushed = Append(Append(below, C(n1)), C(b))
    BY <1>7, <1>12, <1>13, <2>2, ConcatPaths
  <2> QED BY <1>6, <1>7, <1>14, <2>3 DEF n1, C
<1>15. CASE Goes(rv, n1) /\ ~Goes(rv, b)
  <2>1. paths = <<n1>>
    BY <1>10, <1>15
  <2>2. pushed = <<C(n1)>>
    BY <1>11, <2>1
  <2>3. below \o pushed = Append(below, C(n1))
    BY <1>7, <1>12, <1>13, <2>2, ConcatPaths
  <2> QED BY <1>6, <1>7, <1>15, <2>3 DEF n1, C
<1>16. CASE ~Goes(rv, n1) /\ Goes(rv, b)
  <2>1. paths = <<b>>
    BY <1>10, <1>16
  <2>2. pushed = <<C(b)>>
    BY <1>11, <2>1
  <2>3. below \o pushed = Append(below, C(b))
    BY <1>7, <1>12, <1>13, <2>2, ConcatPaths
  <2> QED BY <1>6, <1>7, <1>16, <2>3 DEF n1, C
<1>17. CASE ~Goes(rv, n1) /\ ~Goes(rv, b)
  <2>1. paths = <<>>
    BY <1>10, <1>17
  <2>2. pushed = <<>>
    BY <1>11, <2>1
  <2>3. below \o pushed = below
    BY <1>7, <1>12, <1>13, <2>2, ConcatPaths
  <2> QED BY <1>6, <1>7, <1>17, <2>3 DEF n1, C
<1> QED BY <1>14, <1>15, <1>16, <1>17

----------------------------------------------------------------------------
(* A step keeps the invariant.                                             *)

\* Stack s fits the threads: those not in dn are at x with call stacks y.
Fits(s, dn, x, y) ==
    dn # Threads =>
      /\ s # <<>> /\ Nested(program, s) /\ DoneOut(s, dn)
      /\ \A t \in Threads \ dn : Located(program, s, t, x[t], y[t])

LEMMA WhereMove ==
    ASSUME NEW p, WellFormed(p), NEW s, NEW t, NEW x, NEW y, Where(p, s, t, x, y), NEW z \in Part(p, x)
    PROVE  Where(p, s, t, z, y)
<1>1. p.main \in Nat /\ Len(p.code) \in Nat /\ p.main <= Len(p.code)
  BY Shape
<1>2. x \in Kernel(p) => z \in Kernel(p)
  BY <1>1 DEF Part, Kernel
<1>3. x \in Function(p) => z \in Function(p)
  BY <1>1 DEF Part, Function
<1> QED BY <1>2, <1>3 DEF Where

\* Where the threads are before the step.
LEMMA BeforeStep ==
    ASSUME IInv, done # Threads
    PROVE  \A t \in Threads \ done :
             /\ Located(program, Append(Front(stack), Last(stack)), t, pc[t], calls[t])
             /\ t \notin Last(stack).mask => Located(program, Front(stack), t, pc[t], calls[t])
<1> DEFINE r == Front(stack)
           top == Last(stack)
<1>1. r \in Seq(Entries) /\ top \in Entries /\ stack = Append(r, top)
  BY TopFacts
<1> HIDE DEF r, top
<1>2. ASSUME NEW t \in Threads \ done
      PROVE  /\ Located(program, Append(r, top), t, pc[t], calls[t])
             /\ t \notin top.mask => Located(program, r, t, pc[t], calls[t])
  <2>1. Located(program, stack, t, pc[t], calls[t])
    BY DEF IInv
  <2>2. Located(program, Append(r, top), t, pc[t], calls[t])
    BY <1>1, <2>1
  <2> QED BY <1>1, <2>2, LocatedPush
<1> QED BY <1>2 DEF r, top

\* All threads of the top exit: it is gone.
LEMMA KeptByExit ==
    ASSUME IInv, done # Threads, NEW taken, Allowed(taken), ~IsCall, ~IsReturn, Active(Ndone(taken)) = {}
    PROVE  Fits(Front(stack), Ndone(taken), Npc(taken), Ncalls(taken))
<1> DEFINE r == Front(stack)
           top == Last(stack)
           nd == Ndone(taken)
<1> SUFFICES ASSUME nd # Threads PROVE Fits(r, nd, Npc(taken), Ncalls(taken))
  BY DEF Fits
<1>1. Nested(program, r) /\ DoneOut(r, nd)
  BY TopFacts, DoneBelow
<1>2. nd \subseteq Threads /\ done \subseteq nd
  BY OrdinaryFacts
<1>3. \A t \in Threads \ nd : t \notin top.mask /\ t \in Threads \ done
  BY <1>2 DEF Active
<1>4. \A t \in Threads \ nd : Located(program, r, t, Npc(taken)[t], Ncalls(taken)[t])
  <2> SUFFICES ASSUME NEW t \in Threads \ nd PROVE Located(program, r, t, Npc(taken)[t], Ncalls(taken)[t])
    OBVIOUS
  <2>1. Npc(taken)[t] = pc[t] /\ Ncalls(taken)[t] = calls[t]
    BY <1>3, OrdinaryFacts
  <2>2. Located(program, r, t, pc[t], calls[t])
    BY <1>3, BeforeStep
  <2> HIDE DEF r
  <2> QED BY <2>1, <2>2
<1>5. r # <<>>
  <2>1. PICK t \in Threads \ nd : TRUE
    BY <1>2
  <2> HIDE DEF r
  <2> QED BY <1>4, <2>1 DEF Located, Where, InBase
<1> QED BY <1>1, <1>4, <1>5 DEF Fits

\* The top may move on to q, where control goes from its instruction.
LEMMA MayMove ==
    ASSUME IInv, done # Threads, NEW q \in Successors(program, Last(stack).pc) \cap Part(program, Last(stack).pc)
    PROVE  LET r   == Front(stack)
               top == Last(stack)
           IN  /\ q \in Nat /\ q # Exit
               /\ top.type = "normal" /\ r # <<>> => <<q, top.recvg>> \in Postdominators(program)
               /\ r = <<>> => top.type = "normal" /\ top.recvg = NoPc /\ q # top.recvg
<1> DEFINE r   == Front(stack)
           top == Last(stack)
           i   == top.pc
<1>1. Joins(program, r, top) /\ WellFormed(program) /\ i \in DOMAIN program.code
  BY TopFacts
<1>2. q \in Nat /\ q # Exit
  <2> HIDE DEF top
  <2>1. program.main \in Nat /\ Len(program.code) \in Nat /\ q \in Part(program, i)
    BY <1>1, Shape DEF top
  <2> QED BY <2>1 DEF Part, Exit
<1> HIDE DEF r, top
<1>3. ASSUME top.type = "normal", r # <<>> PROVE <<q, top.recvg>> \in Postdominators(program)
  <2>1. PICK m \in DOMAIN r : Under(program, r, m, top)
    BY <1>1, <1>3 DEF Joins
  <2>2. <<i, top.recvg>> \in Postdominators(program) /\ i # top.recvg
    BY <1>3, <2>1 DEF Under
  <2>3. q \in Successors(program, i)
    BY DEF top
  <2> QED BY <1>1, <2>2, <2>3, PdomFacts
<1>4. ASSUME r = <<>> PROVE top.type = "normal" /\ top.recvg = NoPc /\ q # top.recvg
  <2>1. top.type = "normal" /\ top.recvg = NoPc
    BY <1>1, <1>4 DEF Joins
  <2> QED BY <1>2, <2>1 DEF NoPc
<1> QED BY <1>2, <1>3, <1>4 DEF r, top

\* The threads of the top go on together: the top moves, or is gone when they are
\* where it waits.
LEMMA KeptByMove ==
    ASSUME IInv, done # Threads, NEW taken, Allowed(taken), ~IsCall, ~IsReturn, Active(Ndone(taken)) # {},
           NEW q, \A t \in Active(Ndone(taken)) : Npc(taken)[t] = q
    PROVE  Fits(Advanced(q, Active(Ndone(taken))), Ndone(taken), Npc(taken), Ncalls(taken))
<1> DEFINE r == Front(stack)
           top == Last(stack)
           i == top.pc
           nd == Ndone(taken)
           A == Active(nd)
           x == Npc(taken)
           y == Ncalls(taken)
<1>1. /\ r \in Seq(Entries) /\ top \in Entries /\ stack = Append(r, top) /\ stack # <<>>
      /\ Nested(program, r) /\ Joins(program, r, top) /\ WellFormed(program)
      /\ top.mask # {} /\ top.mask \subseteq Threads \ done /\ \A t \in top.mask : pc[t] = i
      /\ \/ i \in Kernel(program) /\ ~CallIn(stack)
         \/ i \in Function(program)
  BY TopFacts
<1>2. /\ nd \subseteq Threads /\ done \subseteq nd /\ nd \subseteq done \cup top.mask
      /\ nd = done \/ i \in Kernel(program)
      /\ \A t \in Threads \ top.mask : x[t] = pc[t] /\ y[t] = calls[t]
      /\ \A t \in A : x[t] \in Successors(program, i) \cap Part(program, i) /\ y[t] = calls[t]
  BY OrdinaryFacts DEF Active
<1>3. A = top.mask \ nd
  BY DEF Active
<1>4. DoneOut(r, nd)
  BY DoneBelow
<1>5. \A t \in Threads \ done : /\ Located(program, Append(r, top), t, pc[t], calls[t])
                                /\ t \notin top.mask => Located(program, r, t, pc[t], calls[t])
  BY BeforeStep
<1> HIDE DEF A, x, y, nd
<1>6. q \in Successors(program, i) \cap Part(program, i)
  BY <1>2 DEF A, nd, x
<1>7. /\ q \in Nat /\ q # Exit
      /\ top.type = "normal" /\ r # <<>> => <<q, top.recvg>> \in Postdominators(program)
      /\ r = <<>> => top.type = "normal" /\ top.recvg = NoPc /\ q # top.recvg
  BY <1>6, MayMove
<1> HIDE DEF r, top
<1>8. \A t \in Threads \ nd : t \in A \/ t \notin top.mask
  BY <1>3
<1>9. \A t \in Threads \ nd : t \notin top.mask => Located(program, r, t, x[t], y[t])
  BY <1>2, <1>5
<1>10. \A t \in A : /\ t \in top.mask /\ t \in Threads \ nd /\ x[t] = q /\ y[t] = calls[t] /\ Where(program, Append(r, top), t, q, y[t])
  <2> SUFFICES ASSUME NEW t \in A
               PROVE  t \in top.mask /\ t \in Threads \ nd /\ x[t] = q /\ y[t] = calls[t] /\ Where(program, Append(r, top), t, q, y[t])
    OBVIOUS
  <2>1. t \in top.mask /\ t \in Threads \ done /\ t \in Threads \ nd
    BY <1>1, <1>3
  <2>2. x[t] = q /\ y[t] = calls[t]
    BY <1>2 DEF A, nd, x
  <2>3. Where(program, Append(r, top), t, i, calls[t])
    BY <1>1, <1>5, <2>1 DEF Located
  <2>4. Where(program, Append(r, top), t, q, calls[t])
    BY <1>1, <1>6, <2>3, WhereMove
  <2> QED BY <2>1, <2>2, <2>4
<1>11. CASE q = top.recvg /\ top.type # "call"
  <2>1. top.type = "normal" /\ r # <<>>
    BY <1>1, <1>7, <1>11 DEF Entries
  <2>2. PICK m \in DOMAIN r : Under(program, r, m, top)
    BY <1>1, <2>1 DEF Joins
  <2>3. r[m].pc = q
    BY <1>11, <2>1, <2>2 DEF Under
  <2>4. ASSUME NEW t \in A PROVE Located(program, r, t, x[t], y[t])
    <3>1. SyncAt(r, t, q)
      BY <1>1, <1>10, <2>2, <2>3, SyncPop
    <3>2. Where(program, r, t, q, y[t])
      BY <1>1, <1>10, <2>1, WherePush
    <3> QED BY <1>10, <3>1, <3>2 DEF Located
  <2>5. Fits(r, nd, x, y)
    BY <1>1, <1>4, <1>8, <1>9, <2>1, <2>4 DEF Fits
  <2> QED BY <1>11, <2>5 DEF Advanced, r, top, nd, x, y
<1>12. CASE ~(q = top.recvg /\ top.type # "call")
  <2> DEFINE d == [top EXCEPT !.pc = q, !.mask = A]
  <2>1. top.type = "call" => nd = done /\ A = top.mask
    <3>1. top.type = "call" => CallIn(stack)
      BY <1>1, CallPush
    <3> QED BY <1>1, <1>2, <1>3, <3>1, Shape DEF Kernel, Function
  <2>2. d \in Entries /\ Joins(program, r, d)
    <3>1. A \in SUBSET top.mask /\ A # {} /\ q \in Int
      BY <1>3, <1>7 DEF A, nd
    <3> QED BY <1>1, <1>7, <1>12, <2>1, <3>1, JoinsMove
  <2>3. d.mask = A /\ d.pc = q /\ d.type = top.type
    BY <1>1 DEF Entries
  <2> HIDE DEF d
  <2>4. Nested(program, Append(r, d)) /\ Append(r, d) # <<>>
    BY <1>1, <2>2, NestedPush, PushFacts
  <2>5. DoneOut(Append(r, d), nd)
    BY <1>1, <1>3, <1>4, <2>2, <2>3, DonePush
  <2>6. ASSUME NEW t \in A PROVE Located(program, Append(r, d), t, x[t], y[t])
    <3>1. t \in top.mask \cap d.mask
      BY <1>10, <2>3
    <3>2. Where(program, Append(r, d), t, q, y[t])
      BY <1>1, <1>10, <2>2, <2>3, <3>1, WhereSame
    <3>3. SyncAt(Append(r, d), t, q)
      BY <1>1, <2>2, <2>3, <3>1, SyncPush
    <3> QED BY <1>10, <3>2, <3>3 DEF Located
  <2>7. ASSUME NEW t \in Threads \ nd, t \notin top.mask PROVE Located(program, Append(r, d), t, x[t], y[t])
    <3>1. t \notin d.mask
      BY <1>3, <2>3, <2>7
    <3> QED BY <1>1, <1>9, <2>2, <2>7, <3>1, LocatedPush
  <2>8. Fits(Append(r, d), nd, x, y)
    BY <1>8, <2>4, <2>5, <2>6, <2>7 DEF Fits
  <2> QED BY <1>12, <2>8 DEF Advanced, r, top, nd, x, y, d, A
<1> QED BY <1>11, <1>12

----------------------------------------------------------------------------
(* A branch.                                                               *)

\* The threads in mask wait at j on stack s, for an entry of their own.
Gathered(p, s, mask, j) ==
    /\ \E m \in DOMAIN s : /\ s[m].pc = j /\ mask \subseteq s[m].mask
                           /\ \A k \in m + 1 .. Len(s) : s[k].mask \cap mask = {}
    /\ \A c \in DOMAIN s : s[c].type = "call" => mask \subseteq s[c].mask

\* Stack s while groups are pushed: those in mask are still to be.
Parting(p, s, mask, j, dn, x, y) ==
    /\ s # <<>> /\ Nested(p, s) /\ DoneOut(s, dn) /\ Gathered(p, s, mask, j)
    /\ mask \subseteq Threads \ dn
    /\ \A t \in Threads \ dn : Where(p, s, t, x[t], y[t]) /\ SyncAt(s, t, IF t \in mask THEN j ELSE x[t])

\* The group that goes to q is pushed, unless it is where all meet.
LEMMA PartGroup ==
    ASSUME NEW p, NEW s, NEW mask, NEW j \in Int, NEW dn, NEW x, NEW y, Parting(p, s, mask, j, dn, x, y),
           NEW q \in Int, q # j => <<q, j>> \in Postdominators(p),
           NEW g \in SUBSET mask, g # {}, \A t \in g : x[t] = q,
           Len(s) <= 2 * (WarpSize - Cardinality(g)) + (IF CallIn(s) THEN 1 ELSE 0)
    PROVE  LET u == IF q # j THEN Append(s, Entry(q, g, j, "normal")) ELSE s
           IN  /\ Parting(p, u, mask \ g, j, dn, x, y)
               /\ CallIn(u) <=> CallIn(s)
               /\ Len(u) <= Len(s) + 1
<1> DEFINE e == Entry(q, g, j, "normal")
           u == Append(s, e)
           h == mask \ g
<1>1. /\ s \in Seq(Entries) /\ s # <<>> /\ Nested(p, s) /\ DoneOut(s, dn) /\ Gathered(p, s, mask, j)
      /\ mask \subseteq Threads \ dn
      /\ \A t \in Threads \ dn : Where(p, s, t, x[t], y[t]) /\ SyncAt(s, t, IF t \in mask THEN j ELSE x[t])
  BY DEF Parting, Nested
<1>2. e \in Entries /\ e.pc = q /\ e.mask = g /\ e.recvg = j /\ e.type = "normal"
  BY <1>1 DEF Entry, Entries
<1>3. PICK m \in DOMAIN s : /\ s[m].pc = j /\ mask \subseteq s[m].mask
                            /\ \A k \in m + 1 .. Len(s) : s[k].mask \cap mask = {}
  BY <1>1 DEF Gathered
<1>4. \A c \in DOMAIN s : s[c].type = "call" => mask \subseteq s[c].mask
  BY <1>1 DEF Gathered
<1>5. Len(s) \in Nat /\ DOMAIN s = 1 .. Len(s)
  BY <1>1, LenProperties
<1> HIDE DEF e
<1>6. CASE q = j
  <2>1. Gathered(p, s, h, j)
    <3>1. s[m].pc = j /\ h \subseteq s[m].mask /\ \A k \in m + 1 .. Len(s) : s[k].mask \cap h = {}
      BY <1>3
    <3>2. \A c \in DOMAIN s : s[c].type = "call" => h \subseteq s[c].mask
      BY <1>4
    <3> HIDE DEF h
    <3> QED BY <3>1, <3>2 DEF Gathered
  <2>2. \A t \in Threads \ dn : SyncAt(s, t, IF t \in h THEN j ELSE x[t])
    <3> SUFFICES ASSUME NEW t \in Threads \ dn PROVE SyncAt(s, t, IF t \in h THEN j ELSE x[t])
      OBVIOUS
    <3>1. SyncAt(s, t, IF t \in mask THEN j ELSE x[t])
      BY <1>1
    <3>2. (IF t \in mask THEN j ELSE x[t]) = IF t \in h THEN j ELSE x[t]
      BY <1>6
    <3> QED BY <3>1, <3>2
  <2>3. Parting(p, s, h, j, dn, x, y)
    <3>1. h \subseteq Threads \ dn
      BY <1>1
    <3> HIDE DEF h
    <3> QED BY <1>1, <2>1, <2>2, <3>1 DEF Parting
  <2> QED BY <1>5, <1>6, <2>3
<1>7. CASE q # j
  <2>1. Under(p, s, m, e)
    <3>1. e.mask \subseteq s[m].mask /\ \A k \in m + 1 .. Len(s) : s[k].mask \cap e.mask = {}
      BY <1>2, <1>3
    <3> QED BY <1>2, <1>3, <1>7, <3>1 DEF Under
  <2>2. Joins(p, s, e)
    <3>1. \A c \in DOMAIN s : s[c].type = "call" => e.type = "normal" /\ e.mask \subseteq s[c].mask
      BY <1>2, <1>4
    <3>2. Len(s) <= 2 * (WarpSize - Cardinality(e.mask)) + (IF e.type = "call" \/ CallIn(s) THEN 1 ELSE 0)
      BY <1>2
    <3> QED BY <1>1, <1>2, <2>1, <3>1, <3>2 DEF Joins
  <2>3. Nested(p, u)
    BY <1>1, <1>2, <2>2, NestedPush
  <2>4. /\ u # <<>> /\ Len(u) = Len(s) + 1 /\ DOMAIN u = 1 .. Len(s) + 1
        /\ u[Len(s) + 1] = e /\ \A n \in 1 .. Len(s) : u[n] = s[n]
    BY <1>1, <1>2, PushFacts
  <2>5. DoneOut(u, dn)
    <3>1. e.mask \cap dn = {}
      BY <1>1, <1>2
    <3> QED BY <1>1, <1>2, <3>1, DonePush
  <2>6. CallIn(u) <=> CallIn(s)
    BY <1>1, <1>2, CallPush
  <2>7. ASSUME NEW t \in Threads \ dn
        PROVE  Where(p, u, t, x[t], y[t]) /\ SyncAt(u, t, IF t \in h THEN j ELSE x[t])
    <3>1. Where(p, u, t, x[t], y[t])
      BY <1>1, <1>2, WherePush
    <3>2. SyncAt(s, t, IF t \in mask THEN j ELSE x[t])
      BY <1>1
    <3>3. CASE t \in g
      <4>1. t \notin h /\ x[t] = q
        BY <3>3
      <4>2. SyncAt(u, t, x[t])
        BY <1>1, <1>2, <3>3, <4>1, SyncPush
      <4> HIDE DEF h, u
      <4> QED BY <3>1, <4>1, <4>2
    <3>4. CASE t \notin g
      <4>1. t \in h <=> t \in mask
        BY <3>4
      <4> HIDE DEF h
      <4>2. SyncAt(s, t, IF t \in h THEN j ELSE x[t])
        BY <3>2, <4>1
      <4>3. SyncAt(u, t, IF t \in h THEN j ELSE x[t])
        BY <1>1, <1>2, <3>4, <4>2, SyncPush
      <4> QED BY <3>1, <4>3
    <3> QED BY <3>3, <3>4
  <2> HIDE DEF u
  <2>8. Gathered(p, u, h, j)
    <3>1. m \in DOMAIN u /\ u[m].pc = j /\ h \subseteq u[m].mask
      BY <1>3, <1>5, <2>4
    <3>2. \A k \in m + 1 .. Len(u) : u[k].mask \cap h = {}
      <4> SUFFICES ASSUME NEW k \in m + 1 .. Len(u) PROVE u[k].mask \cap h = {}
        OBVIOUS
      <4>1. CASE k = Len(s) + 1
        BY <1>2, <2>4, <4>1
      <4>2. CASE k # Len(s) + 1
        <5>1. k \in m + 1 .. Len(s) /\ k \in 1 .. Len(s)
          BY <1>5, <2>4, <4>2
        <5> QED BY <1>3, <2>4, <5>1
      <4> QED BY <4>1, <4>2
    <3>3. \A c \in DOMAIN u : u[c].type = "call" => h \subseteq u[c].mask
      <4> SUFFICES ASSUME NEW c \in DOMAIN u, u[c].type = "call" PROVE h \subseteq u[c].mask
        OBVIOUS
      <4>1. c # Len(s) + 1
        BY <1>2, <2>4
      <4>2. c \in 1 .. Len(s)
        BY <1>5, <2>4, <4>1
      <4> QED BY <1>4, <1>5, <2>4, <4>2
    <3> HIDE DEF h
    <3> QED BY <3>1, <3>2, <3>3 DEF Gathered
  <2>9. Parting(p, u, h, j, dn, x, y)
    <3>1. h \subseteq Threads \ dn
      BY <1>1
    <3> HIDE DEF h
    <3> QED BY <2>3, <2>4, <2>5, <2>7, <2>8, <3>1 DEF Parting
  <2> QED BY <1>5, <1>7, <2>4, <2>6, <2>9 DEF u, e
<1> QED BY <1>6, <1>7

\* The stack below the groups: all threads of the top can meet at j on it.
LEMMA PartFirst ==
    ASSUME IInv, done # Threads, NEW taken, Allowed(taken), program.code[Last(stack).pc].op = "bra",
           NEW j, Meets(program, Last(stack).pc, j), Last(stack).pc \in Function(program) => j # Exit
    PROVE  LET B == Waiting(j)
               M == Last(stack).mask
           IN  /\ Parting(program, B, M, j, done, Npc(taken), Ncalls(taken))
               /\ Len(B) <= 2 * (WarpSize - Cardinality(M)) + (IF CallIn(B) THEN 1 ELSE 0) + 1
               /\ Last(stack).type = "call" => j # Last(stack).recvg
<1> DEFINE r == Front(stack)
           top == Last(stack)
           i == top.pc
           M == top.mask
           B == Waiting(j)
           x == Npc(taken)
           y == Ncalls(taken)
<1>1. ~IsCall /\ ~IsReturn
  BY DEF IsCall, IsReturn
<1>2. /\ r \in Seq(Entries) /\ top \in Entries /\ stack = Append(r, top) /\ stack # <<>>
      /\ Nested(program, r) /\ Joins(program, r, top) /\ WellFormed(program) /\ i \in DOMAIN program.code
      /\ M # {} /\ M \subseteq Threads \ done /\ \A t \in M : pc[t] = i
      /\ \/ i \in Kernel(program) /\ ~CallIn(stack)
         \/ i \in Function(program)
  BY TopFacts
<1>3. Ndone(taken) = done
  BY <1>1, OrdinaryFacts
<1>4. /\ \A t \in Threads \ M : x[t] = pc[t] /\ y[t] = calls[t]
      /\ \A t \in M : x[t] \in Successors(program, i) \cap Part(program, i) /\ y[t] = calls[t]
  <2>1. M \ done = M
    BY <1>2
  <2> QED BY <1>1, <1>3, <2>1, OrdinaryFacts
<1>5. DoneOut(r, done)
  BY <1>1, <1>3, DoneBelow
<1>6. \A t \in Threads \ done : /\ Located(program, Append(r, top), t, pc[t], calls[t])
                                /\ t \notin M => Located(program, r, t, pc[t], calls[t])
  BY BeforeStep
<1>7. B = IF j # top.recvg THEN Append(r, [top EXCEPT !.pc = j]) ELSE r
  BY DEF Waiting
<1>8. j \in Nat /\ <<i, j>> \in Postdominators(program) /\ j # i
      /\ \A k : <<i, k>> \in Postdominators(program) /\ k # i => <<j, k>> \in Postdominators(program)
      /\ (i \in Function(program) => j # Exit)
  BY <1>2, Shape DEF Meets, Nodes
<1> HIDE DEF x, y, r, top, B
<1>9. r = <<>> => top.type = "normal" /\ top.recvg = NoPc
  BY <1>2 DEF Joins
<1>10. top.type = "call" => top.recvg = NoPc /\ i \in Function(program)
  <2> SUFFICES ASSUME top.type = "call" PROVE top.recvg = NoPc /\ i \in Function(program)
    OBVIOUS
  <2>1. PICK m \in DOMAIN r : Under(program, r, m, top)
    BY <1>2, <1>9 DEF Joins
  <2>2. top.recvg = NoPc
    BY <2>1 DEF Under
  <2>3. CallIn(stack)
    BY <1>2, CallPush
  <2> QED BY <1>2, <2>2, <2>3
<1>11. j # NoPc
  BY <1>8 DEF NoPc
<1>12. top.type = "normal" /\ r # <<>> => <<j, top.recvg>> \in Postdominators(program)
  <2> SUFFICES ASSUME top.type = "normal", r # <<>> PROVE <<j, top.recvg>> \in Postdominators(program)
    OBVIOUS
  <2>1. PICK m \in DOMAIN r : Under(program, r, m, top)
    BY <1>2 DEF Joins
  <2>2. <<i, top.recvg>> \in Postdominators(program) /\ i # top.recvg
    BY <2>1 DEF Under
  <2> QED BY <1>8, <2>2
<1>13. \A t \in M : Where(program, Append(r, top), t, x[t], y[t])
  <2> SUFFICES ASSUME NEW t \in M PROVE Where(program, Append(r, top), t, x[t], y[t])
    OBVIOUS
  <2>1. Where(program, Append(r, top), t, i, calls[t])
    BY <1>2, <1>6 DEF Located
  <2>2. x[t] \in Part(program, i) /\ y[t] = calls[t]
    BY <1>4
  <2> QED BY <1>2, <2>1, <2>2, WhereMove
<1>14. \A t \in Threads \ done : t \notin M => Where(program, r, t, x[t], y[t]) /\ SyncAt(r, t, x[t])
  BY <1>4, <1>6 DEF Located
<1>15. Len(r) <= 2 * (WarpSize - Cardinality(M)) + (IF top.type = "call" \/ CallIn(r) THEN 1 ELSE 0)
       /\ \A c \in DOMAIN r : r[c].type = "call" => top.type = "normal" /\ M \subseteq r[c].mask
  BY <1>2 DEF Joins
<1>16. Len(r) \in Nat /\ DOMAIN r = 1 .. Len(r) /\ Cardinality(M) \in Nat
  <2>1. IsFiniteSet(M)
    BY <1>2, ThreadsFacts, FS_Subset
  <2>2. Cardinality(M) \in Nat
    BY <2>1, FS_CardinalityType
  <2> QED BY <1>2, <2>2, LenProperties
<1>17. CASE j # top.recvg
  <2> DEFINE w == [top EXCEPT !.pc = j]
  <2>1. w = [top EXCEPT !.pc = j, !.mask = M]
    BY <1>2 DEF Entries
  <2>2. w \in Entries /\ Joins(program, r, w)
    <3>1. M \in SUBSET M /\ j \in Int
      BY <1>8
    <3>3. top.type = "call" => j # Exit
      BY <1>8, <1>10
    <3>2. [top EXCEPT !.pc = j, !.mask = M] \in Entries /\ Joins(program, r, [top EXCEPT !.pc = j, !.mask = M])
      BY <1>2, <1>12, <1>17, <3>1, <3>3, JoinsMove
    <3> QED BY <2>1, <3>2
  <2>3. w.mask = M /\ w.pc = j /\ w.type = top.type
    BY <1>2 DEF Entries
  <2> HIDE DEF w
  <2>4. B = Append(r, w)
    BY <1>7, <1>17 DEF w
  <2>5. Nested(program, B)
    BY <1>2, <2>2, <2>4, NestedPush
  <2>6. /\ B # <<>> /\ Len(B) = Len(r) + 1 /\ DOMAIN B = 1 .. Len(r) + 1
        /\ B[Len(r) + 1] = w /\ \A n \in 1 .. Len(r) : B[n] = r[n]
    BY <1>2, <2>2, <2>4, PushFacts
  <2>7. DoneOut(B, done)
    <3>1. w.mask \cap done = {}
      BY <1>2, <2>3
    <3> QED BY <1>2, <1>5, <2>2, <2>4, <3>1, DonePush
  <2>8. CallIn(B) <=> CallIn(r) \/ top.type = "call"
    BY <1>2, <2>2, <2>3, <2>4, CallPush
  <2>9. Gathered(program, B, M, j)
    <3>1. Len(r) + 1 \in DOMAIN B /\ B[Len(r) + 1].pc = j /\ M \subseteq B[Len(r) + 1].mask
      BY <1>16, <2>3, <2>6
    <3>2. \A k \in Len(r) + 1 + 1 .. Len(B) : B[k].mask \cap M = {}
      BY <1>16, <2>6
    <3>3. \A c \in DOMAIN B : B[c].type = "call" => M \subseteq B[c].mask
      <4> SUFFICES ASSUME NEW c \in DOMAIN B, B[c].type = "call" PROVE M \subseteq B[c].mask
        OBVIOUS
      <4>1. CASE c = Len(r) + 1
        BY <2>3, <2>6, <4>1
      <4>2. CASE c # Len(r) + 1
        <5>1. c \in 1 .. Len(r)
          BY <1>16, <2>6, <4>2
        <5> QED BY <1>15, <1>16, <2>6, <5>1
      <4> QED BY <4>1, <4>2
    <3> HIDE DEF M
    <3> QED BY <3>1, <3>2, <3>3 DEF Gathered
  <2>10. ASSUME NEW t \in Threads \ done
         PROVE  Where(program, B, t, x[t], y[t]) /\ SyncAt(B, t, IF t \in M THEN j ELSE x[t])
    <3>1. CASE t \in M
      <4>1. t \in top.mask \cap w.mask
        BY <2>3, <3>1
      <4>2. Where(program, B, t, x[t], y[t])
        BY <1>2, <1>13, <2>2, <2>3, <2>4, <4>1, WhereSame
      <4>3. SyncAt(B, t, j)
        BY <1>2, <2>2, <2>3, <2>4, <4>1, SyncPush
      <4> QED BY <3>1, <4>2, <4>3
    <3>2. CASE t \notin M
      <4>1. t \notin w.mask
        BY <2>3, <3>2
      <4>2. Where(program, B, t, x[t], y[t])
        BY <1>2, <1>14, <2>2, <2>4, <3>2, <4>1, WherePush
      <4>3. SyncAt(B, t, x[t])
        BY <1>2, <1>14, <2>2, <2>4, <3>2, <4>1, SyncPush
      <4> QED BY <3>2, <4>2, <4>3
    <3> QED BY <3>1, <3>2
  <2>11. Parting(program, B, M, j, done, x, y)
    <3> HIDE DEF M
    <3> QED BY <1>2, <2>5, <2>6, <2>7, <2>9, <2>10 DEF Parting
  <2>12. Len(B) <= 2 * (WarpSize - Cardinality(M)) + (IF CallIn(B) THEN 1 ELSE 0) + 1
    <3> DEFINE k == IF CallIn(B) THEN 1 ELSE 0
    <3>1. k \in {0, 1} /\ Len(r) <= 2 * (WarpSize - Cardinality(M)) + k
      BY <1>15, <2>8
    <3> HIDE DEF k, M
    <3>2. Len(B) <= 2 * (WarpSize - Cardinality(M)) + k + 1
      BY <1>16, <2>6, <3>1, WarpAssumption
    <3> QED BY <3>2 DEF k
  <2> QED BY <1>10, <1>11, <2>11, <2>12 DEF B, x, y, top
<1>18. CASE j = top.recvg
  <2>1. top.type = "normal" /\ r # <<>> /\ B = r
    BY <1>2, <1>7, <1>9, <1>10, <1>11, <1>18 DEF Entries
  <2>2. PICK m \in DOMAIN r : Under(program, r, m, top)
    BY <1>2, <2>1 DEF Joins
  <2>3. r[m].pc = j /\ M \subseteq r[m].mask /\ \A k \in m + 1 .. Len(r) : r[k].mask \cap M = {}
    BY <1>18, <2>1, <2>2 DEF Under
  <2>4. Gathered(program, r, M, j)
    <3> HIDE DEF M
    <3> QED BY <1>15, <2>2, <2>3 DEF Gathered
  <2>5. ASSUME NEW t \in Threads \ done
        PROVE  Where(program, r, t, x[t], y[t]) /\ SyncAt(r, t, IF t \in M THEN j ELSE x[t])
    <3>1. CASE t \in M
      <4>1. Where(program, r, t, x[t], y[t])
        BY <1>2, <1>13, <2>1, <3>1, WherePush
      <4>2. SyncAt(r, t, j)
        BY <1>2, <2>2, <2>3, <3>1, SyncPop
      <4> QED BY <3>1, <4>1, <4>2
    <3>2. CASE t \notin M
      BY <1>14, <3>2
    <3> QED BY <3>1, <3>2
  <2>6. Parting(program, r, M, j, done, x, y)
    <3> HIDE DEF M
    <3> QED BY <1>2, <1>5, <2>1, <2>4, <2>5 DEF Parting
  <2>7. Len(r) <= 2 * (WarpSize - Cardinality(M)) + (IF CallIn(r) THEN 1 ELSE 0) + 1
    <3> DEFINE k == IF CallIn(r) THEN 1 ELSE 0
    <3>1. k \in {0, 1} /\ Len(r) <= 2 * (WarpSize - Cardinality(M)) + k
      BY <1>15, <2>1
    <3> HIDE DEF k, M
    <3>2. Len(r) <= 2 * (WarpSize - Cardinality(M)) + k + 1
      BY <1>16, <3>1, WarpAssumption
    <3> QED BY <3>2 DEF k
  <2>8. Parting(program, B, M, j, done, x, y)
        /\ Len(B) <= 2 * (WarpSize - Cardinality(M)) + (IF CallIn(B) THEN 1 ELSE 0) + 1
    <3> HIDE DEF M
    <3> QED BY <2>1, <2>6, <2>7
  <2> QED BY <2>1, <2>8 DEF B, x, y, top
<1> QED BY <1>17, <1>18

LEMMA FewerThreads ==
    ASSUME NEW mask \in SUBSET Threads, NEW g \in SUBSET mask, NEW t \in mask, t \notin g
    PROVE  Cardinality(g) \in Nat /\ Cardinality(mask) \in Nat /\ Cardinality(g) + 1 <= Cardinality(mask)
<1>1. IsFiniteSet(mask)
  BY ThreadsFacts, FS_Subset
<1>2. IsFiniteSet(mask \ {t}) /\ Cardinality(mask \ {t}) = Cardinality(mask) - 1
  BY <1>1, FS_RemoveElement
<1>3. g \in SUBSET (mask \ {t})
  OBVIOUS
<1>4. Cardinality(g) <= Cardinality(mask \ {t}) /\ IsFiniteSet(g)
  BY <1>2, <1>3, FS_Subset
<1>5. Cardinality(g) \in Nat /\ Cardinality(mask) \in Nat
  BY <1>1, <1>4, FS_CardinalityType
<1> QED BY <1>2, <1>4, <1>5

\* The threads of the top part: each group gets an entry on the stack below.
LEMMA KeptBySplit ==
    ASSUME IInv, done # Threads, NEW taken, Allowed(taken), program.code[Last(stack).pc].op = "bra",
           NEW b, b # Last(stack).pc + 1, \A t \in Active(Ndone(taken)) : Npc(taken)[t] \in {Last(stack).pc + 1, b},
           Group(Npc(taken), Ndone(taken), Last(stack).pc + 1) # {}, Group(Npc(taken), Ndone(taken), b) # {}
    PROVE  LET i == Last(stack).pc
               x == Npc(taken)
               y == Ncalls(taken)
               nd == Ndone(taken)
           IN  Fits(Update(stack, i, x, nd, ReconvergeAt(i, x, y, nd)), nd, x, y)
<1> DEFINE top == Last(stack)
           i == top.pc
           x == Npc(taken)
           y == Ncalls(taken)
           nd == Ndone(taken)
           j == ReconvergeAt(i, x, y, nd)
           M == top.mask
           B == Waiting(j)
           a == i + 1
           g == Group(x, nd, a)
           h == Group(x, nd, b)
<1>1. ~IsCall /\ ~IsReturn
  BY DEF IsCall, IsReturn
<1>2. /\ stack \in Seq(Entries) /\ stack # <<>> /\ top \in Entries /\ WellFormed(program) /\ i \in DOMAIN program.code
      /\ Joins(program, Front(stack), top) /\ M # {} /\ M \subseteq Threads \ done
  BY TopFacts
<1>3. nd = done
  BY <1>1, OrdinaryFacts
<1>4. Active(nd) = M
  BY <1>2, <1>3 DEF Active
<1>5. \A t \in M : x[t] \in Successors(program, i) \cap Part(program, i)
  <2>1. M \ nd = M
    BY <1>2, <1>3
  <2> QED BY <1>1, <2>1, OrdinaryFacts
<1>6. Meets(program, i, j) /\ (i \in Function(program) => j # Exit)
  BY ReconvergesAt
<1>7. /\ Parting(program, B, M, j, done, x, y)
      /\ Len(B) <= 2 * (WarpSize - Cardinality(M)) + (IF CallIn(B) THEN 1 ELSE 0) + 1
      /\ top.type = "call" => j # top.recvg
  BY <1>6, PartFirst
<1>8. g # {} /\ h # {} /\ \A t \in M : x[t] \in {a, b}
  BY <1>4
<1>9. g = {t \in M : x[t] = a} /\ h = {t \in M : x[t] = b}
  BY <1>4 DEF Group
<1> HIDE DEF g, h, x, y, nd, j, B
<1>10. j \in Nat /\ <<i, j>> \in Postdominators(program) /\ j # i
       /\ \A k : <<i, k>> \in Postdominators(program) /\ k # i => <<j, k>> \in Postdominators(program)
  BY <1>2, <1>6, Shape DEF Meets, Nodes
<1>11. i \in Nat
  BY <1>2, Shape
<1>12. a \in Successors(program, i) \cap Part(program, i) /\ b \in Successors(program, i) \cap Part(program, i)
  BY <1>5, <1>8, <1>9
<1>13. ASSUME NEW q \in {a, b}
       PROVE  q \in Nat /\ <<q, j>> \in Postdominators(program) /\ (Goes(j, q) <=> q # j)
  <2> HIDE DEF a
  <2>1. q \in Successors(program, i) \cap Part(program, i)
    BY <1>12
  <2>2. /\ q \in Nat
        /\ top.type = "normal" /\ Front(stack) # <<>> => <<q, top.recvg>> \in Postdominators(program)
        /\ Front(stack) = <<>> => top.type = "normal" /\ top.recvg = NoPc /\ q # top.recvg
    BY <2>1, MayMove
  <2>3. <<q, j>> \in Postdominators(program)
    BY <1>2, <1>10, <2>1, PdomFacts
  <2>4. ASSUME q = top.recvg, top.type = "normal" PROVE q = j
    <3>1. PICK m \in DOMAIN Front(stack) : Under(program, Front(stack), m, top)
      BY <1>2, <2>2, <2>4 DEF Joins
    <3>2. <<i, top.recvg>> \in Postdominators(program) /\ i # top.recvg
      BY <2>4, <3>1 DEF Under
    <3>3. <<j, q>> \in Postdominators(program)
      BY <1>10, <2>4, <3>2
    <3> QED BY <1>2, <2>3, <3>3, PdomOneWay
  <2>5. Goes(j, q) <=> q # j
    <3>1. top.type = "normal" \/ top.type = "call"
      BY <1>2 DEF Entries
    <3> QED BY <2>4, <3>1 DEF Goes
  <2> QED BY <2>2, <2>3, <2>5
<1>14. a # b /\ a \in Nat /\ b \in Nat
  <2>1. a # b
    OBVIOUS
  <2> HIDE DEF a
  <2> QED BY <1>13, <2>1
<1> DEFINE C(q) == Branch(x, nd, j, q)
           u == IF a # j THEN Append(B, C(a)) ELSE B
           v == IF b # j THEN Append(u, C(b)) ELSE u
<1>15. C(a) = Entry(a, g, j, "normal") /\ C(b) = Entry(b, h, j, "normal")
  BY DEF Branch, g, h
<1>16. Update(stack, i, x, nd, j) = v
  <2>1. Update(stack, i, x, nd, j) =
          LET one == IF Goes(j, a) THEN Append(B, C(a)) ELSE B
          IN  IF Goes(j, b) THEN Append(one, C(b)) ELSE one
    <3>1. i \in Int /\ j \in Int /\ b \in Int
      BY <1>10, <1>11, <1>14
    <3>2. \A t \in Active(nd) : x[t] \in {i + 1, b}
      BY <1>4, <1>8
    <3>3. Group(x, nd, i + 1) # {} /\ Group(x, nd, b) # {}
      BY <1>8 DEF g, h
    <3>4. program.code[i].op = "bra"
      OBVIOUS
    <3>5. Last(stack).type = "call" => j # Last(stack).recvg
      BY <1>7
    <3>6. b # i + 1
      OBVIOUS
    <3>7. stack \in Seq(Entries) /\ stack # <<>>
      BY <1>2
    <3> HIDE DEF i
    <3>8. Update(stack, i, x, nd, j) =
            LET below == Waiting(j)
                one   == IF Goes(j, i + 1) THEN Append(below, Branch(x, nd, j, i + 1)) ELSE below
            IN  IF Goes(j, b) THEN Append(one, Branch(x, nd, j, b)) ELSE one
      BY <3>1, <3>2, <3>3, <3>4, <3>5, <3>6, <3>7, UpdateSplit, SMTT(30)
    <3> QED BY <3>8 DEF B
  <2>2. (Goes(j, a) <=> a # j) /\ (Goes(j, b) <=> b # j)
    <3> HIDE DEF a
    <3> QED BY <1>13
  <2> HIDE DEF C, a
  <2> QED BY <2>1, <2>2
<1> HIDE DEF a, C
<1>17. PICK t1, t2 : t1 \in g /\ t2 \in h
  BY <1>8
<1>18. g \in SUBSET M /\ h \in SUBSET M /\ M \in SUBSET Threads /\ h \in SUBSET (M \ g) /\ (M \ g) \ h = {}
       /\ t1 \in M /\ t1 \notin h /\ t2 \in M /\ t2 \notin g
  BY <1>2, <1>8, <1>9, <1>14, <1>17
<1>19. /\ Cardinality(g) \in Nat /\ Cardinality(h) \in Nat /\ Cardinality(M) \in Nat
       /\ Cardinality(g) + 1 <= Cardinality(M) /\ Cardinality(h) + 1 <= Cardinality(M)
  <2> HIDE DEF M
  <2> QED BY <1>18, FewerThreads
<1>20. Len(B) \in Nat
  BY <1>7, LenProperties DEF Parting, Nested
<1> DEFINE k == IF CallIn(B) THEN 1 ELSE 0
           G == Cardinality(g)
           H == Cardinality(h)
<1>21. k \in {0, 1} /\ Len(B) <= 2 * (WarpSize - Cardinality(M)) + k + 1
  BY <1>7
<1> HIDE DEF M, top, i
<1>22. Len(B) <= 2 * (WarpSize - G) + k /\ Len(B) + 1 <= 2 * (WarpSize - H) + k
  <2> DEFINE c == Cardinality(M)
  <2>1. /\ c \in Nat /\ G \in Nat /\ H \in Nat /\ k \in Nat /\ G + 1 <= c /\ H + 1 <= c
        /\ Len(B) <= 2 * (WarpSize - c) + k + 1
    BY <1>19, <1>21
  <2> HIDE DEF c, G, H, k
  <2> QED BY <1>20, <2>1, WarpAssumption
<1> HIDE DEF k, G, H
<1>23. /\ Parting(program, u, M \ g, j, done, x, y)
       /\ CallIn(u) <=> CallIn(B)
       /\ Len(u) <= Len(B) + 1
  <2>1. \A t \in g : x[t] = a
    BY <1>9
  <2>2. a # j => <<a, j>> \in Postdominators(program)
    BY <1>13
  <2>3. Len(B) <= 2 * (WarpSize - Cardinality(g)) + (IF CallIn(B) THEN 1 ELSE 0)
    BY <1>22 DEF k, G
  <2>4. a \in Int /\ j \in Int
    BY <1>10, <1>14
  <2>5. u = IF a # j THEN Append(B, Entry(a, g, j, "normal")) ELSE B
    BY <1>15
  <2> HIDE DEF u
  <2>6. Parting(program, B, M, j, done, x, y) /\ g \in SUBSET M /\ g # {}
    BY <1>7, <1>8, <1>18
  <2>7. Parting(program, u, M \ g, j, done, x, y)
    BY <2>1, <2>2, <2>3, <2>4, <2>5, <2>6, PartGroup
  <2>8. CallIn(u) <=> CallIn(B)
    <3>1. CASE a = j
      <4>1. u = B
        BY <2>5, <3>1
      <4> QED BY <4>1
    <3>2. CASE a # j
      <4> DEFINE e == Entry(a, g, j, "normal")
      <4>1. u = Append(B, e)
        BY <2>5, <3>2
      <4>2. B \in Seq(Entries) /\ e \in Entries /\ e.type = "normal"
        <5>1. g \subseteq Threads /\ a \in Int /\ j \in Int
          BY <1>18, <2>4
        <5>2. B \in Seq(Entries)
          BY <1>7 DEF Parting, Nested
        <5> QED BY <5>1, <5>2 DEF Entry, Entries
      <4> HIDE DEF e
      <4> QED BY <4>1, <4>2, CallPush
    <3> QED BY <3>1, <3>2
  <2>9. Len(u) <= Len(B) + 1
    BY <2>1, <2>2, <2>3, <2>4, <2>5, <2>6, PartGroup
  <2> QED BY <2>7, <2>8, <2>9
<1>24. Parting(program, v, (M \ g) \ h, j, done, x, y)
  <2>1. \A t \in h : x[t] = b
    BY <1>9
  <2>2. b # j => <<b, j>> \in Postdominators(program)
    BY <1>13
  <2>3. Len(u) <= 2 * (WarpSize - Cardinality(h)) + (IF CallIn(u) THEN 1 ELSE 0)
    <3>1. Len(u) \in Nat
      BY <1>23, LenProperties DEF Parting, Nested
    <3> HIDE DEF u
    <3>2. Len(u) <= 2 * (WarpSize - H) + k
      BY <1>19, <1>20, <1>21, <1>22, <1>23, <3>1, WarpAssumption, SMTT(30) DEF H
    <3> QED BY <1>23, <3>2 DEF H, k
  <2>4. b \in Int /\ j \in Int
    BY <1>10, <1>14
  <2> HIDE DEF u
  <2>5. v = IF b # j THEN Append(u, Entry(b, h, j, "normal")) ELSE u
    BY <1>15
  <2> DEFINE rest == M \ g
  <2>6. Parting(program, u, rest, j, done, x, y) /\ h \in SUBSET rest /\ h # {}
    BY <1>8, <1>18, <1>23
  <2> HIDE DEF v, rest
  <2>7. Parting(program, v, rest \ h, j, done, x, y)
    BY <2>1, <2>2, <2>3, <2>4, <2>5, <2>6, PartGroup
  <2> QED BY <2>7 DEF rest
<1>25. Parting(program, v, {}, j, nd, x, y)
  <2> HIDE DEF v
  <2> QED BY <1>3, <1>18, <1>24
<1>26. Fits(v, nd, x, y)
  <2> HIDE DEF v
  <2> QED BY <1>25 DEF Parting, Fits, Located
<1>27. Fits(Update(stack, i, x, nd, j), nd, x, y)
  <2> HIDE DEF v
  <2> QED BY <1>16, <1>26
<1> QED BY <1>27 DEF i, top, x, y, nd, j

----------------------------------------------------------------------------
(* The call and the return.                                                *)

\* Neither diverges, and no thread exits.
LEMMA AllTaken ==
    ASSUME IInv, done # Threads, NEW taken, Allowed(taken), IsCall \/ IsReturn
    PROVE  LET i == Last(stack).pc
               M == Last(stack).mask
           IN  /\ taken = M /\ Ndone(taken) = done /\ Active(Ndone(taken)) = M
               /\ \A t \in Threads : t \notin M => Npc(taken)[t] = pc[t] /\ Ncalls(taken)[t] = calls[t]
               /\ IsCall => /\ i \in Kernel(program) /\ program.main + 1 \in Function(program)
                            /\ \A t \in M : Npc(taken)[t] = program.main + 1 /\ Ncalls(taken)[t] = Append(calls[t], i + 1)
               /\ IsReturn => /\ i = Len(program.code)
                              /\ \A t \in M : Npc(taken)[t] = Last(calls[t]) /\ Ncalls(taken)[t] = Front(calls[t])
<1> DEFINE i == Last(stack).pc
           M == Last(stack).mask
           c == program.code[i]
<1>1. /\ WellFormed(program) /\ i \in DOMAIN program.code /\ M \subseteq Threads \ done /\ \A t \in M : pc[t] = i
      /\ i \in Function(program) => \A t \in M : \E z \in Int : calls[t] = <<Exit, z>>
  <2>1. ~(i \in Kernel(program) /\ i \in Function(program))
    BY TopFacts, Shape DEF Kernel, Function
  <2> QED BY <2>1, TopFacts
<1>2. program.main \in Nat /\ program.main >= 1 /\ Len(program.code) \in Nat /\ DOMAIN program.code = 1 .. Len(program.code)
  BY <1>1, Shape
<1>3. c.op = "call" => i < program.main /\ program.main < Len(program.code) /\ ~c.pred
  BY <1>1 DEF WellFormed
<1>4. i > program.main => (c.op = "ret" <=> i = Len(program.code)) /\ (c.op = "ret" => ~c.pred)
  BY <1>1 DEF WellFormed
<1>5. IsCall <=> c.op = "call"
  BY DEF IsCall
<1>6. IsReturn <=> c.op = "ret" /\ i \in Function(program)
  BY DEF IsReturn
<1>7. \A t \in M \ taken : program.code[pc[t]].pred
  BY DEF Allowed
<1>8. taken \subseteq M
  BY DEF Allowed
<1>9. \A t \in M : NextPc(t, TRUE) = IF c.op = "call" THEN program.main + 1 ELSE IF c.op = "ret" THEN Last(calls[t]) ELSE NextPc(t, TRUE)
  BY <1>1 DEF NextPc
<1>10. \A t \in M : NextCalls(t, TRUE) = IF c.op = "call" THEN Append(calls[t], i + 1) ELSE IF c.op = "ret" THEN Front(calls[t]) ELSE NextCalls(t, TRUE)
  BY <1>1 DEF NextCalls
<1>11. \A t \in M : Exits(t) <=> c.op = "exit" \/ (c.op = "ret" /\ Len(calls[t]) = 1)
  BY <1>1 DEF Exits
<1>12. /\ Npc(taken) = [t \in Threads |-> IF t \in M THEN NextPc(t, t \in taken) ELSE pc[t]]
       /\ Ncalls(taken) = [t \in Threads |-> IF t \in M THEN NextCalls(t, t \in taken) ELSE calls[t]]
  BY DEF Npc, Ncalls
<1>13. Active(Ndone(taken)) = M \ Ndone(taken)
  BY DEF Active
<1> HIDE DEF i, M, c
<1>14. i \in Function(program) => i > program.main
  BY <1>2 DEF Function
<1>15. ~c.pred
  BY <1>3, <1>4, <1>5, <1>6, <1>14
<1>16. taken = M
  BY <1>1, <1>7, <1>8, <1>15 DEF c
<1>17. \A t \in M : ~Exits(t)
  <2>1. ASSUME NEW t \in M, i \in Function(program) PROVE Len(calls[t]) = 2
    <3>1. PICK z \in Int : calls[t] = <<Exit, z>>
      BY <1>1, <2>1
    <3> QED BY <3>1
  <2> QED BY <1>5, <1>6, <1>11, <2>1
<1>18. Ndone(taken) = done
  BY <1>16, <1>17 DEF Ndone
<1>19. Active(Ndone(taken)) = M
  BY <1>1, <1>13, <1>18
<1>20. \A t \in Threads : t \notin M => Npc(taken)[t] = pc[t] /\ Ncalls(taken)[t] = calls[t]
  BY <1>12
<1>21. \A t \in M : t \in Threads /\ (t \in taken <=> TRUE)
  BY <1>1, <1>16
<1>22. \A t \in M : Npc(taken)[t] = NextPc(t, TRUE) /\ Ncalls(taken)[t] = NextCalls(t, TRUE)
  <2> SUFFICES ASSUME NEW t \in M PROVE Npc(taken)[t] = NextPc(t, TRUE) /\ Ncalls(taken)[t] = NextCalls(t, TRUE)
    OBVIOUS
  <2>1. t \in Threads /\ (t \in taken) = TRUE
    BY <1>21
  <2>2. Npc(taken)[t] = NextPc(t, t \in taken) /\ Ncalls(taken)[t] = NextCalls(t, t \in taken)
    BY <1>12, <2>1
  <2> QED BY <2>1, <2>2
<1>23. IsCall => /\ i \in Kernel(program) /\ program.main + 1 \in Function(program)
                 /\ \A t \in M : Npc(taken)[t] = program.main + 1 /\ Ncalls(taken)[t] = Append(calls[t], i + 1)
  <2> SUFFICES ASSUME IsCall
               PROVE  /\ i \in Kernel(program) /\ program.main + 1 \in Function(program)
                      /\ \A t \in M : Npc(taken)[t] = program.main + 1 /\ Ncalls(taken)[t] = Append(calls[t], i + 1)
    OBVIOUS
  <2>1. i < program.main /\ program.main < Len(program.code) /\ i \in 1 .. Len(program.code)
    BY <1>1, <1>2, <1>3, <1>5 DEF i
  <2>2. i \in Kernel(program) /\ program.main + 1 \in Function(program)
    BY <1>2, <2>1 DEF Kernel, Function
  <2> QED BY <1>5, <1>9, <1>10, <1>22, <2>2
<1>24. IsReturn => /\ i = Len(program.code)
                   /\ \A t \in M : Npc(taken)[t] = Last(calls[t]) /\ Ncalls(taken)[t] = Front(calls[t])
  BY <1>4, <1>6, <1>9, <1>10, <1>14, <1>22
<1> QED BY <1>16, <1>18, <1>19, <1>20, <1>23, <1>24 DEF i, M

\* A call puts the function on top of the stack.
LEMMA KeptByCall ==
    ASSUME IInv, done # Threads, NEW taken, Allowed(taken), IsCall
    PROVE  Fits(Append(stack, Entry(program.main + 1, Last(stack).mask, NoPc, "call")), done, Npc(taken), Ncalls(taken))
<1> DEFINE r == Front(stack)
           top == Last(stack)
           i == top.pc
           M == top.mask
           q == program.main + 1
           e == Entry(q, M, NoPc, "call")
           u == Append(stack, e)
           x == Npc(taken)
           y == Ncalls(taken)
<1>1. /\ stack \in Seq(Entries) /\ r \in Seq(Entries) /\ top \in Entries /\ stack = Append(r, top) /\ stack # <<>>
      /\ Joins(program, r, top) /\ WellFormed(program)
      /\ M # {} /\ M \subseteq Threads \ done
  BY TopFacts
<1>2. /\ \A t \in Threads : t \notin M => x[t] = pc[t] /\ y[t] = calls[t]
      /\ i \in Kernel(program) /\ q \in Function(program)
      /\ \A t \in M : x[t] = q /\ y[t] = Append(calls[t], i + 1)
  BY AllTaken
<1>3. ~CallIn(stack) /\ \A t \in Threads \ done : calls[t] = <<Exit>>
  <2>1. i \notin Function(program)
    BY <1>1, <1>2, Shape DEF Kernel, Function
  <2> QED BY <2>1, TopFacts
<1>4. Nested(program, stack) /\ DoneOut(stack, done) /\ \A t \in Threads \ done : Located(program, stack, t, pc[t], calls[t])
  BY DEF IInv
<1>5. program.code[i].op = "call"
  BY DEF IsCall
<1>6. q \in Nat /\ q # Exit /\ i \in Nat
  BY <1>1, <1>2, Shape DEF Exit, Kernel
<1>7. Last(stack) = top
  OBVIOUS
<1> HIDE DEF r, top, x, y, q
<1>8. e \in Entries /\ e.pc = q /\ e.mask = M /\ e.recvg = NoPc /\ e.type = "call"
  BY <1>1, <1>6 DEF Entry, Entries, NoPc
<1> HIDE DEF e
<1>9. Len(r) \in Nat /\ Len(stack) = Len(r) + 1 /\ DOMAIN stack = 1 .. Len(r) + 1 /\ stack[Len(stack)] = top
  BY <1>1, PushFacts
<1>10. Joins(program, stack, e)
  <2>1. Under(program, stack, Len(stack), e)
    <3>1. e.mask \subseteq stack[Len(stack)].mask /\ e.mask = stack[Len(stack)].mask
      BY <1>8, <1>9
    <3>2. \A k \in Len(stack) + 1 .. Len(stack) : stack[k].mask \cap e.mask = {}
      BY <1>9
    <3>3. stack[Len(stack)].pc \in Kernel(program) /\ program.code[stack[Len(stack)].pc].op = "call"
      BY <1>2, <1>5, <1>9
    <3> QED BY <1>6, <1>8, <3>1, <3>2, <3>3 DEF Under
  <2>2. Len(stack) \in DOMAIN stack
    BY <1>9
  <2>3. \A c \in DOMAIN stack : stack[c].type # "call"
    BY <1>3 DEF CallIn
  <2>4. Len(stack) <= 2 * (WarpSize - Cardinality(M)) + 1
    <3>1. ~(top.type = "call" \/ CallIn(r))
      BY <1>1, <1>3, CallPush
    <3>2. Len(r) <= 2 * (WarpSize - Cardinality(M)) + (IF top.type = "call" \/ CallIn(r) THEN 1 ELSE 0)
      BY <1>1 DEF Joins
    <3>3. Len(r) <= 2 * (WarpSize - Cardinality(M)) + 0
      BY <3>1, <3>2
    <3>4. IsFiniteSet(M)
      BY <1>1, ThreadsFacts, FS_Subset
    <3>5. Cardinality(M) \in Nat
      BY <3>4, FS_CardinalityType
    <3> HIDE DEF M
    <3> QED BY <1>9, <3>3, <3>5, WarpAssumption
  <2> QED BY <1>1, <1>8, <2>1, <2>2, <2>3, <2>4 DEF Joins
<1>11. Nested(program, u) /\ u # <<>>
  BY <1>1, <1>4, <1>8, <1>10, NestedPush, PushFacts
<1>12. DoneOut(u, done)
  <2>1. e.mask \cap done = {}
    BY <1>1, <1>8
  <2> QED BY <1>1, <1>4, <1>8, <2>1, DonePush
<1>13. ASSUME NEW t \in Threads \ done PROVE Located(program, u, t, x[t], y[t])
  <2>1. CASE t \in M
    <3>1. InBase(u, t)
      <4>1. InBase(stack, t)
        BY <1>4 DEF Located, Where
      <4> QED BY <1>1, <1>8, <4>1, BasePush
    <3>2. Called(u, t, i + 1)
      <4> DEFINE z == i + 1
      <4>1. z = Last(stack).pc + 1
        BY <1>7
      <4> HIDE DEF z
      <4>2. Called(u, t, z) <=> \/ Called(stack, t, z)
                                \/ stack # <<>> /\ e.type = "call" /\ t \in e.mask /\ z = Last(stack).pc + 1
        BY <1>1, <1>8, CallPush
      <4>3. Called(u, t, z)
        BY <1>1, <1>8, <2>1, <4>1, <4>2
      <4> QED BY <4>3 DEF z
    <3>3. y[t] = <<Exit, i + 1>>
      <4>1. y[t] = Append(calls[t], i + 1) /\ calls[t] = <<Exit>>
        BY <1>2, <1>3, <2>1
      <4>2. i + 1 \in Int /\ Exit \in Int
        BY <1>6 DEF Exit
      <4> DEFINE z == i + 1
      <4> HIDE DEF z
      <4>3. Append(<<Exit>>, z) = <<Exit>> \o <<z>> /\ <<Exit>> \o <<z>> = <<Exit, z>>
        <5>1. <<Exit>> \in Seq(Int) /\ z \in Int
          BY <4>2 DEF z
        <5> QED BY <4>2, <5>1, AppendIsConcat, Pair
      <4> QED BY <4>1, <4>3 DEF z
    <3>4. Where(program, u, t, x[t], y[t])
      <4>1. x[t] \in Function(program) /\ i + 1 \in Int
        BY <1>2, <1>6, <2>1
      <4> HIDE DEF u
      <4> QED BY <3>1, <3>2, <3>3, <4>1 DEF Where
    <3>5. SyncAt(u, t, x[t])
      BY <1>1, <1>2, <1>8, <2>1, SyncPush
    <3> QED BY <3>4, <3>5 DEF Located
  <2>2. CASE t \notin M
    <3>1. Located(program, stack, t, x[t], y[t])
      BY <1>2, <1>4, <2>2
    <3> QED BY <1>1, <1>8, <2>2, <3>1, LocatedPush
  <2> QED BY <2>1, <2>2
<1>14. Fits(u, done, x, y)
  <2> HIDE DEF u
  <2> QED BY <1>11, <1>12, <1>13 DEF Fits
<1> QED BY <1>14 DEF u, e, q, x, y, top

\* A warp that returns is whole: the top is the call, right above its caller.
LEMMA ReturnFacts ==
    ASSUME IInv, done # Threads, IsReturn, Last(stack).pc = Len(program.code)
    PROVE  LET r      == Front(stack)
               top    == Last(stack)
               caller == Last(r)
           IN  /\ top.type = "call" /\ r # <<>> /\ ~CallIn(r)
               /\ Nested(program, Front(r)) /\ Joins(program, Front(r), caller)
               /\ caller.mask = top.mask /\ caller.type = "normal" /\ caller.pc \in Kernel(program)
               /\ caller.pc + 1 \in Kernel(program) /\ Successors(program, caller.pc) = {caller.pc + 1}
               /\ \A t \in top.mask : calls[t] = <<Exit, caller.pc + 1>>
<1> DEFINE r      == Front(stack)
           top    == Last(stack)
           caller == Last(r)
           i      == top.pc
           M      == top.mask
<1>1. /\ r \in Seq(Entries) /\ top \in Entries /\ stack = Append(r, top)
      /\ Nested(program, r) /\ Joins(program, r, top) /\ WellFormed(program) /\ i \in DOMAIN program.code
  BY TopFacts
<1>2. CallIn(stack) /\ \A t \in M : \E z \in Int : calls[t] = <<Exit, z>> /\ Called(stack, t, z)
  <2>1. i \in Function(program)
    BY DEF IsReturn
  <2>2. ~(i \in Kernel(program) /\ i \in Function(program))
    BY <1>1, Shape DEF Kernel, Function
  <2> QED BY <2>1, <2>2, TopFacts
<1>3. i = Len(program.code) /\ program.code[i].op = "ret" /\ i \in Function(program)
  BY DEF IsReturn
<1> HIDE DEF r, top, caller, i
<1>4. Successors(program, i) = {Exit}
  <2>1. i > program.main
    BY <1>1, <1>3, Shape DEF Function
  <2>2. ~program.code[i].pred
    BY <1>1, <1>3, <2>1 DEF WellFormed
  <2> QED BY <1>3, <2>2 DEF Successors
<1>5. CallIn(stack) <=> CallIn(r) \/ top.type = "call"
  BY <1>1, CallPush
<1>6. top.type = "call"
  <2> SUFFICES ASSUME top.type # "call" PROVE FALSE
    OBVIOUS
  <2>1. top.type = "normal" /\ CallIn(r)
    BY <1>1, <1>2, <1>5 DEF Entries
  <2>2. r # <<>>
    <3>1. r = <<>> => DOMAIN r = {}
      OBVIOUS
    <3> QED BY <2>1, <3>1 DEF CallIn
  <2>3. PICK m \in DOMAIN r : Under(program, r, m, top)
    BY <1>1, <2>2 DEF Joins
  <2>4. <<i, top.recvg>> \in Postdominators(program) /\ i # top.recvg
    BY <2>1, <2>3 DEF Under, i
  <2>5. <<Exit, top.recvg>> \in Postdominators(program)
    BY <1>1, <1>4, <2>4, PdomFacts
  <2>6. top.recvg = Exit
    BY <1>1, <2>5, PdomFacts
  <2> QED BY <1>1, <2>1, <2>2, <2>6, ExitBelow
<1>7. r # <<>> /\ \A c \in DOMAIN r : r[c].type # "call"
  BY <1>1, <1>6 DEF Joins
<1>8. ~CallIn(r)
  BY <1>7 DEF CallIn
<1>9. PICK m \in DOMAIN r : Under(program, r, m, top)
  BY <1>1, <1>7 DEF Joins
<1>10. m = Len(r) /\ M = r[m].mask /\ r[m].pc \in Kernel(program) /\ program.code[r[m].pc].op = "call"
  BY <1>6, <1>9 DEF Under, M
<1>11. caller = r[m] /\ caller.type = "normal"
  <2>1. caller = r[m]
    BY <1>10 DEF caller, Last
  <2>2. caller \in Entries
    BY <1>1, <1>7, PopFacts DEF caller
  <2> QED BY <1>7, <1>9, <2>1, <2>2 DEF Entries
<1>12. Nested(program, Front(r)) /\ Joins(program, Front(r), caller)
  BY <1>1, <1>7, NestedPop DEF caller
<1> DEFINE c == caller.pc
<1>13. c \in Kernel(program) /\ program.code[c].op = "call"
  BY <1>10, <1>11
<1> HIDE DEF c
<1>14. Successors(program, c) = {c + 1}
  BY <1>13 DEF Successors
<1>15. c + 1 \in Kernel(program)
  <2>1. program.main \in Nat /\ Len(program.code) \in Nat /\ program.main <= Len(program.code)
        /\ DOMAIN program.code = 1 .. Len(program.code)
    BY <1>1, Shape
  <2>2. c \in DOMAIN program.code /\ c \in Nat /\ c >= 1
    BY <1>13, <2>1 DEF Kernel
  <2>3. c < program.main
    BY <1>1, <1>13, <2>2 DEF WellFormed
  <2> QED BY <2>1, <2>2, <2>3 DEF Kernel
<1>16. ASSUME NEW t \in M PROVE calls[t] = <<Exit, c + 1>>
  <2>1. PICK z \in Int : calls[t] = <<Exit, z>> /\ Called(stack, t, z)
    BY <1>2
  <2>2. ~Called(r, t, z)
    BY <1>7 DEF Called
  <2>3. Called(stack, t, z) <=> \/ Called(r, t, z)
                                \/ r # <<>> /\ top.type = "call" /\ t \in top.mask /\ z = Last(r).pc + 1
    BY <1>1, CallPush
  <2>4. z = c + 1
    BY <2>1, <2>2, <2>3 DEF c, caller
  <2> QED BY <2>1, <2>4
<1> QED BY <1>6, <1>7, <1>8, <1>10, <1>11, <1>12, <1>13, <1>14, <1>15, <1>16 DEF c, caller, r, top

\* The function returns: its entry is gone, and its caller goes on.
LEMMA KeptByReturn ==
    ASSUME IInv, done # Threads, NEW taken, Allowed(taken), IsReturn
    PROVE  /\ Last(stack).type = "call"
           /\ \A t \in Last(stack).mask : Npc(taken)[t] = Last(Front(stack)).pc + 1
           /\ Fits(Returned(Front(stack), Last(Front(stack)).pc + 1), done, Npc(taken), Ncalls(taken))
<1> DEFINE r      == Front(stack)
           top    == Last(stack)
           rr     == Front(r)
           caller == Last(r)
           z      == caller.pc + 1
           M      == top.mask
           x      == Npc(taken)
           y      == Ncalls(taken)
<1>1. /\ r \in Seq(Entries) /\ top \in Entries /\ stack = Append(r, top) /\ Nested(program, r)
      /\ WellFormed(program) /\ M # {} /\ M \subseteq Threads \ done
  BY TopFacts
<1>2. /\ Last(stack).pc = Len(program.code)
      /\ \A t \in Threads : t \notin M => x[t] = pc[t] /\ y[t] = calls[t]
      /\ \A t \in M : x[t] = Last(calls[t]) /\ y[t] = Front(calls[t])
  BY AllTaken
<1>3. /\ top.type = "call" /\ r # <<>> /\ ~CallIn(r)
      /\ Nested(program, rr) /\ Joins(program, rr, caller)
      /\ caller.mask = M /\ caller.type = "normal" /\ caller.pc \in Kernel(program)
      /\ z \in Kernel(program) /\ Successors(program, caller.pc) = {z}
      /\ \A t \in M : calls[t] = <<Exit, z>>
  BY <1>2, ReturnFacts
<1>4. rr \in Seq(Entries) /\ caller \in Entries /\ r = Append(rr, caller)
  BY <1>1, <1>3, PopFacts
<1>5. DoneOut(stack, done)
  BY DEF IInv
<1>6. \A t \in Threads \ done : Located(program, Append(r, top), t, pc[t], calls[t])
  BY BeforeStep
<1> HIDE DEF x, y, z
<1>7. \A t \in M : x[t] = z /\ y[t] = <<Exit>>
  <2> SUFFICES ASSUME NEW t \in M PROVE x[t] = z /\ y[t] = <<Exit>>
    OBVIOUS
  <2>1. calls[t] = <<Exit, z>> /\ x[t] = Last(calls[t]) /\ y[t] = Front(calls[t])
    BY <1>2, <1>3
  <2>2. Last(<<Exit, z>>) = z
    BY DEF Last
  <2>3. Front(<<Exit, z>>) = <<Exit>>
    <3> DEFINE w == <<Exit, z>>
    <3>1. Len(w) - 1 = 1 /\ \A n \in 1 .. 1 : w[n] \in {Exit}
      OBVIOUS
    <3>2. w[1] = Exit
      OBVIOUS
    <3> HIDE DEF w
    <3>3. SubSeq(w, 1, 1) \in Seq({Exit}) /\ Len(SubSeq(w, 1, 1)) = 1 /\ SubSeq(w, 1, 1)[1] = Exit
      <4>1. /\ SubSeq(w, 1, 1) \in Seq({Exit})
            /\ Len(SubSeq(w, 1, 1)) = IF 1 <= 1 THEN 1 - 1 + 1 ELSE 0
            /\ \A n \in 1 .. 1 - 1 + 1 : SubSeq(w, 1, 1)[n] = w[1 + n - 1]
        BY <3>1, SubSeqProperties
      <4> QED BY <3>2, <4>1
    <3>4. SubSeq(w, 1, 1) = <<Exit>>
      <4> DEFINE v == SubSeq(w, 1, 1)
      <4> HIDE DEF v
      <4>1. v \in Seq({Exit}) /\ Len(v) = 1 /\ v[1] = Exit
        BY <3>3 DEF v
      <4>2. <<Exit>> \in Seq({Exit}) /\ Len(<<Exit>>) = 1 /\ <<Exit>>[1] = Exit
        OBVIOUS
      <4>3. \A n \in 1 .. Len(v) : v[n] = <<Exit>>[n]
        <5>1. \A n \in 1 .. 1 : n = 1
          OBVIOUS
        <5> QED BY <4>1, <4>2, <5>1
      <4>4. v = <<Exit>>
        BY <4>1, <4>2, <4>3, SeqEqual
      <4> QED BY <4>4 DEF v
    <3>5. Front(w) = <<Exit>>
      BY <3>1, <3>4 DEF Front
    <3> QED BY <3>5 DEF w
  <2> QED BY <2>1, <2>2, <2>3
<1> HIDE DEF r, top, rr, caller, M
<1>8. DoneOut(rr, done)
  <2>1. DoneOut(r, done)
    BY <1>1, <1>5, DonePush
  <2> QED BY <1>4, <2>1, DonePush
<1>9. \A t \in Threads \ done : t \notin M => Located(program, rr, t, x[t], y[t])
  <2> SUFFICES ASSUME NEW t \in Threads \ done, t \notin M PROVE Located(program, rr, t, x[t], y[t])
    OBVIOUS
  <2>1. t \notin top.mask /\ t \notin caller.mask
    BY <1>3 DEF M
  <2>2. Located(program, Append(r, top), t, x[t], y[t])
    BY <1>2, <1>6
  <2>3. Located(program, r, t, x[t], y[t])
    BY <1>1, <2>1, <2>2, LocatedPush
  <2> QED BY <1>4, <2>1, <2>3, LocatedPush
<1>10. z \in Nat /\ z # Exit /\ z \in Successors(program, caller.pc) /\ caller.pc # Exit
  <2>1. \A k \in Kernel(program) : k \in Nat /\ k # Exit
    BY <1>1, Shape DEF Kernel, Exit
  <2> QED BY <1>3, <2>1
<1>11. \A t \in M : t \in Threads \ done /\ InBase(r, t) /\ NoCall(r, t) /\ NoCall(rr, t)
  <2> SUFFICES ASSUME NEW t \in M PROVE t \in Threads \ done /\ InBase(r, t) /\ NoCall(r, t) /\ NoCall(rr, t)
    OBVIOUS
  <2>1. t \in Threads \ done
    BY <1>1
  <2>2. InBase(Append(r, top), t)
    BY <1>6, <2>1 DEF Located, Where
  <2>3. InBase(r, t)
    BY <1>1, <1>3, <2>2, BasePush
  <2>4. NoCall(r, t)
    BY <1>3 DEF NoCall, CallIn
  <2>5. NoCall(rr, t)
    BY <1>4, <2>4, CallPush
  <2> QED BY <2>1, <2>3, <2>4, <2>5
<1>12. rr # <<>> => <<z, caller.recvg>> \in Postdominators(program)
  <2> SUFFICES ASSUME rr # <<>> PROVE <<z, caller.recvg>> \in Postdominators(program)
    OBVIOUS
  <2>1. PICK m \in DOMAIN rr : Under(program, rr, m, caller)
    BY <1>3 DEF Joins
  <2>2. <<caller.pc, caller.recvg>> \in Postdominators(program) /\ caller.pc # caller.recvg
    BY <1>3, <2>1 DEF Under
  <2> QED BY <1>1, <1>10, <2>2, PdomFacts
<1>13. Returned(r, z) = IF z = caller.recvg THEN rr ELSE Append(rr, [caller EXCEPT !.pc = z])
  BY <1>3 DEF Returned, rr, caller
<1>14. CASE z = caller.recvg
  <2>1. rr # <<>>
    <3>1. rr = <<>> => caller.recvg = NoPc
      BY <1>3 DEF Joins
    <3> QED BY <1>10, <1>14, <3>1 DEF NoPc
  <2>2. PICK m \in DOMAIN rr : Under(program, rr, m, caller)
    BY <1>3, <2>1 DEF Joins
  <2>3. rr[m].pc = z
    BY <1>3, <1>14, <2>2 DEF Under
  <2>4. ASSUME NEW t \in M PROVE Located(program, rr, t, x[t], y[t])
    <3>1. t \in caller.mask
      BY <1>3
    <3>2. SyncAt(rr, t, z)
      BY <1>4, <2>2, <2>3, <3>1, SyncPop
    <3>3. InBase(rr, t)
      BY <1>4, <1>11, <2>1, BasePush
    <3> QED BY <1>3, <1>7, <1>11, <3>2, <3>3 DEF Located, Where
  <2>5. Fits(rr, done, x, y)
    BY <1>3, <1>8, <1>9, <2>1, <2>4 DEF Fits
  <2>6. Fits(Returned(r, z), done, x, y)
    BY <1>13, <1>14, <2>5
  <2> QED BY <1>3, <1>7, <2>6 DEF r, top, M, caller, z, x, y
<1>15. CASE z # caller.recvg
  <2> DEFINE d == [caller EXCEPT !.pc = z]
  <2>1. d = [caller EXCEPT !.pc = z, !.mask = M]
    BY <1>3, <1>4 DEF Entries
  <2>2. d \in Entries /\ Joins(program, rr, d)
    <3>1. M \in SUBSET caller.mask /\ M # {} /\ z \in Int
      BY <1>1, <1>3, <1>10
    <3>2. [caller EXCEPT !.pc = z, !.mask = M] \in Entries /\ Joins(program, rr, [caller EXCEPT !.pc = z, !.mask = M])
      BY <1>3, <1>4, <1>12, <1>15, <3>1, JoinsMove
    <3> QED BY <2>1, <3>2
  <2>3. d.mask = M /\ d.pc = z /\ d.type = "normal"
    BY <1>3, <1>4 DEF Entries
  <2> HIDE DEF d
  <2> DEFINE u == Append(rr, d)
  <2>4. Nested(program, u) /\ u # <<>>
    BY <1>3, <1>4, <2>2, NestedPush, PushFacts
  <2>5. DoneOut(u, done)
    <3>1. d.mask \cap done = {}
      BY <1>1, <2>3
    <3> QED BY <1>4, <1>8, <2>2, <3>1, DonePush
  <2>6. ASSUME NEW t \in M PROVE Located(program, u, t, x[t], y[t])
    <3>1. SyncAt(u, t, z)
      BY <1>4, <2>2, <2>3, SyncPush
    <3>2. InBase(u, t)
      <4>1. InBase(Append(rr, caller), t)
        BY <1>4, <1>11
      <4>2. IF rr = <<>> THEN t \in caller.mask ELSE InBase(rr, t)
        BY <1>4, <4>1, BasePush
      <4> QED BY <1>3, <1>4, <2>2, <2>3, <4>2, BasePush
    <3>3. NoCall(u, t)
      BY <1>4, <1>11, <2>2, <2>3, CallPush
    <3> HIDE DEF u
    <3> QED BY <1>3, <1>7, <3>1, <3>2, <3>3 DEF Located, Where
  <2>7. ASSUME NEW t \in Threads \ done, t \notin M PROVE Located(program, u, t, x[t], y[t])
    <3>1. t \notin d.mask /\ Located(program, rr, t, x[t], y[t])
      BY <1>9, <2>3, <2>7
    <3> QED BY <1>4, <2>2, <3>1, LocatedPush
  <2>8. Fits(u, done, x, y)
    <3> HIDE DEF u
    <3> QED BY <2>4, <2>5, <2>6, <2>7 DEF Fits
  <2>9. Fits(Returned(r, z), done, x, y)
    BY <1>13, <1>15, <2>8 DEF d
  <2> QED BY <1>3, <1>7, <2>9 DEF r, top, M, caller, z, x, y
<1> QED BY <1>14, <1>15

----------------------------------------------------------------------------
(* Every step.                                                             *)

LEMMA KeptByUpdate ==
    ASSUME IInv, done # Threads, NEW taken, Allowed(taken)
    PROVE  LET i  == Last(stack).pc
               x  == Npc(taken)
               y  == Ncalls(taken)
               nd == Ndone(taken)
           IN  Fits(Update(stack, i, x, nd, ReconvergeAt(i, x, y, nd)), nd, x, y)
<1> DEFINE i  == Last(stack).pc
           x  == Npc(taken)
           y  == Ncalls(taken)
           nd == Ndone(taken)
           j  == ReconvergeAt(i, x, y, nd)
           A  == Active(nd)
           c  == program.code[i]
<1>1. /\ stack = Append(Front(stack), Last(stack)) /\ Front(stack) \in Seq(Entries) /\ Last(stack) \in Entries
      /\ WellFormed(program) /\ i \in DOMAIN program.code /\ Last(stack).mask # {}
      /\ i \notin Function(program) => ~CallIn(stack)
  BY TopFacts
<1> HIDE DEF x, y, nd, j, i
<1>2. CASE IsCall
  <2> DEFINE q == program.main + 1
  <2>1. nd = done /\ A = Last(stack).mask /\ \A t \in A : x[t] = q
    BY <1>2, AllTaken DEF nd, x
  <2>2. q \in Int /\ c.op = "call"
    BY <1>1, <1>2, Shape DEF IsCall, i
  <2>3. A # {}
    BY <1>1, <2>1
  <2>4. Update(stack, i, x, nd, j) = Entered(q, A)
    <3> HIDE DEF q
    <3>1. Together(x, nd, q)
      BY <2>1, <2>3 DEF Together
    <3>2. q \in Int
      BY <2>2
    <3>3. program.code[i].op = "call"
      BY <2>2
    <3> QED BY <3>1, <3>2, <3>3, UpdateSame
  <2>5. Fits(Entered(q, Last(stack).mask), done, x, y)
    BY <1>2, KeptByCall DEF Entered, x, y
  <2>6. Fits(Update(stack, i, x, nd, j), nd, x, y)
    <3> HIDE DEF q, A
    <3> QED BY <2>1, <2>4, <2>5
  <2> QED BY <2>6 DEF i, x, y, nd, j
<1>3. CASE IsReturn
  <2> DEFINE q == Last(Front(stack)).pc + 1
  <2>1. nd = done /\ A = Last(stack).mask /\ i = Len(program.code)
    BY <1>3, AllTaken DEF nd, i
  <2>2. Last(stack).type = "call" /\ (\A t \in Last(stack).mask : x[t] = q) /\ Fits(Returned(Front(stack), q), done, x, y)
    BY <1>3, KeptByReturn DEF x, y
  <2>3. q \in Int
    <3>1. Last(Front(stack)).pc \in Kernel(program)
      BY <1>3, <2>1, ReturnFacts DEF i
    <3> QED BY <1>1, <3>1, Shape DEF Kernel
  <2>4. c.op = "ret"
    BY <1>3 DEF IsReturn, i
  <2>5. Update(stack, i, x, nd, j) = Returned(Front(stack), q)
    <3>1. Together(x, nd, q)
      BY <1>1, <2>1, <2>2 DEF Together
    <3> HIDE DEF q
    <3> QED BY <2>2, <2>3, <2>4, <3>1, UpdateSame
  <2>6. Fits(Update(stack, i, x, nd, j), nd, x, y)
    <3> HIDE DEF q, A
    <3> QED BY <2>1, <2>2, <2>5
  <2> QED BY <2>6 DEF i, x, y, nd, j
<1>4. CASE ~IsCall /\ ~IsReturn /\ A = {}
  <2>1. Update(stack, i, x, nd, j) = Front(stack)
    BY <1>4, UpdateEmpty
  <2>2. Fits(Front(stack), nd, x, y)
    BY <1>4, KeptByExit DEF x, y, nd
  <2>3. Fits(Update(stack, i, x, nd, j), nd, x, y)
    BY <2>1, <2>2
  <2> QED BY <2>3 DEF i, x, y, nd, j
<1>5. CASE ~IsCall /\ ~IsReturn /\ A # {}
  <2>1. \A t \in A : /\ x[t] \in Successors(program, i) \cap Part(program, i)
                     /\ x[t] = i + 1 \/ (c.op = "bra" /\ x[t] = c.target)
    BY <1>5, OrdinaryFacts DEF Active, x, nd, i
  <2>2. \A t \in A : x[t] \in Int
    <3>1. Successors(program, i) \subseteq Nodes(program) /\ Len(program.code) \in Nat
      BY <1>1, Shape
    <3> QED BY <2>1, <3>1 DEF Nodes
  <2>3. c.op # "call" /\ ~(c.op = "ret" /\ Last(stack).type = "call")
    <3>1. c.op # "call"
      BY <1>5 DEF IsCall, i
    <3>2. Last(stack).type = "call" => CallIn(stack)
      BY <1>1, CallPush
    <3> QED BY <1>1, <1>5, <3>1, <3>2 DEF IsReturn, i
  <2>4. CASE \A t, u \in A : x[t] = x[u]
    <3>1. PICK t0 \in A : TRUE
      BY <1>5
    <3> DEFINE q == x[t0]
    <3>2. q \in Int /\ \A t \in A : x[t] = q
      BY <2>2, <2>4, <3>1
    <3> DEFINE s == Advanced(q, A)
    <3> HIDE DEF q
    <3>3. Update(stack, i, x, nd, j) = s
      <4>1. Together(x, nd, q)
        BY <1>5, <3>2 DEF Together
      <4>2. q \in Int
        BY <3>2
      <4> QED BY <2>3, <4>1, <4>2, UpdateSame
    <3>4. Fits(s, nd, x, y)
      <4>1. \A t \in Active(Ndone(taken)) : Npc(taken)[t] = q
        BY <3>2 DEF nd, x
      <4>2. Active(Ndone(taken)) # {}
        BY <1>5 DEF nd
      <4> QED BY <1>5, <4>1, <4>2, KeptByMove DEF nd, x, y
    <3>5. Fits(Update(stack, i, x, nd, j), nd, x, y)
      <4> HIDE DEF s
      <4> QED BY <3>3, <3>4
    <3> QED BY <3>5 DEF i, x, y, nd, j
  <2>5. ASSUME NEW t \in A, NEW u \in A, x[t] # x[u] PROVE Fits(Update(stack, i, x, nd, j), nd, x, y)
    <3> DEFINE b == c.target
    <3>1. c.op = "bra" /\ b # i + 1
      BY <2>1, <2>5
    <3>2. \A v \in A : x[v] \in {i + 1, b}
      BY <2>1
    <3>3. Group(x, nd, i + 1) # {} /\ Group(x, nd, b) # {}
      <4>1. \A v \in A : v \in Group(x, nd, x[v])
        BY DEF Group
      <4>2. (x[t] = i + 1 /\ x[u] = b) \/ (x[t] = b /\ x[u] = i + 1)
        BY <2>1, <2>5
      <4> HIDE DEF b
      <4> QED BY <2>5, <4>1, <4>2
    <3> HIDE DEF b
    <3>4. /\ program.code[Last(stack).pc].op = "bra" /\ b # Last(stack).pc + 1
          /\ \A v \in Active(Ndone(taken)) : Npc(taken)[v] \in {Last(stack).pc + 1, b}
          /\ Group(Npc(taken), Ndone(taken), Last(stack).pc + 1) # {}
          /\ Group(Npc(taken), Ndone(taken), b) # {}
      BY <3>1, <3>2, <3>3 DEF x, nd, i
    <3> QED BY <3>4, KeptBySplit DEF x, y, nd, i, j
  <2>6. Fits(Update(stack, i, x, nd, j), nd, x, y)
    BY <2>4, <2>5 DEF i, x, y, nd, j
  <2> QED BY <2>6 DEF i, x, y, nd, j
<1> QED BY <1>2, <1>3, <1>4, <1>5

LEMMA TypesStep ==
    ASSUME IInv, done # Threads, NEW taken, Allowed(taken)
    PROVE  Npc(taken) \in [Threads -> Int] /\ Ncalls(taken) \in [Threads -> Seq(Int)] /\ Ndone(taken) \subseteq Threads
<1> DEFINE i == Last(stack).pc
           M == Last(stack).mask
<1>1. WellFormed(program) /\ i \in DOMAIN program.code /\ M \subseteq Threads \ done /\ \A t \in M : pc[t] = i
  BY TopFacts
<1>2. \A t \in M : calls[t] # <<>> /\ calls[t] \in Seq(Int)
  <2> SUFFICES ASSUME NEW t \in M PROVE calls[t] # <<>> /\ calls[t] \in Seq(Int)
    OBVIOUS
  <2>1. t \in Threads \ done
    BY <1>1
  <2>2. calls[t] = <<Exit>> \/ \E z \in Int : calls[t] = <<Exit, z>>
    BY <2>1 DEF IInv, Located, Where
  <2>3. calls[t] # <<>>
    <3>1. <<Exit>> # <<>> /\ \A z \in Int : <<Exit, z>> # <<>>
      OBVIOUS
    <3> QED BY <2>2, <3>1
  <2> QED BY <2>1, <2>3 DEF IInv
<1>3. pc \in [Threads -> Int] /\ calls \in [Threads -> Seq(Int)] /\ done \subseteq Threads
  BY DEF IInv
<1>4. /\ Npc(taken) = [t \in Threads |-> IF t \in M THEN NextPc(t, t \in taken) ELSE pc[t]]
      /\ Ncalls(taken) = [t \in Threads |-> IF t \in M THEN NextCalls(t, t \in taken) ELSE calls[t]]
  BY DEF Npc, Ncalls
<1>5. i \in Nat /\ program.code[i] \in Instruction /\ program.main \in Nat
  BY <1>1, Shape
<1>6. taken \subseteq M
  BY DEF Allowed
<1>7. \A t, k : NextCalls(t, k) = IF k /\ program.code[pc[t]].op = "call" THEN Append(calls[t], i + 1)
                                  ELSE IF k /\ program.code[pc[t]].op = "ret" THEN Front(calls[t])
                                  ELSE calls[t]
  BY DEF NextCalls
<1> HIDE DEF i, M
<1>8. ASSUME NEW t \in M PROVE NextPc(t, t \in taken) \in Int /\ NextCalls(t, t \in taken) \in Seq(Int)
  <2> DEFINE k == t \in taken
             v == calls[t]
             n == Len(v)
  <2>1. v \in Seq(Int) /\ v # <<>>
    BY <1>2, <1>8
  <2>2. n \in Nat /\ n # 0 /\ \A m \in 1 .. n : v[m] \in Int
    <3> HIDE DEF v
    <3>1. Len(v) \in Nat /\ v \in [1 .. Len(v) -> Int] /\ Len(v) # 0
      BY <2>1, LenProperties, EmptySeq
    <3> QED BY <3>1
  <2> HIDE DEF v, n
  <2>3. Last(v) \in Int
    <3>1. Last(v) = v[n]
      BY DEF Last, n
    <3> QED BY <2>2, <3>1
  <2>4. Front(v) \in Seq(Int)
    <3>1. \A m \in 1 .. n - 1 : v[m] \in Int
      BY <2>2
    <3>2. 1 \in Int /\ n - 1 \in Int
      BY <2>2
    <3>3. SubSeq(v, 1, n - 1) \in Seq(Int)
      BY <3>1, <3>2, SubSeqProperties
    <3> QED BY <3>3 DEF Front, n
  <2>5. Append(v, i + 1) \in Seq(Int)
    BY <1>5, <2>1, AppendProperties
  <2>6. pc[t] = i
    BY <1>1, <1>8
  <2>7. NextPc(t, k) = IF ~k THEN i + 1
                       ELSE CASE program.code[i].op = "bra"  -> program.code[i].target
                              [] program.code[i].op = "call" -> program.main + 1
                              [] program.code[i].op = "ret"  -> Last(v)
                              [] OTHER -> i + 1
    BY <2>6 DEF NextPc, v
  <2>8. program.code[i].target \in Int
    BY <1>5 DEF Instruction
  <2>9. NextCalls(t, k) \in Seq(Int)
    BY <1>7, <2>1, <2>4, <2>5 DEF v
  <2> HIDE DEF k
  <2>10. NextPc(t, k) \in Int
    BY <1>5, <2>3, <2>7, <2>8
  <2> QED BY <2>9, <2>10 DEF k
<1>9. Npc(taken) \in [Threads -> Int] /\ Ncalls(taken) \in [Threads -> Seq(Int)]
  BY <1>3, <1>4, <1>8
<1>10. Ndone(taken) \subseteq Threads
  BY <1>1, <1>3, <1>6 DEF Ndone
<1> QED BY <1>9, <1>10

LEMMA InitIInv == Init => IInv
<1> SUFFICES ASSUME Init PROVE IInv
  OBVIOUS
<1> DEFINE e == Entry(1, Threads, NoPc, "normal")
<1>1. /\ program \in Programs /\ recon = ReconvergencePoints(program) /\ done = {}
      /\ pc = [t \in Threads |-> 1] /\ calls = [t \in Threads |-> <<Exit>>] /\ stack = <<e>>
  BY DEF Init
<1>2. WellFormed(program)
  BY <1>1, ProgramsAssumption
<1>3. 1 \in Kernel(program)
  <2>1. program.main \in Nat /\ program.main >= 1
    BY <1>2, Shape
  <2> QED BY <2>1 DEF Kernel
<1>4. Threads # {}
  <2>1. 0 \in Threads
    BY WarpAssumption DEF Threads
  <2> QED BY <2>1
<1>5. e \in Entries /\ e.pc = 1 /\ e.mask = Threads /\ e.recvg = NoPc /\ e.type = "normal"
  BY DEF Entry, Entries, NoPc
<1>6. <<>> \in Seq(Entries) /\ Len(<<>>) = 0 /\ DOMAIN <<>> = {}
  BY EmptySeq
<1> HIDE DEF e
<1>7. stack = Append(<<>>, e)
  <2>1. Append(<<>>, e) = <<>> \o <<e>>
    BY <1>5, <1>6, AppendIsConcat
  <2>2. <<e>> \in Seq(Entries)
    BY <1>5
  <2>3. <<>> \o <<e>> = <<e>>
    BY <2>2, ConcatEmptySeq
  <2> QED BY <1>1, <2>1, <2>3
<1>8. Nested(program, <<>>) /\ DoneOut(<<>>, done) /\ ~CallIn(<<>>) /\ \A t : NoCall(<<>>, t)
  BY <1>6 DEF Nested, DoneOut, CallIn, NoCall
<1>9. Joins(program, <<>>, e)
  <2>1. Cardinality(Threads) = WarpSize
    BY ThreadsFacts
  <2>2. Len(<<>>) <= 2 * (WarpSize - Cardinality(Threads)) + 0
    BY <1>6, <2>1, WarpAssumption
  <2> QED BY <1>4, <1>5, <1>6, <1>8, <2>2 DEF Joins
<1>10. Nested(program, stack) /\ stack # <<>>
  BY <1>5, <1>6, <1>7, <1>8, <1>9, NestedPush, PushFacts
<1>11. DoneOut(stack, done)
  <2>1. e.mask \cap done = {}
    BY <1>1
  <2> QED BY <1>5, <1>6, <1>7, <1>8, <2>1, DonePush
<1>12. ASSUME NEW t \in Threads PROVE Located(program, stack, t, pc[t], calls[t])
  <2>1. InBase(stack, t)
    BY <1>5, <1>6, <1>7, BasePush
  <2>2. NoCall(stack, t)
    BY <1>5, <1>6, <1>7, <1>8, CallPush
  <2>3. SyncAt(stack, t, 1)
    BY <1>5, <1>6, <1>7, SyncPush
  <2>4. pc[t] = 1 /\ calls[t] = <<Exit>>
    BY <1>1
  <2> QED BY <1>3, <2>1, <2>2, <2>3, <2>4 DEF Located, Where
<1>13. pc \in [Threads -> Int] /\ calls \in [Threads -> Seq(Int)] /\ done \subseteq Threads
  <2>1. <<Exit>> \in Seq(Int)
    BY DEF Exit
  <2> QED BY <1>1, <2>1
<1> QED BY <1>1, <1>10, <1>11, <1>12, <1>13 DEF IInv

LEMMA NextIInv == IInv /\ [Next]_vars => IInv'
<1> SUFFICES ASSUME IInv, [Next]_vars PROVE IInv'
  OBVIOUS
<1>1. ASSUME ExecuteWarp PROVE IInv'
  <2>1. done # Threads /\ stack # <<>> /\ UNCHANGED <<program, recon>>
    BY <1>1 DEF ExecuteWarp
  <2>2. PICK taken : /\ Allowed(taken)
                     /\ pc' = Npc(taken) /\ calls' = Ncalls(taken) /\ done' = Ndone(taken)
                     /\ stack' = Update(stack, Last(stack).pc, Npc(taken), Ndone(taken),
                                        ReconvergeAt(Last(stack).pc, Npc(taken), Ncalls(taken), Ndone(taken)))
    BY <1>1 DEF ExecuteWarp, Allowed, Npc, Ncalls, Ndone
  <2>3. Fits(stack', done', pc', calls')
    BY <2>1, <2>2, KeptByUpdate
  <2>4. pc' \in [Threads -> Int] /\ calls' \in [Threads -> Seq(Int)] /\ done' \subseteq Threads
    BY <2>1, <2>2, TypesStep
  <2>5. program' \in Programs /\ recon' = ReconvergencePoints(program')
    BY <2>1 DEF IInv
  <2>6. done' # Threads =>
          /\ stack' # <<>> /\ Nested(program', stack') /\ DoneOut(stack', done')
          /\ \A t \in Threads \ done' : Located(program', stack', t, pc'[t], calls'[t])
    BY <2>1, <2>3 DEF Fits
  <2> QED BY <2>4, <2>5, <2>6 DEF IInv
<1>2. ASSUME UNCHANGED vars PROVE IInv'
  BY <1>2 DEF IInv, vars
<1> QED BY <1>1, <1>2 DEF Next, WarpDone

\* The entry a thread is in is the one that holds it.
LEMMA HeldByEntry ==
    ASSUME IInv, NEW t \in Threads \ done
    PROVE  EntriesOf(t) # {} /\ EntryOf(t).pc = pc[t]
<1> DEFINE S == EntriesOf(t)
           top(n) == n \in S /\ \A k \in S : k <= n
<1>1. stack # <<>> /\ Nested(program, stack) /\ Located(program, stack, t, pc[t], calls[t])
  BY DEF IInv
<1>2. Len(stack) \in Nat /\ Len(stack) # 0 /\ DOMAIN stack = 1 .. Len(stack)
  BY <1>1, LenProperties, EmptySeq DEF Nested
<1>3. S \subseteq 1 .. Len(stack) /\ \A n \in 1 .. Len(stack) : n \in S <=> t \in stack[n].mask
  BY <1>2 DEF EntriesOf
<1>4. 1 \in S
  BY <1>1, <1>2, <1>3 DEF Located, Where, InBase
<1> HIDE DEF S
<1>5. \E n : top(n)
  <2> DEFINE L == Len(stack)
             D == {d \in Nat : L - d \in S}
  <2>1. D # {} /\ D \subseteq Nat
    <3>1. L - 1 \in D
      BY <1>2, <1>3, <1>4
    <3> QED BY <3>1
  <2>2. PICK d \in D : \A k \in D : d <= k
    <3> HIDE DEF D
    <3> QED BY <2>1, LeastExists
  <2>3. L - d \in S
    BY <2>2
  <2>4. ASSUME NEW k \in S PROVE k <= L - d
    <3>1. k \in Nat /\ k <= L /\ L \in Nat
      BY <1>2, <1>3
    <3>2. L - k \in Nat /\ L - (L - k) = k
      BY <3>1
    <3>3. L - k \in D
      BY <3>2
    <3>4. d <= L - k /\ d \in Nat
      BY <2>2, <3>3
    <3> HIDE DEF D, L
    <3> QED BY <3>1, <3>4
  <2> QED BY <2>3, <2>4
<1> DEFINE n == CHOOSE n \in S : \A k \in S : k <= n
<1>6. n \in S /\ \A k \in S : k <= n
  BY <1>5
<1>7. EntryOf(t) = stack[n]
  BY DEF EntryOf, S
<1> HIDE DEF n
<1>8. Holds(stack, t, n)
  <2>1. n \in DOMAIN stack /\ t \in stack[n].mask
    BY <1>2, <1>3, <1>6
  <2>2. \A k \in n + 1 .. Len(stack) : t \notin stack[k].mask
    <3> SUFFICES ASSUME NEW k \in n + 1 .. Len(stack), t \in stack[k].mask PROVE FALSE
      OBVIOUS
    <3>1. k \in 1 .. Len(stack) /\ ~(k <= n)
      BY <1>2, <1>3, <1>6
    <3> QED BY <1>3, <1>6, <3>1
  <2> QED BY <2>1, <2>2 DEF Holds
<1>9. stack[n].pc = pc[t]
  BY <1>1, <1>8 DEF Located, SyncAt
<1> QED BY <1>4, <1>7, <1>9 DEF S

LEMMA IInvInSync == IInv => ThreadsInSync
<1> SUFFICES ASSUME IInv, done # Threads
             PROVE  /\ \A t \in Threads \ done : EntriesOf(t) # {} /\ EntryOf(t).pc = pc[t]
                    /\ Last(stack).mask \cap done = {}
  BY DEF ThreadsInSync
<1>1. \A t \in Threads \ done : EntriesOf(t) # {} /\ EntryOf(t).pc = pc[t]
  BY HeldByEntry
<1>2. Last(stack).mask \cap done = {}
  <2>1. Last(stack).mask \subseteq Threads \ done
    BY TopFacts
  <2> QED BY <2>1
<1> QED BY <1>1, <1>2

LEMMA IInvReconverges == IInv => Reconverges
<1> DEFINE r == Front(stack)
           top == Last(stack)
           M == top.mask
           C == {n \in DOMAIN stack : stack[n].type = "call"}
<1> SUFFICES ASSUME IInv, done # Threads
             PROVE  /\ top.type = "normal" => top.pc # top.recvg
                    /\ Len(stack) <= 2 * WarpSize - 1 + Cardinality(C)
  BY DEF Reconverges
<1>1. /\ r \in Seq(Entries) /\ top \in Entries /\ stack = Append(r, top) /\ stack \in Seq(Entries)
      /\ Joins(program, r, top) /\ WellFormed(program) /\ top.pc \in DOMAIN program.code
      /\ M # {} /\ M \subseteq Threads
  BY TopFacts
<1> HIDE DEF r, top
<1>2. ASSUME top.type = "normal" PROVE top.pc # top.recvg
  <2>1. CASE r = <<>>
    <3>1. top.recvg = NoPc
      BY <1>1, <2>1 DEF Joins
    <3>2. top.pc \in Nat
      BY <1>1, Shape
    <3> QED BY <3>1, <3>2 DEF NoPc
  <2>2. CASE r # <<>>
    <3>1. PICK m \in DOMAIN r : Under(program, r, m, top)
      BY <1>1, <2>2 DEF Joins
    <3> QED BY <1>2, <3>1 DEF Under
  <2> QED BY <2>1, <2>2
<1>3. Len(r) \in Nat /\ Len(stack) = Len(r) + 1 /\ DOMAIN stack = 1 .. Len(r) + 1
  BY <1>1, PushFacts
<1>4. Cardinality(M) \in Nat /\ Cardinality(M) # 0
  <2>1. IsFiniteSet(M)
    BY <1>1, ThreadsFacts, FS_Subset
  <2> QED BY <1>1, <2>1, FS_CardinalityType, FS_EmptySet
<1>5. Cardinality(C) \in Nat /\ (CallIn(stack) => Cardinality(C) # 0)
  <2>1. IsFiniteSet(1 .. Len(r) + 1)
    BY <1>3, FS_Interval
  <2>2. C \in SUBSET (1 .. Len(r) + 1)
    BY <1>3
  <2>3. CallIn(stack) => C # {}
    BY DEF CallIn
  <2> HIDE DEF C
  <2>4. IsFiniteSet(C)
    BY <2>1, <2>2, FS_Subset
  <2> QED BY <2>3, <2>4, FS_CardinalityType, FS_EmptySet
<1>6. Len(r) <= 2 * (WarpSize - Cardinality(M)) + (IF top.type = "call" \/ CallIn(r) THEN 1 ELSE 0)
  BY <1>1 DEF Joins
<1>7. CallIn(stack) <=> CallIn(r) \/ top.type = "call"
  BY <1>1, CallPush
<1> DEFINE k == IF top.type = "call" \/ CallIn(r) THEN 1 ELSE 0
           c == Cardinality(C)
           m == Cardinality(M)
<1>8. k \in Nat /\ c \in Nat /\ m \in Nat /\ m # 0 /\ k <= c /\ Len(r) <= 2 * (WarpSize - m) + k
  <2>1. k \in Nat /\ k <= 1 /\ (k # 0 => CallIn(stack))
    BY <1>7
  <2> HIDE DEF k, C, M
  <2>2. k <= c /\ c \in Nat
    BY <1>5, <2>1
  <2> QED BY <1>4, <1>6, <2>1, <2>2 DEF k
<1>9. Len(stack) <= 2 * WarpSize - 1 + c
  <2> HIDE DEF k, c, m
  <2> QED BY <1>3, <1>8, WarpAssumption
<1> QED BY <1>2, <1>9

\* Every entry runs some of the threads of the one below it that it belongs to,
\* up to the instruction at which that one waits, which postdominates it; or it is
\* the call that one makes.  Each thread is where the topmost entry that names it
\* says, and calls nest as the call stacks of the threads do (simt_stack::update).
THEOREM StackInvariant == Spec => []IInv
BY InitIInv, NextIInv, PTL DEF Spec

\* A warp never comes apart: whatever the program, its guards and its nesting of
\* branches, loops, calls and exits, every live thread is in the stack and waits
\* where its entry says, so that the instruction ptx_exec_inst executes for it is
\* the one the warp fetched, and none that has exited is in the top mask
\* (simt_stack::update).
THEOREM WarpsStayInSync == Spec => []ThreadsInSync
BY StackInvariant, IInvInSync, PTL

\* The stack stays short however long the warp runs: an entry is gone once it is
\* where it reconverges, so loops do not pile up entries (simt_stack::update with
\* the reconvergence points of do_pdom).
THEOREM StacksStayShort == Spec => []Reconverges
BY StackInvariant, IInvReconverges, PTL

=============================================================================
