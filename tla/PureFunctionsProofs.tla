------------------------ MODULE PureFunctionsProofs ------------------------
(***************************************************************************)
(* What the two stream decoders promise of a stream in pieces, for streams *)
(* of any length, cut anywhere, what the formats promise of everything     *)
(* that is written in them, and what the nodes make of every command line  *)
(* and every number of frames.  A fold is first turned into a run of its   *)
(* step function, about which one can argue step by step.                  *)
(***************************************************************************)
EXTENDS PureFunctions, SequenceTheorems, WellFoundedInduction, TLAPS

-----------------------------------------------------------------------------
(* Folding a function over a sequence, step by step *)

\* A set with 0 that is closed under successor holds every natural number.
LEMMA NatInduct ==
  ASSUME NEW T, T \subseteq Nat, 0 \in T, \A n \in T : n + 1 \in T
  PROVE  T = Nat
<1>. DEFINE R == OpToRel(<, Nat)
<1>. SUFFICES ASSUME Nat \ T # {} PROVE FALSE
  OBVIOUS
<1>1. PICK m \in Nat \ T : \A k \in Nat \ T : <<k, m>> \notin R
  BY NatLessThanWellFounded, WFMin
<1>2. m # 0 /\ m - 1 \in Nat
  OBVIOUS
<1>3. <<m - 1, m>> \in R
  BY <1>2 DEF OpToRel
<1>4. m - 1 \in T
  BY <1>1, <1>2, <1>3
<1>. QED
  BY <1>2, <1>4

\* The same up to a bound, for the positions of a text.
LEMMA BoundInduct ==
  ASSUME NEW n \in Nat, NEW T, T \subseteq Nat, 0 \in T, \A k \in T : k < n => k + 1 \in T
  PROVE  \A k \in 0..n : k \in T
<1>. DEFINE U == {k \in Nat : k <= n => k \in T}
<1>1. \A k \in U : k + 1 \in U
  OBVIOUS
<1>2. U = Nat
  BY <1>1, NatInduct
<1>. QED
  BY <1>2

\* Run of a step function
Step(F, b, s, r) ==
  /\ r[0] = b
  /\ \A k \in 1..Len(s) : r[k] = F[<<r[k - 1], s[k]>>]

\* A step function can be run over any sequence.
LEMMA RunExists ==
  ASSUME NEW D, NEW E, NEW F \in [D \X E -> D], NEW b \in D, NEW s \in Seq(E)
  PROVE  \E r \in [0..Len(s) -> D] : Step(F, b, s, r)
<1>. DEFINE Ok(k) == \E r \in [0..k -> D] :
                       r[0] = b /\ \A j \in 1..k : r[j] = F[<<r[j - 1], s[j]>>]
            T == {k \in Nat : Ok(k)}
<1>0. Len(s) \in Nat
  OBVIOUS
<1>1. 0 \in T
  <2>. DEFINE r == [i \in 0..0 |-> b]
  <2>1. r \in [0..0 -> D] /\ r[0] = b /\ \A j \in 1..0 : r[j] = F[<<r[j - 1], s[j]>>]
    OBVIOUS
  <2>. QED
    BY <2>1
<1>2. ASSUME NEW k \in T, k < Len(s) PROVE k + 1 \in T
  <2>1. PICK r \in [0..k -> D] : r[0] = b /\ \A j \in 1..k : r[j] = F[<<r[j - 1], s[j]>>]
    BY <1>2
  <2>. DEFINE q == [i \in 0..(k + 1) |-> IF i = k + 1 THEN F[<<r[k], s[k + 1]>>] ELSE r[i]]
  <2>2. s[k + 1] \in E
    BY <1>2
  <2>3. F[<<r[k], s[k + 1]>>] \in D
    BY <2>1, <2>2, <1>2
  <2>4. q \in [0..(k + 1) -> D]
    BY <2>1, <2>3, <1>2
  <2>5. q[0] = b
    BY <2>1, <1>2
  <2>6. ASSUME NEW j \in 1..(k + 1) PROVE q[j] = F[<<q[j - 1], s[j]>>]
    <3>1. CASE j = k + 1
      <4>1. q[j] = F[<<r[k], s[k + 1]>>] /\ q[j - 1] = r[k]
        BY <3>1, <1>2
      <4>. QED
        BY <3>1, <4>1
    <3>2. CASE j \in 1..k
      BY <3>2, <2>1, <1>2
    <3>. QED
      BY <3>1, <3>2, <1>2
  <2>. HIDE DEF q
  <2>7. Ok(k + 1)
    BY <2>4, <2>5, <2>6
  <2>. QED
    BY <2>7
<1>3. Len(s) \in T
  <2>. HIDE DEF T
  <2>1. T \subseteq Nat
    BY DEF T
  <2>2. \A k \in 0..Len(s) : k \in T
    BY <1>0, <1>1, <1>2, <2>1, BoundInduct
  <2>. QED
    BY <1>0, <2>2
<1>. QED
  BY <1>3 DEF Step

SameRun(F, s, m, r, q) ==
  /\ r[0] = q[0]
  /\ \A k \in 1..m : r[k] = F[<<r[k - 1], s[k]>>] /\ q[k] = F[<<q[k - 1], s[k]>>]

\* Two runs of the same step function over the same sequence agree.
LEMMA RunUnique ==
  ASSUME NEW F, NEW s, NEW m \in Nat, NEW r, NEW q, SameRun(F, s, m, r, q)
  PROVE  \A k \in 0..m : r[k] = q[k]
<1>. DEFINE T == {k \in Nat : r[k] = q[k]}
<1>1. 0 \in T
  BY DEF SameRun
<1>2. ASSUME NEW k \in T, k < m PROVE k + 1 \in T
  <2>1. k + 1 \in 1..m /\ (k + 1) - 1 = k
    BY <1>2
  <2>2. r[k + 1] = F[<<r[k], s[k + 1]>>] /\ q[k + 1] = F[<<q[k], s[k + 1]>>]
    BY <2>1 DEF SameRun
  <2>. QED
    BY <2>1, <2>2
<1>3. \A k \in 0..m : k \in T
  <2>. HIDE DEF T
  <2>1. T \subseteq Nat
    BY DEF T
  <2>. QED
    BY <1>1, <1>2, <2>1, BoundInduct
<1>. QED
  BY <1>3

Run(D, F, b, s) == CHOOSE r \in [0..Len(s) -> D] : Step(F, b, s, r)

Result(D, F, b, s) == Run(D, F, b, s)[Len(s)]

\* The chosen run is a run: it starts at b and each value follows from the one before.
LEMMA RunSteps ==
  ASSUME NEW D, NEW E, NEW F \in [D \X E -> D], NEW b \in D, NEW s \in Seq(E)
  PROVE  Run(D, F, b, s) \in [0..Len(s) -> D] /\ Step(F, b, s, Run(D, F, b, s))
BY RunExists DEF Run

\* The result of a run is a state.
LEMMA ResultType ==
  ASSUME NEW D, NEW E, NEW F \in [D \X E -> D], NEW b \in D, NEW s \in Seq(E)
  PROVE  Result(D, F, b, s) \in D
<1>1. Run(D, F, b, s) \in [0..Len(s) -> D]
  BY RunSteps
<1>2. Len(s) \in 0..Len(s)
  OBVIOUS
<1>. QED
  BY <1>1, <1>2 DEF Result

\* Nothing fed changes nothing.
LEMMA ResultEmpty ==
  ASSUME NEW D, NEW E, NEW F \in [D \X E -> D], NEW b \in D
  PROVE  Result(D, F, b, <<>>) = b
<1>1. <<>> \in Seq(E) /\ Len(<<>>) = 0
  OBVIOUS
<1>2. Step(F, b, <<>>, Run(D, F, b, <<>>))
  BY <1>1, RunSteps
<1>. QED
  BY <1>1, <1>2 DEF Result, Step

Ends(D, F, b, s, q) == q[Len(s)] = Result(D, F, b, s)

\* Whatever runs like the step function ends where it does.
LEMMA ResultIs ==
  ASSUME NEW D, NEW E, NEW F \in [D \X E -> D], NEW b \in D, NEW s \in Seq(E),
         NEW q, Step(F, b, s, q)
  PROVE  Ends(D, F, b, s, q)
<1>. DEFINE r == Run(D, F, b, s)
<1>1. Step(F, b, s, r)
  BY RunSteps
<1>2. Len(s) \in Nat
  OBVIOUS
<1>. HIDE DEF r
<1>3. SameRun(F, s, Len(s), r, q)
  BY <1>1 DEF SameRun, Step
<1>4. \A k \in 0..Len(s) : r[k] = q[k]
  BY <1>2, <1>3, RunUnique
<1>5. r[Len(s)] = q[Len(s)]
  BY <1>2, <1>4
<1>. QED
  BY <1>5 DEF Ends, Result, r

Continues(D, F, b, s, e) == Result(D, F, b, Append(s, e)) = F[<<Result(D, F, b, s), e>>]

\* One element more is one step more.
LEMMA ResultAppend ==
  ASSUME NEW D, NEW E, NEW F \in [D \X E -> D], NEW b \in D, NEW s \in Seq(E), NEW e \in E
  PROVE  Continues(D, F, b, s, e)
<1>. DEFINE t == Append(s, e)
            r == Run(D, F, b, t)
<1>1. t \in Seq(E) /\ Len(t) = Len(s) + 1 /\ Len(s) \in Nat /\ t[Len(s) + 1] = e
      /\ \A k \in 1..Len(s) : t[k] = s[k]
  OBVIOUS
<1>2. Step(F, b, t, r)
  BY <1>1, RunSteps
<1>. HIDE DEF t, r
<1>3. Step(F, b, s, r)
  BY <1>1, <1>2 DEF Step
<1>4. r[Len(s)] = Result(D, F, b, s)
  BY <1>3, ResultIs DEF Ends
<1>5. r[Len(s) + 1] = F[<<r[(Len(s) + 1) - 1], t[Len(s) + 1]>>]
  BY <1>1, <1>2 DEF Step
<1>6. (Len(s) + 1) - 1 = Len(s)
  BY <1>1
<1>7. Result(D, F, b, t) = r[Len(s) + 1]
  BY <1>1 DEF Result, r
<1>. QED
  BY <1>1, <1>4, <1>5, <1>6, <1>7 DEF t, Continues

\* last element of a set of positions
LEMMA MaxOf ==
  ASSUME NEW n \in Nat, NEW T \in SUBSET (1..n), T # {}
  PROVE  Max(T) \in T /\ \A y \in T : Max(T) >= y
<1>. DEFINE Good(k) == \A U \in SUBSET (1..k) : U # {} => \E x \in U : \A y \in U : x >= y
            A == {k \in Nat : Good(k)}
<1>1. 0 \in A
  <2>1. \A U \in SUBSET (1..0) : U = {}
    OBVIOUS
  <2>. QED
    BY <2>1
<1>2. ASSUME NEW k \in A PROVE k + 1 \in A
  <2>1. ASSUME NEW U \in SUBSET (1..(k + 1)), U # {} PROVE \E x \in U : \A y \in U : x >= y
    <3>1. CASE k + 1 \in U
      BY <3>1, <1>2
    <3>2. CASE k + 1 \notin U
      <4>1. U \in SUBSET (1..k)
        BY <3>2, <1>2
      <4>. QED
        BY <4>1, <2>1, <1>2
    <3>. QED
      BY <3>1, <3>2
  <2>. QED
    BY <2>1, <1>2
<1>3. n \in A
  <2>. HIDE DEF A
  <2>1. A \subseteq Nat
    BY DEF A
  <2>. QED
    BY <1>1, <1>2, <2>1, NatInduct
<1>4. \E x \in T : \A y \in T : x >= y
  BY <1>3
<1>. QED
  BY <1>4 DEF Max

\* A member that no other exceeds is the maximum.
LEMMA MaxIs ==
  ASSUME NEW n \in Nat, NEW T \in SUBSET (1..n), NEW m \in T, \A y \in T : m >= y
  PROVE  Max(T) = m
<1>1. Max(T) \in T /\ \A y \in T : Max(T) >= y
  BY MaxOf
<1>. DEFINE x == Max(T)
<1>. HIDE DEF x
<1>2. x \in T /\ x >= m /\ m >= x
  BY <1>1 DEF x
<1>3. x \in 1..n /\ m \in 1..n
  BY <1>2
<1>4. x = m
  BY <1>2, <1>3
<1>. QED
  BY <1>4 DEF x

FoldEquation(F, b, s, h, T) ==
  h[T] = IF T = {} THEN b ELSE F[<<h[T \ {Max(T)}], s[Max(T)]>>]

\* The recursive equation of a fold has a solution on all sets of positions.
LEMMA FoldSolution ==
  ASSUME NEW D, NEW E, NEW F \in [D \X E -> D], NEW b \in D, NEW s \in Seq(E)
  PROVE  \E h \in [SUBSET (1..Len(s)) -> D] :
           \A T \in SUBSET (1..Len(s)) : FoldEquation(F, b, s, h, T)
<1>. DEFINE Ok(k) == \E h \in [SUBSET (1..k) -> D] :
                       \A T \in SUBSET (1..k) : FoldEquation(F, b, s, h, T)
            A == {k \in Nat : Ok(k)}
<1>0. Len(s) \in Nat
  OBVIOUS
<1>1. 0 \in A
  <2>. DEFINE h == [T \in SUBSET (1..0) |-> b]
  <2>1. \A T \in SUBSET (1..0) : T = {}
    OBVIOUS
  <2>2. h \in [SUBSET (1..0) -> D] /\ \A T \in SUBSET (1..0) : FoldEquation(F, b, s, h, T)
    BY <2>1 DEF FoldEquation
  <2>. QED
    BY <2>2
<1>2. ASSUME NEW k \in A, k < Len(s) PROVE k + 1 \in A
  <2>1. PICK h \in [SUBSET (1..k) -> D] : \A T \in SUBSET (1..k) : FoldEquation(F, b, s, h, T)
    BY <1>2
  <2>. DEFINE q == [T \in SUBSET (1..(k + 1)) |->
                      IF k + 1 \in T THEN F[<<h[T \ {k + 1}], s[k + 1]>>] ELSE h[T]]
  <2>2. s[k + 1] \in E /\ k \in Nat
    BY <1>2
  <2>3. ASSUME NEW T \in SUBSET (1..(k + 1)) 
        PROVE  /\ T \ {k + 1} \in SUBSET (1..k)
               /\ k + 1 \in T => T # {} /\ Max(T) = k + 1
               /\ k + 1 \notin T => T \in SUBSET (1..k)
    <3>1. ASSUME k + 1 \in T PROVE Max(T) = k + 1
      <4>1. k + 1 \in Nat /\ \A y \in T : k + 1 >= y
        BY <2>2
      <4>. QED
        BY <3>1, <4>1, MaxIs
    <3>. QED
      BY <2>2, <3>1
  <2>4. ASSUME NEW T \in SUBSET (1..(k + 1)) PROVE q[T] \in D
    <3>1. CASE k + 1 \in T
      <4>1. h[T \ {k + 1}] \in D
        BY <2>3, <2>1
      <4>. QED
        BY <3>1, <4>1, <2>2
    <3>2. CASE k + 1 \notin T
      BY <3>2, <2>3, <2>1
    <3>. QED
      BY <3>1, <3>2
  <2>5. ASSUME NEW T \in SUBSET (1..(k + 1)) PROVE FoldEquation(F, b, s, q, T)
    <3>1. CASE k + 1 \in T
      <4>1. T \ {k + 1} \in SUBSET (1..(k + 1)) /\ k + 1 \notin T \ {k + 1}
        OBVIOUS
      <4>2. q[T \ {k + 1}] = h[T \ {k + 1}]
        BY <4>1
      <4>3. q[T] = F[<<h[T \ {k + 1}], s[k + 1]>>]
        BY <3>1
      <4>. HIDE DEF q
      <4>. QED
        BY <3>1, <2>3, <4>2, <4>3 DEF FoldEquation
    <3>2. CASE k + 1 \notin T
      <4>1. T \in SUBSET (1..k)
        BY <3>2, <2>3
      <4>2. FoldEquation(F, b, s, h, T)
        BY <4>1, <2>1
      <4>3. q[T] = h[T]
        BY <3>2
      <4>4. q[T \ {Max(T)}] = h[T \ {Max(T)}]
        BY <3>2
      <4>. HIDE DEF q
      <4>. QED
        BY <4>2, <4>3, <4>4 DEF FoldEquation
    <3>. QED
      BY <3>1, <3>2
  <2>6. q \in [SUBSET (1..(k + 1)) -> D]
    BY <2>4
  <2>. HIDE DEF q
  <2>7. Ok(k + 1)
    BY <2>5, <2>6
  <2>. QED
    BY <2>2, <2>7
<1>3. Len(s) \in A
  <2>. HIDE DEF A
  <2>1. A \subseteq Nat
    BY DEF A
  <2>2. \A k \in 0..Len(s) : k \in A
    BY <1>0, <1>1, <1>2, <2>1, BoundInduct
  <2>. QED
    BY <1>0, <2>2
<1>. QED
  BY <1>3

\* one step of a fold, as its definition reads it
FoldStep(F, D, s, g, k) ==
  g[1..(k - 1)] \in D => g[1..k] = F[<<g[1..(k - 1)], s[k]>>]

Folds(F, D, b, s, g) == g[{}] = b /\ \A k \in 1..Len(s) : FoldStep(F, D, s, g, k)

EndsAs(D, F, b, s, g) == g[1..Len(s)] = Result(D, F, b, s)

\* Whatever satisfies the recursive equation of FoldLeft has the result of the run.
LEMMA FoldIsResult ==
  ASSUME NEW D, NEW E, NEW F \in [D \X E -> D], NEW b \in D, NEW s \in Seq(E),
         NEW g, Folds(F, D, b, s, g)
  PROVE  EndsAs(D, F, b, s, g)
<1>. DEFINE A == {k \in Nat : g[1..k] \in D}
            q == [k \in 0..Len(s) |-> g[1..k]]
<1>0. Len(s) \in Nat /\ DOMAIN s = 1..Len(s)
  OBVIOUS
<1>1. 0 \in A
  <2>1. 1..0 = {}
    OBVIOUS
  <2>. QED
    BY <2>1 DEF Folds
<1>2. ASSUME NEW k \in A, k < Len(s) PROVE k + 1 \in A
  <2>0. k \in Nat /\ g[1..k] \in D
    OBVIOUS
  <2>. HIDE DEF A
  <2>1. k + 1 \in 1..Len(s) /\ (k + 1) - 1 = k /\ s[k + 1] \in E
    BY <1>2, <2>0
  <2>2. g[1..(k + 1)] = F[<<g[1..k], s[k + 1]>>]
    BY <2>0, <2>1 DEF Folds, FoldStep
  <2>. QED
    BY <2>0, <2>1, <2>2 DEF A
<1>3. \A k \in 0..Len(s) : k \in A
  <2>. HIDE DEF A
  <2>1. A \subseteq Nat
    BY DEF A
  <2>. QED
    BY <1>0, <1>1, <1>2, <2>1, BoundInduct
<1>4. Step(F, b, s, q)
  <2>1. q[0] = b
    <3>1. 1..0 = {} /\ 0 \in 0..Len(s)
      BY <1>0
    <3>. QED
      BY <3>1 DEF Folds
  <2>2. ASSUME NEW k \in 1..Len(s) PROVE q[k] = F[<<q[k - 1], s[k]>>]
    <3>1. k - 1 \in 0..Len(s) /\ k \in 0..Len(s)
      BY <1>0
    <3>2. g[1..(k - 1)] \in D
      BY <1>3, <3>1
    <3>3. q[k] = g[1..k] /\ q[k - 1] = g[1..(k - 1)]
      BY <3>1
    <3>. HIDE DEF q
    <3>. QED
      BY <3>2, <3>3 DEF Folds, FoldStep
  <2>. QED
    BY <2>1, <2>2 DEF Step
<1>5. q[Len(s)] = g[1..Len(s)]
  BY <1>0
<1>. HIDE DEF q
<1>6. q[Len(s)] = Result(D, F, b, s)
  BY <1>4, ResultIs DEF Ends
<1>. QED
  BY <1>5, <1>6 DEF EndsAs

GoesOn(D, F, b, s, t) == Result(D, F, b, s \o t) = Result(D, F, Result(D, F, b, s), t)

\* A run over two sequences goes on where the first ended.
LEMMA ResultConcat ==
  ASSUME NEW D, NEW E, NEW F \in [D \X E -> D], NEW b \in D, NEW s \in Seq(E), NEW t \in Seq(E)
  PROVE  GoesOn(D, F, b, s, t)
<1>. DEFINE u == s \o t
            r == Run(D, F, b, u)
            q == [k \in 0..Len(t) |-> r[Len(s) + k]]
<1>1. /\ u \in Seq(E) /\ Len(u) = Len(s) + Len(t) /\ Len(s) \in Nat /\ Len(t) \in Nat
      /\ \A k \in 1..Len(s) : u[k] = s[k]
      /\ \A k \in 1..Len(t) : u[Len(s) + k] = t[k]
  OBVIOUS
<1>2. Step(F, b, u, r)
  BY <1>1, RunSteps
<1>3. Result(D, F, b, u) = r[Len(u)]
  BY DEF Result
<1>. HIDE DEF u, r
<1>4. Step(F, b, s, r)
  BY <1>1, <1>2 DEF Step
<1>5. r[Len(s)] = Result(D, F, b, s)
  BY <1>4, ResultIs DEF Ends
<1>6. Step(F, r[Len(s)], t, q)
  <2>1. q[0] = r[Len(s)]
    BY <1>1
  <2>2. ASSUME NEW k \in 1..Len(t) PROVE q[k] = F[<<q[k - 1], t[k]>>]
    <3>1. /\ Len(s) + k \in 1..Len(u) /\ (Len(s) + k) - 1 = Len(s) + (k - 1)
          /\ k \in 0..Len(t) /\ k - 1 \in 0..Len(t)
      BY <1>1
    <3>2. r[Len(s) + k] = F[<<r[(Len(s) + k) - 1], u[Len(s) + k]>>]
      BY <1>2, <3>1 DEF Step
    <3>3. q[k] = r[Len(s) + k] /\ q[k - 1] = r[Len(s) + (k - 1)]
      BY <3>1
    <3>. QED
      BY <1>1, <3>1, <3>2, <3>3
  <2>. HIDE DEF q
  <2>. QED
    BY <2>1, <2>2 DEF Step
<1>7. q[Len(t)] = r[Len(u)]
  BY <1>1
<1>8. Result(D, F, b, s) \in D
  BY ResultType
<1>. HIDE DEF q
<1>. DEFINE c == Result(D, F, b, s)
<1>. HIDE DEF c
<1>9. Ends(D, F, c, t, q)
  BY <1>5, <1>6, <1>8, ResultIs DEF c
<1>. QED
  BY <1>3, <1>7, <1>9 DEF u, c, Ends, GoesOn

Unfolds(D, E, F, b, s, h) ==
  \A T \in SUBSET DOMAIN s :
    /\ T = {} => h[T] = b
    /\ T # {} => /\ h[T \ {Max(T)}] \in D /\ s[Max(T)] \in E
                 /\ h[T] = F[<<h[T \ {Max(T)}], s[Max(T)]>>]

\* FoldLeft chooses a function that satisfies its recursive equation.
LEMMA FoldStart ==
  ASSUME NEW D, NEW E, NEW F \in [D \X E -> D], NEW b \in D, NEW s \in Seq(E)
  PROVE  \E h : Unfolds(D, E, F, b, s, h)
<1>0. DOMAIN s = 1..Len(s) /\ Len(s) \in Nat
  OBVIOUS
<1>1. PICK h \in [SUBSET (1..Len(s)) -> D] :
           \A T \in SUBSET (1..Len(s)) : FoldEquation(F, b, s, h, T)
  BY FoldSolution
<1>2. ASSUME NEW T \in SUBSET DOMAIN s
      PROVE  /\ T = {} => h[T] = b
             /\ T # {} => /\ h[T \ {Max(T)}] \in D /\ s[Max(T)] \in E
                          /\ h[T] = F[<<h[T \ {Max(T)}], s[Max(T)]>>]
  <2>1. FoldEquation(F, b, s, h, T)
    BY <1>0, <1>1
  <2>2. ASSUME T # {} PROVE h[T \ {Max(T)}] \in D /\ s[Max(T)] \in E
    <3>1. Max(T) \in T
      BY <2>2, <1>0, MaxOf
    <3>2. T \ {Max(T)} \in SUBSET (1..Len(s))
      BY <1>0
    <3>3. h[T \ {Max(T)}] \in D
      BY <3>2, <1>1
    <3>4. s[Max(T)] \in E
      <4>1. Max(T) \in 1..Len(s)
        BY <3>1, <1>0
      <4>. QED
        BY <4>1
    <3>. QED
      BY <3>3, <3>4
  <2>. QED
    BY <2>1, <2>2 DEF FoldEquation
<1>. QED
  BY <1>2 DEF Unfolds

\* The first k positions of a sequence: the last of them is k, and k - 1 are before it.
LEMMA FirstPositions ==
  ASSUME NEW E, NEW s \in Seq(E), NEW k \in 1..Len(s)
  PROVE  /\ (1..k) \in SUBSET DOMAIN s /\ (1..k) # {}
         /\ (1..k) \ {k} = 1..(k - 1) /\ Max(1..k) = k /\ s[k] \in E
<1>0. DOMAIN s = 1..Len(s) /\ Len(s) \in Nat /\ k \in Nat /\ s[k] \in E
  OBVIOUS
<1>1. (1..k) \in SUBSET DOMAIN s /\ (1..k) # {} /\ k \in 1..k /\ \A y \in 1..k : k >= y
  BY <1>0
<1>2. Max(1..k) = k
  BY <1>0, <1>1, MaxIs
<1>3. (1..k) \ {k} = 1..(k - 1)
  BY <1>0
<1>. QED
  BY <1>0, <1>1, <1>2, <1>3

-----------------------------------------------------------------------------
(* Sequences laid end to end *)

\* Induction on a sequence: a set of sequences that has the empty one and is closed under
\* Append has them all.
LEMMA SeqInduct ==
  ASSUME NEW E, NEW T, T \subseteq Seq(E), <<>> \in T,
         \A s \in T, e \in E : Append(s, e) \in T
  PROVE  T = Seq(E)
<1>. DEFINE A == {n \in Nat : \A s \in Seq(E) : Len(s) = n => s \in T}
<1>1. 0 \in A
  <2>1. \A s \in Seq(E) : Len(s) = 0 => s = <<>>
    OBVIOUS
  <2>. QED
    BY <2>1
<1>2. ASSUME NEW n \in A PROVE n + 1 \in A
  <2>1. ASSUME NEW s \in Seq(E), Len(s) = n + 1 PROVE s \in T
    <3>0. n \in Nat /\ s # <<>>
      BY <2>1
    <3>1. PICK t \in Seq(E), e \in E : s = Append(t, e)
      BY <3>0, SequenceEmptyOrAppend
    <3>2. Len(t) = n
      BY <3>0, <3>1, <2>1
    <3>3. t \in T
      BY <3>2, <1>2
    <3>. QED
      BY <3>1, <3>3
  <2>. QED
    BY <2>1, <1>2
<1>3. A = Nat
  <2>. HIDE DEF A
  <2>1. A \subseteq Nat
    BY DEF A
  <2>. QED
    BY <1>1, <1>2, <2>1, NatInduct
<1>4. \A s \in Seq(E) : Len(s) \in Nat
  OBVIOUS
<1>. QED
  BY <1>3, <1>4

-----------------------------------------------------------------------------
FlatFcn(E) == [x \in Seq(E) \X Seq(E) |-> x[1] \o x[2]]

\* Appending a part to a text is a step function on texts.
LEMMA FlatFcnType == ASSUME NEW E PROVE FlatFcn(E) \in [Seq(E) \X Seq(E) -> Seq(E)]
BY DEF FlatFcn

Flat(E, ss) == Result(Seq(E), FlatFcn(E), <<>>, ss)

\* The parts of a text, one after the other, are a text.
LEMMA FlatType ==
  ASSUME NEW E, NEW ss \in Seq(Seq(E))
  PROVE  Flat(E, ss) \in Seq(E)
<1>. DEFINE D == Seq(E)  F == FlatFcn(E)
<1>a. F \in [D \X D -> D]
  BY FlatFcnType
<1>b. <<>> \in D
  OBVIOUS
<1>c. ss \in Seq(D)
  OBVIOUS
<1>. HIDE DEF D, F
<1>2. Result(D, F, <<>>, ss) \in D
  BY <1>a, <1>b, <1>c, ResultType
<1>. QED
  BY <1>2 DEF Flat, D, F

\* FlattenSeq, defined by recursion on its length, is the run that appends part after part.
LEMMA FlattenIsResult ==
  ASSUME NEW E, NEW ss \in Seq(Seq(E))
  PROVE  FlattenSeq(ss) = Flat(E, ss)
<1>. DEFINE n == Len(ss)
            Eqn(f) == f = [i \in 1..n |-> IF i = 1 THEN ss[i] ELSE f[i - 1] \o ss[i]]
            G == CHOOSE f : Eqn(f)
            F == FlatFcn(E)
            r == Run(Seq(E), F, <<>>, ss)
<1>0. n \in Nat /\ <<>> \in Seq(E) /\ \A i \in 1..n : ss[i] \in Seq(E)
  OBVIOUS
<1>1. r \in [0..n -> Seq(E)] /\ Step(F, <<>>, ss, r)
  BY <1>0, FlatFcnType, RunSteps
<1>2. CASE n = 0
  <2>1. ss = <<>>
    BY <1>2
  <2>2. FlattenSeq(ss) = <<>>
    BY <2>1 DEF FlattenSeq
  <2>3. Flat(E, <<>>) = <<>>
    BY <1>0, FlatFcnType, ResultEmpty DEF Flat
  <2>. QED
    BY <2>1, <2>2, <2>3
<1>3. CASE n # 0
  <2>1. FlattenSeq(ss) = G[n]
    BY <1>3 DEF FlattenSeq
  <2>. HIDE DEF r, F
  <2>2. \A x, y \in Seq(E) : F[<<x, y>>] = x \o y
    BY DEF F, FlatFcn
  <2>3. r[0] = <<>> /\ \A k \in 1..n : r[k] = r[k - 1] \o ss[k]
    <3>1. ASSUME NEW k \in 1..n PROVE r[k] = r[k - 1] \o ss[k]
      <4>1. k - 1 \in 0..n /\ ss[k] \in Seq(E)
        BY <1>0
      <4>2. r[k - 1] \in Seq(E)
        BY <4>1, <1>1
      <4>. QED
        BY <4>1, <4>2, <2>2, <1>1 DEF Step
    <3>. QED
      BY <1>1, <3>1 DEF Step
  <2>. HIDE DEF n
  <2>. DEFINE f == [i \in 1..n |-> r[i]]
  <2>4. Eqn(f)
    <3>1. ASSUME NEW i \in 1..n PROVE f[i] = IF i = 1 THEN ss[i] ELSE f[i - 1] \o ss[i]
      <4>1. CASE i = 1
        <5>1. 1 \in 1..n /\ 1 - 1 = 0
          BY <4>1
        <5>2. r[1] = <<>> \o ss[1]
          BY <5>1, <2>3
        <5>. QED
          BY <4>1, <5>1, <5>2, <1>0
      <4>2. CASE i # 1
        <5>1. i - 1 \in 1..n
          BY <4>2, <1>0
        <5>. QED
          BY <4>2, <5>1, <2>3
      <4>. QED
        BY <4>1, <4>2
    <3>. QED
      BY <3>1
  <2>5. Eqn(G)
    BY ZenonT(30), <2>4
  <2>. HIDE DEF G, f
  <2>. DEFINE T == {k \in Nat : k >= 1 => G[k] = r[k]}
  <2>6. 0 \in T
    OBVIOUS
  <2>7. ASSUME NEW k \in T, k < n PROVE k + 1 \in T
    <3>0. k \in Nat /\ k + 1 \in 1..n /\ (k + 1) - 1 = k /\ (k >= 1 => G[k] = r[k])
      BY <1>0, <2>7
    <3>. SUFFICES G[k + 1] = r[k + 1]
      BY <3>0
    <3>. HIDE DEF T
    <3>1. G[k + 1] = IF k + 1 = 1 THEN ss[k + 1] ELSE G[(k + 1) - 1] \o ss[k + 1]
      BY <2>5, <3>0
    <3>2. r[k + 1] = r[(k + 1) - 1] \o ss[k + 1]
      BY <2>3, <3>0
    <3>3. CASE k = 0
      <4>1. k + 1 = 1 /\ r[(k + 1) - 1] = <<>> /\ ss[k + 1] \in Seq(E)
        BY <3>0, <3>3, <1>0, <2>3
      <4>2. <<>> \o ss[k + 1] = ss[k + 1]
        BY <4>1
      <4>. QED
        BY <3>1, <3>2, <4>1, <4>2
    <3>4. CASE k # 0
      <4>1. k >= 1 /\ G[k] = r[k] /\ k + 1 # 1
        BY <3>0, <3>4
      <4>. QED
        BY <3>0, <3>1, <3>2, <3>4, <4>1
    <3>. QED
      BY <3>3, <3>4
  <2>8. \A k \in 0..n : k \in T
    <3>. HIDE DEF T
    <3>1. T \subseteq Nat
      BY DEF T
    <3>. QED
      BY <1>0, <2>6, <2>7, <3>1, BoundInduct
  <2>9. G[n] = r[n]
    BY <2>8, <1>0, <1>3
  <2>. QED
    BY <2>1, <2>9 DEF Flat, Result, r, F, n
<1>. QED
  BY <1>2, <1>3

\* What the parts of a stream are made of, the whole stream is made of.
LEMMA FlattenType ==
  ASSUME NEW E, NEW ss \in Seq(Seq(E))
  PROVE  FlattenSeq(ss) \in Seq(E)
BY FlatType, FlattenIsResult

\* No parts make no text.
LEMMA FlattenEmpty == FlattenSeq(<<>>) = <<>>
BY DEF FlattenSeq

\* A part more is appended to the text.
LEMMA FlattenAppend ==
  ASSUME NEW E, NEW ss \in Seq(Seq(E)), NEW x \in Seq(E)
  PROVE  FlattenSeq(Append(ss, x)) = FlattenSeq(ss) \o x
<1>1. <<>> \in Seq(E) /\ Append(ss, x) \in Seq(Seq(E))
  OBVIOUS
<1>2. Flat(E, Append(ss, x)) = FlatFcn(E)[<<Flat(E, ss), x>>]
  <2>. DEFINE D == Seq(E)  F == FlatFcn(E)
  <2>a. F \in [D \X D -> D]
    BY FlatFcnType
  <2>b. <<>> \in D
    OBVIOUS
  <2>c. x \in D
    OBVIOUS
  <2>d. ss \in Seq(D)
    OBVIOUS
  <2>. HIDE DEF D, F
  <2>2. Continues(D, F, <<>>, ss, x)
    BY <2>a, <2>b, <2>c, <2>d, ResultAppend
  <2>. QED
    BY <2>2 DEF Continues, Flat, D, F
<1>3. Flat(E, ss) \in Seq(E)
  BY FlatType
<1>4. FlatFcn(E)[<<Flat(E, ss), x>>] = Flat(E, ss) \o x
  BY <1>3 DEF FlatFcn
<1>. QED
  BY <1>1, <1>2, <1>4, FlattenIsResult

Regroups(a, b, c) == (a \o b) \o c = a \o (b \o c)

\* Laying end to end is associative.
LEMMA ConcatRegroups ==
  ASSUME NEW S, NEW a \in Seq(S), NEW b \in Seq(S), NEW c \in Seq(S)
  PROVE  Regroups(a, b, c)
BY SMTT(30), ZenonT(30), ConcatAssociative DEF Regroups

\* The whole of two sequences of parts is the one whole after the other.
LEMMA FlattenConcat ==
  ASSUME NEW E, NEW ss \in Seq(Seq(E)), NEW tt \in Seq(Seq(E))
  PROVE  FlattenSeq(ss \o tt) = FlattenSeq(ss) \o FlattenSeq(tt)
<1>. DEFINE T == {t \in Seq(Seq(E)) : FlattenSeq(ss \o t) = FlattenSeq(ss) \o FlattenSeq(t)}
<1>1. <<>> \in T
  <2>1. ss \o <<>> = ss /\ <<>> \in Seq(Seq(E))
    OBVIOUS
  <2>2. FlattenSeq(ss) \o <<>> = FlattenSeq(ss)
    BY FlattenType
  <2>3. FlattenSeq(ss \o <<>>) = FlattenSeq(ss) \o FlattenSeq(<<>>)
    BY <2>1, <2>2, FlattenEmpty
  <2>. QED
    BY <2>1, <2>3
<1>2. ASSUME NEW t \in T, NEW x \in Seq(E) PROVE Append(t, x) \in T
  <2>1. t \in Seq(Seq(E)) /\ ss \o t \in Seq(Seq(E)) /\ ss \o Append(t, x) = Append(ss \o t, x)
    <3>. DEFINE D == Seq(E)  z == <<x>>  u == ss \o t
    <3>1. ss \in Seq(D) /\ t \in Seq(D) /\ x \in D
      OBVIOUS
    <3>. HIDE DEF D, T
    <3>2. z \in Seq(D) /\ u \in Seq(D)
      BY <3>1, ConcatProperties
    <3>3. Append(t, x) = t \o z
      BY <3>1, AppendIsConcat
    <3>4. Append(u, x) = u \o z
      <4>. HIDE DEF u
      <4>. QED
        BY <3>1, <3>2, AppendIsConcat DEF z
    <3>. HIDE DEF z, u
    <3>5. (ss \o t) \o z = ss \o (t \o z)
      <4>1. ss \in Seq(D) /\ t \in Seq(D) /\ z \in Seq(D)
        BY <3>1, <3>2
      <4>2. Regroups(ss, t, z)
        BY <4>1, ConcatRegroups
      <4>. QED
        BY <4>2, Zenon DEF Regroups
    <3>. QED
      BY <3>1, <3>2, <3>3, <3>4, <3>5 DEF D, u
  <2>2. FlattenSeq(Append(ss \o t, x)) = FlattenSeq(ss \o t) \o x
    BY <2>1, FlattenAppend
  <2>3. FlattenSeq(Append(t, x)) = FlattenSeq(t) \o x
    BY <2>1, FlattenAppend
  <2>4. FlattenSeq(ss) \in Seq(E) /\ FlattenSeq(t) \in Seq(E)
    BY <2>1, FlattenType
  <2>5. FlattenSeq(ss \o t) = FlattenSeq(ss) \o FlattenSeq(t)
    OBVIOUS
  <2>. DEFINE a == FlattenSeq(ss)  b == FlattenSeq(t)
  <2>6. (a \o b) \o x = a \o (b \o x)
    <3>. HIDE DEF a, b
    <3>1. a \in Seq(E) /\ b \in Seq(E)
      BY <2>4 DEF a, b
    <3>2. Regroups(a, b, x)
      BY <3>1, ConcatRegroups
    <3>. QED
      BY <3>2, Zenon DEF Regroups
  <2>7. FlattenSeq(ss \o Append(t, x)) = FlattenSeq(ss) \o FlattenSeq(Append(t, x))
    BY <2>1, <2>2, <2>3, <2>5, <2>6
  <2>8. Append(t, x) \in Seq(Seq(E))
    BY <2>1
  <2>. QED
    BY <2>7, <2>8
<1>3. T = Seq(Seq(E))
  <2>. HIDE DEF T
  <2>1. T \subseteq Seq(Seq(E))
    BY DEF T
  <2>. QED
    BY <1>1, <1>2, <2>1, SeqInduct
<1>. QED
  BY <1>3

\* A single part is the whole.
LEMMA FlattenOne ==
  ASSUME NEW E, NEW x \in Seq(E)
  PROVE  FlattenSeq(<<x>>) = x
<1>1. <<>> \in Seq(Seq(E)) /\ Append(<<>>, x) = <<x>> /\ <<>> \o x = x
  OBVIOUS
<1>. QED
  BY <1>1, FlattenAppend, FlattenEmpty

-----------------------------------------------------------------------------
(* The pieces of a text between separators *)

PieceStep(ps, e, Seps) ==
  IF e \in Seps THEN Append(ps, <<>>) ELSE [ps EXCEPT ![Len(ps)] = Append(@, e)]

PiecesOf(E) == Seq(Seq(E)) \ {<<>>}

PieceFcn(E, Seps) == [x \in PiecesOf(E) \X E |-> PieceStep(x[1], x[2], Seps)]

\* An element leaves a sequence of pieces one: there is always a last piece.
LEMMA PieceStepType ==
  ASSUME NEW E, NEW Seps, NEW ps \in PiecesOf(E), NEW e \in E
  PROVE  PieceStep(ps, e, Seps) \in PiecesOf(E)
<1>1. Len(ps) \in 1..Len(ps) /\ ps[Len(ps)] \in Seq(E) /\ ps \in Seq(Seq(E))
  BY DEF PiecesOf
<1>. DEFINE q == [ps EXCEPT ![Len(ps)] = Append(@, e)]
<1>2. q \in Seq(Seq(E)) /\ Len(q) = Len(ps)
  BY <1>1
<1>3. q # <<>>
  BY <1>1, <1>2
<1>. QED
  BY <1>1, <1>2, <1>3 DEF PieceStep, PiecesOf

\* Cutting is a step function on sequences of pieces.
LEMMA PieceFcnType ==
  ASSUME NEW E, NEW Seps
  PROVE  PieceFcn(E, Seps) \in [PiecesOf(E) \X E -> PiecesOf(E)]
BY PieceStepType DEF PieceFcn

\* The pieces of a text, of which the first goes on after l.
Cut(E, Seps, l, t) == Result(PiecesOf(E), PieceFcn(E, Seps), <<l>>, t)

\* An unfinished piece alone is a sequence of pieces.
LEMMA OnePiece ==
  ASSUME NEW E, NEW l \in Seq(E)
  PROVE  <<l>> \in PiecesOf(E)
BY DEF PiecesOf

\* A cut text is a sequence of pieces, at least one.
LEMMA CutType ==
  ASSUME NEW E, NEW Seps, NEW l \in Seq(E), NEW t \in Seq(E)
  PROVE  Cut(E, Seps, l, t) \in PiecesOf(E)
<1>. DEFINE D == PiecesOf(E)  F == PieceFcn(E, Seps)  b == <<l>>
<1>a. F \in [D \X E -> D]
  BY PieceFcnType
<1>b. b \in D
  BY OnePiece
<1>. HIDE DEF D, F, b
<1>1. Result(D, F, b, t) \in D
  BY <1>a, <1>b, ResultType
<1>. QED
  BY <1>1 DEF Cut, D, F, b

\* Nothing more leaves the unfinished piece alone.
LEMMA CutEmpty ==
  ASSUME NEW E, NEW Seps, NEW l \in Seq(E)
  PROVE  Cut(E, Seps, l, <<>>) = <<l>>
<1>. DEFINE D == PiecesOf(E)  F == PieceFcn(E, Seps)  b == <<l>>
<1>a. F \in [D \X E -> D]
  BY PieceFcnType
<1>b. b \in D
  BY OnePiece
<1>. HIDE DEF D, F, b
<1>1. Result(D, F, b, <<>>) = b
  BY <1>a, <1>b, ResultEmpty
<1>. QED
  BY <1>1 DEF Cut, D, F, b

\* One element more: the last piece grows, or a new one begins.
LEMMA CutAppend ==
  ASSUME NEW E, NEW Seps, NEW l \in Seq(E), NEW t \in Seq(E), NEW e \in E
  PROVE  Cut(E, Seps, l, Append(t, e)) = PieceStep(Cut(E, Seps, l, t), e, Seps)
<1>. DEFINE D == PiecesOf(E)  F == PieceFcn(E, Seps)  b == <<l>>
<1>a. F \in [D \X E -> D]
  BY PieceFcnType
<1>b. b \in D
  BY OnePiece
<1>c. Cut(E, Seps, l, t) \in D
  BY CutType
<1>d. \A x \in D : F[<<x, e>>] = PieceStep(x, e, Seps)
  BY DEF PieceFcn
<1>. HIDE DEF D, F, b
<1>1. Continues(D, F, b, t, e)
  BY <1>a, <1>b, ResultAppend
<1>. QED
  BY <1>1, <1>c, <1>d DEF Continues, Cut, D, F, b

\* Pieces, a fold, is the run that cuts element by element from an empty piece.
LEMMA PiecesIsCut ==
  ASSUME NEW E, NEW Seps, NEW s \in Seq(E)
  PROVE  Pieces(s, Seps) = Cut(E, Seps, <<>>, s)
<1>. DEFINE D == PiecesOf(E)
            b == << <<>> >>
            F == PieceFcn(E, Seps)
            Eqn(g) == g = [T \in SUBSET DOMAIN s |->
                             IF T = {} THEN b ELSE PieceStep(g[T \ {Max(T)}], s[Max(T)], Seps)]
            G == CHOOSE g : Eqn(g)
<1>0. DOMAIN s = 1..Len(s)
  OBVIOUS
<1>a. F \in [D \X E -> D]
  BY PieceFcnType
<1>b. b \in D
  <2>1. <<>> \in Seq(E)
    OBVIOUS
  <2>. QED
    BY <2>1, OnePiece
<1>c. \A x \in D, e \in E : F[<<x, e>>] = PieceStep(x, e, Seps)
  BY DEF PieceFcn
<1>1. Pieces(s, Seps) = G[DOMAIN s]
  BY DEF Pieces, FoldLeft, MapThenFoldSet, PieceStep
<1>. HIDE DEF D, b, F
<1>2. PICK h : Unfolds(D, E, F, b, s, h)
  BY <1>a, <1>b, FoldStart
<1>. DEFINE q == [T \in SUBSET DOMAIN s |-> h[T]]
<1>3. Eqn(q)
  BY <1>c, <1>2 DEF Unfolds
<1>4. Eqn(G)
  BY <1>3
<1>. HIDE DEF G
<1>5. G[{}] = b
  BY <1>4
<1>6. ASSUME NEW k \in 1..Len(s) PROVE FoldStep(F, D, s, G, k)
  <2>1. /\ (1..k) \in SUBSET DOMAIN s /\ (1..k) # {}
        /\ (1..k) \ {k} = 1..(k - 1) /\ Max(1..k) = k /\ s[k] \in E
    BY FirstPositions
  <2>2. G[1..k] = PieceStep(G[1..(k - 1)], s[k], Seps)
    BY <2>1, <1>4
  <2>. QED
    BY <2>1, <2>2, <1>c DEF FoldStep
<1>7. Folds(F, D, b, s, G)
  BY <1>5, <1>6 DEF Folds
<1>8. EndsAs(D, F, b, s, G)
  BY <1>a, <1>b, <1>7, FoldIsResult
<1>. QED
  BY <1>0, <1>1, <1>8 DEF EndsAs, D, b, F, Cut

StepsOn(a, p, e, Seps) == PieceStep(a \o p, e, Seps) = a \o PieceStep(p, e, Seps)

\* Complete pieces in front make no difference to what an element does.
LEMMA PieceStepConcat ==
  ASSUME NEW E, NEW Seps, NEW a \in Seq(Seq(E)), NEW p \in PiecesOf(E), NEW e \in E
  PROVE  StepsOn(a, p, e, Seps)
<1>1. /\ p \in Seq(Seq(E)) /\ Len(p) \in Nat \ {0} /\ Len(a \o p) = Len(a) + Len(p)
      /\ a \o p \in Seq(Seq(E)) /\ Len(a) \in Nat
  BY DEF PiecesOf
<1>2. CASE e \in Seps
  <2>1. /\ <<>> \in Seq(E) /\ <<<<>>>> \in Seq(Seq(E))
        /\ Append(p, <<>>) = p \o <<<<>>>> /\ Append(a \o p, <<>>) = (a \o p) \o <<<<>>>>
    BY SMTT(20), ZenonT(30), <1>1
  <2>2. (a \o p) \o <<<<>>>> = a \o (p \o <<<<>>>>)
    <3>. DEFINE D == Seq(E)  z == <<<<>>>>
    <3>1. a \in Seq(D) /\ p \in Seq(D) /\ z \in Seq(D)
      BY <1>1, <2>1
    <3>. HIDE DEF D, z
    <3>2. Regroups(a, p, z)
      BY <3>1, ConcatRegroups
    <3>3. (a \o p) \o z = a \o (p \o z)
      BY <3>2, Zenon DEF Regroups
    <3>. QED
      BY <3>3 DEF z
  <2>. QED
    BY <1>2, <2>1, <2>2 DEF PieceStep, StepsOn
<1>3. CASE e \notin Seps
  <2>. DEFINE x == [a \o p EXCEPT ![Len(a \o p)] = Append(@, e)]
              y == [p EXCEPT ![Len(p)] = Append(@, e)]
  <2>1. (a \o p)[Len(a \o p)] = p[Len(p)] /\ p[Len(p)] \in Seq(E) /\ Append(p[Len(p)], e) \in Seq(E)
    BY <1>1
  <2>0. \A j \in 1..(Len(a) + Len(p)) : j # Len(a) + Len(p) => x[j] = (a \o p)[j]
    <3>. DEFINE z == a \o p
    <3>1. z \in Seq(Seq(E)) /\ Len(z) = Len(a) + Len(p)
      BY <1>1
    <3>. HIDE DEF z
    <3>2. \A j \in 1..Len(z) : j # Len(z) => [z EXCEPT ![Len(z)] = Append(@, e)][j] = z[j]
      BY <3>1
    <3>. QED
      BY <3>1, <3>2 DEF z
  <2>2. /\ x \in Seq(Seq(E)) /\ Len(x) = Len(a) + Len(p)
        /\ y \in Seq(Seq(E)) /\ Len(y) = Len(p)
    BY <1>1, <2>1
  <2>3. ASSUME NEW i \in 1..(Len(a) + Len(p)) PROVE x[i] = (a \o y)[i]
    <3>1. CASE i = Len(a) + Len(p)
      BY <3>1, <1>1, <2>1, <2>2
    <3>2. CASE i <= Len(a)
      <4>1. i # Len(a) + Len(p) /\ i \in 1..Len(a \o p) /\ i \in 1..Len(a)
        BY <3>2, <1>1
      <4>2. x[i] = (a \o p)[i]
        BY <4>1, <2>0
      <4>3. (a \o p)[i] = a[i]
        BY <4>1, <1>1
      <4>4. (a \o y)[i] = a[i]
        <5>. HIDE DEF y
        <5>. QED
          BY <4>1, <1>1, <2>2
      <4>. QED
        BY <4>2, <4>3, <4>4
    <3>3. CASE i > Len(a) /\ i # Len(a) + Len(p)
      <4>1. i \in 1..Len(a \o p) /\ i - Len(a) \in 1..Len(p) /\ i - Len(a) # Len(p)
        BY <3>3, <1>1
      <4>2. x[i] = (a \o p)[i]
        BY <3>3, <2>0
      <4>3. (a \o p)[i] = p[i - Len(a)]
        BY <3>3, <4>1, <1>1
      <4>4. (a \o y)[i] = y[i - Len(a)]
        <5>. HIDE DEF y
        <5>. QED
          BY <3>3, <4>1, <1>1, <2>2
      <4>5. y[i - Len(a)] = p[i - Len(a)]
        BY <4>1, <1>1
      <4>. QED
        BY <4>2, <4>3, <4>4, <4>5
    <3>. QED
      BY <3>1, <3>2, <3>3, <1>1
  <2>4. a \o y \in Seq(Seq(E)) /\ Len(a \o y) = Len(a) + Len(p)
    BY <2>2
  <2>. HIDE DEF x, y
  <2>5. x = a \o y
    BY <2>2, <2>3, <2>4, SeqEqual
  <2>. QED
    BY <1>3, <2>5 DEF PieceStep, StepsOn, x, y
<1>. QED
  BY <1>2, <1>3

-----------------------------------------------------------------------------
(* Cutting a text that is given in two parts *)

\* A sequence that is not empty is its front and its last element.
LEMMA FrontAndLast ==
  ASSUME NEW E, NEW p \in Seq(E), p # <<>>
  PROVE  /\ Front(p) \in Seq(E) /\ Last(p) \in E /\ <<Last(p)>> \in Seq(E)
         /\ Len(p) \in Nat \ {0} /\ Len(Front(p)) = Len(p) - 1
         /\ Front(p) \o <<Last(p)>> = p
         /\ Last(p) = p[Len(p)]
         /\ \A i \in 1..(Len(p) - 1) : Front(p)[i] = p[i]
<1>0. Len(p) \in Nat \ {0} /\ p[Len(p)] \in E
  OBVIOUS
<1>1. /\ Front(p) \in Seq(E) /\ Len(Front(p)) = Len(p) - 1
      /\ \A i \in 1..(Len(p) - 1) : Front(p)[i] = p[i]
  <2>. DEFINE n == Len(p) - 1
  <2>1. n \in Nat /\ 1 \in Int /\ 1 .. n \subseteq 1 .. Len(p)
    BY <1>0
  <2>2. Front(p) = SubSeq(p, 1, n)
    BY DEF Front
  <2>3. \A i \in 1..n : p[i] \in E
    BY <1>0
  <2>. HIDE DEF n
  <2>4. SubSeq(p, 1, n) = [i \in 1..n |-> p[i]]
    BY <2>1
  <2>5. SubSeq(p, 1, n) \in Seq(E) /\ Len(SubSeq(p, 1, n)) = n
    BY <2>1, <2>3, <2>4
  <2>6. \A i \in 1..n : SubSeq(p, 1, n)[i] = p[i]
    BY <2>4
  <2>. QED
    BY <2>2, <2>5, <2>6 DEF n
<1>2. Last(p) = p[Len(p)]
  BY DEF Last
<1>3. <<Last(p)>> \in Seq(E)
  BY <1>0, <1>2
<1>. DEFINE f == Front(p)  l == <<Last(p)>>
<1>4. f \o l = p
  <2>1. l \in Seq(E) /\ Len(l) = 1 /\ l[1] = p[Len(p)]
    BY <1>2, <1>3
  <2>2. f \in Seq(E) /\ Len(f) = Len(p) - 1 /\ \A i \in 1..(Len(p) - 1) : f[i] = p[i]
    BY <1>1
  <2>. HIDE DEF f, l
  <2>3. /\ f \o l \in Seq(E) /\ Len(f \o l) = Len(f) + Len(l)
        /\ \A i \in 1..(Len(f) + Len(l)) :
             (f \o l)[i] = IF i <= Len(f) THEN f[i] ELSE l[i - Len(f)]
    BY <2>1, <2>2, ConcatProperties
  <2>4. Len(f \o l) = Len(p)
    BY <1>0, <2>1, <2>2, <2>3
  <2>5. ASSUME NEW i \in 1..Len(p) PROVE (f \o l)[i] = p[i]
    <3>1. CASE i <= Len(p) - 1
      <4>1. i \in 1..(Len(f) + Len(l)) /\ i <= Len(f) /\ i \in 1..(Len(p) - 1)
        BY <1>0, <2>1, <2>2, <3>1
      <4>. QED
        BY <4>1, <2>2, <2>3
    <3>2. CASE i = Len(p)
      <4>1. i \in 1..(Len(f) + Len(l)) /\ ~(i <= Len(f)) /\ i - Len(f) = 1
        BY <1>0, <2>1, <2>2, <3>2
      <4>. QED
        BY <4>1, <2>1, <2>3, <3>2
    <3>3. i <= Len(p) - 1 \/ i = Len(p)
      BY <1>0
    <3>. QED
      BY <3>1, <3>2, <3>3
  <2>. QED
    BY <2>3, <2>4, <2>5, SeqEqual
<1>. QED
  BY <1>0, <1>1, <1>2, <1>3, <1>4

Joined(E, Seps, l, s, t) ==
  Cut(E, Seps, l, s \o t) = Front(Cut(E, Seps, l, s)) \o Cut(E, Seps, Last(Cut(E, Seps, l, s)), t)

\* A text in two parts: the second goes on in the piece where the first ended.
LEMMA CutConcat ==
  ASSUME NEW E, NEW Seps, NEW l \in Seq(E), NEW s \in Seq(E), NEW t \in Seq(E)
  PROVE  Joined(E, Seps, l, s, t)
<1>. DEFINE p == Cut(E, Seps, l, s)
            Same(u) == Cut(E, Seps, l, s \o u) = Front(p) \o Cut(E, Seps, Last(p), u)
            T == {u \in Seq(E) : Same(u)}
<1>1. p \in Seq(Seq(E)) /\ p # <<>>
  BY CutType DEF PiecesOf
<1>. HIDE DEF p
<1>2. /\ Front(p) \in Seq(Seq(E)) /\ Last(p) \in Seq(E) /\ Front(p) \o <<Last(p)>> = p
  <2>. DEFINE D == Seq(E)
  <2>. HIDE DEF D
  <2>1. p \in Seq(D)
    BY <1>1 DEF D
  <2>2. Front(p) \in Seq(D) /\ Last(p) \in D /\ Front(p) \o <<Last(p)>> = p
    BY <1>1, <2>1, FrontAndLast
  <2>. QED
    BY <2>2 DEF D
<1>3. <<>> \in T
  <2>1. s \o <<>> = s /\ <<>> \in Seq(E)
    OBVIOUS
  <2>2. Cut(E, Seps, Last(p), <<>>) = <<Last(p)>>
    BY <1>2, CutEmpty
  <2>3. Same(<<>>)
    BY <1>2, <2>1, <2>2 DEF p
  <2>. QED
    BY <2>1, <2>3
<1>4. ASSUME NEW u \in T, NEW e \in E PROVE Append(u, e) \in T
  <2>1. u \in Seq(E) /\ s \o u \in Seq(E) /\ Append(u, e) \in Seq(E)
        /\ s \o Append(u, e) = Append(s \o u, e)
    BY <1>4
  <2>2. Cut(E, Seps, l, Append(s \o u, e)) = PieceStep(Cut(E, Seps, l, s \o u), e, Seps)
    BY <2>1, CutAppend
  <2>3. Cut(E, Seps, l, s \o u) = Front(p) \o Cut(E, Seps, Last(p), u)
    BY <1>4
  <2>4. Cut(E, Seps, Last(p), u) \in PiecesOf(E)
    BY <1>2, <2>1, CutType
  <2>5. PieceStep(Front(p) \o Cut(E, Seps, Last(p), u), e, Seps)
          = Front(p) \o PieceStep(Cut(E, Seps, Last(p), u), e, Seps)
    <3>. DEFINE a == Front(p)  c == Cut(E, Seps, Last(p), u)
    <3>1. a \in Seq(Seq(E))
      BY <1>2
    <3>2. c \in PiecesOf(E)
      BY <2>4
    <3>. HIDE DEF a, c
    <3>3. StepsOn(a, c, e, Seps)
      BY <3>1, <3>2, PieceStepConcat
    <3>. QED
      BY <3>3 DEF StepsOn, a, c
  <2>6. Cut(E, Seps, Last(p), Append(u, e)) = PieceStep(Cut(E, Seps, Last(p), u), e, Seps)
    BY <1>2, <2>1, CutAppend
  <2>7. Same(Append(u, e))
    BY <2>1, <2>2, <2>3, <2>5, <2>6
  <2>. QED
    BY <2>1, <2>7
<1>5. T = Seq(E)
  <2>. HIDE DEF Same
  <2>1. T \subseteq Seq(E)
    OBVIOUS
  <2>. HIDE DEF T
  <2>. QED
    BY <1>3, <1>4, <2>1, SeqInduct
<1>. QED
  BY <1>5 DEF p, Joined

\* No separator in it.
Solid(l, Seps) == \A i \in 1..Len(l) : l[i] \notin Seps

\* A text without a separator is one piece.
LEMMA CutSolid ==
  ASSUME NEW E, NEW Seps, NEW l \in Seq(E), Solid(l, Seps)
  PROVE  Cut(E, Seps, <<>>, l) = <<l>>
<1>. DEFINE T == {u \in Seq(E) : Solid(u, Seps) => Cut(E, Seps, <<>>, u) = <<u>>}
<1>0. <<>> \in Seq(E)
  OBVIOUS
<1>1. <<>> \in T
  BY <1>0, CutEmpty
<1>2. ASSUME NEW u \in T, NEW e \in E PROVE Append(u, e) \in T
  <2>1. u \in Seq(E) /\ Append(u, e) \in Seq(E)
    BY <1>2
  <2>2. ASSUME Solid(Append(u, e), Seps) PROVE Cut(E, Seps, <<>>, Append(u, e)) = <<Append(u, e)>>
    <3>1. Solid(u, Seps) /\ e \notin Seps
      <4>1. /\ Len(Append(u, e)) = Len(u) + 1 /\ Len(u) \in Nat /\ Append(u, e)[Len(u) + 1] = e
            /\ \A i \in 1..Len(u) : Append(u, e)[i] = u[i]
        BY <2>1
      <4>. QED
        BY <4>1, <2>2 DEF Solid
    <3>2. Cut(E, Seps, <<>>, u) = <<u>>
      BY <1>2, <3>1
    <3>3. Cut(E, Seps, <<>>, Append(u, e)) = PieceStep(<<u>>, e, Seps)
      <4>1. <<>> \in Seq(E) /\ u \in Seq(E) /\ e \in E
        BY <1>0, <2>1
      <4>2. Cut(E, Seps, <<>>, Append(u, e)) = PieceStep(Cut(E, Seps, <<>>, u), e, Seps)
        BY SMTT(20), ZenonT(30), <4>1, CutAppend
      <4>. QED
        BY <3>2, <4>2
    <3>4. PieceStep(<<u>>, e, Seps) = [<<u>> EXCEPT ![1] = Append(u, e)]
      BY <3>1 DEF PieceStep
    <3>5. [<<u>> EXCEPT ![1] = Append(u, e)] = <<Append(u, e)>>
      OBVIOUS
    <3>. QED
      BY <3>3, <3>4, <3>5
  <2>. QED
    BY <2>1, <2>2
<1>3. T = Seq(E)
  <2>1. T \subseteq Seq(E)
    OBVIOUS
  <2>. HIDE DEF T
  <2>. QED
    BY <1>1, <1>2, <2>1, SeqInduct
<1>. QED
  BY <1>3

\* The last piece, which waits for its separator, has none in it.
LEMMA LastIsSolid ==
  ASSUME NEW E, NEW Seps, NEW s \in Seq(E)
  PROVE  Solid(Last(Cut(E, Seps, <<>>, s)), Seps)
<1>. DEFINE T == {u \in Seq(E) : Solid(Last(Cut(E, Seps, <<>>, u)), Seps)}
<1>0. <<>> \in Seq(E)
  OBVIOUS
<1>1. <<>> \in T
  <2>1. Cut(E, Seps, <<>>, <<>>) = << <<>> >>
    BY <1>0, CutEmpty
  <2>2. Last(<< <<>> >>) = <<>>
    BY DEF Last
  <2>. QED
    BY <1>0, <2>1, <2>2 DEF Solid
<1>2. ASSUME NEW u \in T, NEW e \in E PROVE Append(u, e) \in T
  <2>. DEFINE p == Cut(E, Seps, <<>>, u)  q == PieceStep(p, e, Seps)
  <2>1. u \in Seq(E) /\ Append(u, e) \in Seq(E)
    BY <1>2
  <2>2. p \in Seq(Seq(E)) /\ p # <<>> /\ Len(p) \in Nat \ {0}
    <3>1. p \in PiecesOf(E)
      BY <1>0, <2>1, CutType
    <3>. HIDE DEF p
    <3>2. p \in Seq(Seq(E)) /\ p # <<>>
      BY <3>1 DEF PiecesOf
    <3>. QED
      BY <3>2
  <2>3. Cut(E, Seps, <<>>, Append(u, e)) = q
    BY <1>0, <2>1, CutAppend
  <2>4. Solid(p[Len(p)], Seps)
    BY <1>2 DEF Last
  <2>5. p[Len(p)] \in Seq(E)
    BY <2>2
  <2>. HIDE DEF p
  <2>6. Solid(q[Len(q)], Seps)
    <3>1. CASE e \in Seps
      <4>1. q = Append(p, <<>>)
        BY <3>1 DEF PieceStep
      <4>2. q[Len(q)] = <<>>
        BY <2>2, <4>1
      <4>. QED
        BY <4>2 DEF Solid
    <3>2. CASE e \notin Seps
      <4>1. Len(q) = Len(p) /\ q[Len(p)] = Append(p[Len(p)], e)
        BY <2>2, <3>2 DEF PieceStep
      <4>. DEFINE l == p[Len(p)]
      <4>. HIDE DEF l
      <4>2. Solid(Append(l, e), Seps)
        BY <2>4, <2>5, <3>2 DEF Solid, l
      <4>. QED
        BY <4>1, <4>2 DEF l
    <3>. QED
      BY <3>1, <3>2
  <2>7. Last(q) = q[Len(q)]
    BY DEF Last
  <2>. QED
    BY <2>1, <2>3, <2>6, <2>7
<1>3. T = Seq(E)
  <2>1. T \subseteq Seq(E)
    OBVIOUS
  <2>. HIDE DEF T
  <2>. QED
    BY <1>1, <1>2, <2>1, SeqInduct
<1>. QED
  BY <1>3

\* Pieces returns a sequence of pieces, at least one.
LEMMA PiecesType ==
  ASSUME NEW E, NEW Seps, NEW s \in Seq(E)
  PROVE  Pieces(s, Seps) \in Seq(Seq(E)) /\ Pieces(s, Seps) # <<>>
<1>1. <<>> \in Seq(E)
  OBVIOUS
<1>2. Pieces(s, Seps) \in PiecesOf(E)
  BY <1>1, PiecesIsCut, CutType
<1>. QED
  BY <1>2 DEF PiecesOf

\* The pieces of a text that goes on: the last one goes on.
Extends(s, t, Seps) ==
  Pieces(s \o t, Seps) = Front(Pieces(s, Seps)) \o Pieces(Last(Pieces(s, Seps)) \o t, Seps)

\* A decoder may forget the complete lines: what follows only goes on with the last piece.
LEMMA PiecesGoOn ==
  ASSUME NEW E, NEW Seps, NEW s \in Seq(E), NEW t \in Seq(E)
  PROVE  /\ Extends(s, t, Seps)
         /\ Pieces(Last(Pieces(s, Seps)) \o t, Seps) = Cut(E, Seps, Last(Pieces(s, Seps)), t)
<1>. DEFINE p == Pieces(s, Seps)  l == Last(p)  D == Seq(E)
<1>0. <<>> \in Seq(E) /\ s \o t \in Seq(E)
  OBVIOUS
<1>1. p \in Seq(Seq(E)) /\ p # <<>>
  BY PiecesType
<1>2. p = Cut(E, Seps, <<>>, s)
  BY PiecesIsCut
<1>. HIDE DEF p
<1>3. l \in Seq(E)
  <2>. HIDE DEF D
  <2>1. p \in Seq(D)
    BY <1>1 DEF D
  <2>2. Last(p) \in D
    BY <1>1, <2>1, FrontAndLast
  <2>. QED
    BY <2>2 DEF D
<1>4. Solid(l, Seps)
  BY <1>2, LastIsSolid
<1>. HIDE DEF l
<1>5. l \o t \in Seq(E)
  BY <1>3
<1>6. Cut(E, Seps, <<>>, l) = <<l>>
  BY <1>3, <1>4, CutSolid
<1>7. Front(<<l>>) = <<>> /\ Last(<<l>>) = l
  BY <1>3 DEF Front, Last
<1>8. Cut(E, Seps, <<>>, l \o t) = <<>> \o Cut(E, Seps, l, t)
  <2>1. Joined(E, Seps, <<>>, l, t)
    BY <1>0, <1>3, CutConcat
  <2>. QED
    BY <1>6, <1>7, <2>1 DEF Joined
<1>9. Cut(E, Seps, l, t) \in Seq(Seq(E))
  BY <1>3, CutType DEF PiecesOf
<1>10. <<>> \o Cut(E, Seps, l, t) = Cut(E, Seps, l, t)
  BY <1>9
<1>11. Pieces(l \o t, Seps) = Cut(E, Seps, l, t)
  BY <1>5, <1>8, <1>10, PiecesIsCut
<1>12. Cut(E, Seps, <<>>, s \o t) = Front(p) \o Cut(E, Seps, l, t)
  <2>1. Joined(E, Seps, <<>>, s, t)
    BY <1>0, CutConcat
  <2>. QED
    BY <1>2, <2>1 DEF Joined, l
<1>13. Pieces(s \o t, Seps) = Cut(E, Seps, <<>>, s \o t)
  BY <1>0, PiecesIsCut
<1>. QED
  BY <1>11, <1>12, <1>13 DEF Extends, l, p

\* A line that waits for its newline never gets shorter by what follows.
LEMMA FirstGrows ==
  ASSUME NEW E, NEW Seps, NEW l \in Seq(E), NEW t \in Seq(E)
  PROVE  Len(Cut(E, Seps, l, t)[1]) >= Len(l)
<1>. DEFINE T == {u \in Seq(E) : Len(Cut(E, Seps, l, u)[1]) >= Len(l)}
<1>0. Len(l) \in Nat
  OBVIOUS
<1>1. <<>> \in T
  <2>1. Cut(E, Seps, l, <<>>)[1] = l /\ <<>> \in Seq(E)
    BY CutEmpty
  <2>. QED
    BY <1>0, <2>1
<1>2. ASSUME NEW u \in T, NEW e \in E PROVE Append(u, e) \in T
  <2>. DEFINE p == Cut(E, Seps, l, u)  q == PieceStep(p, e, Seps)
  <2>1. u \in Seq(E) /\ Append(u, e) \in Seq(E)
    BY <1>2
  <2>2. p \in Seq(Seq(E)) /\ p # <<>> /\ Len(p) \in Nat \ {0}
    BY <2>1, CutType DEF PiecesOf
  <2>3. Cut(E, Seps, l, Append(u, e)) = q
    BY <2>1, CutAppend
  <2>4. Len(p[1]) >= Len(l)
    BY <1>2
  <2>5. p[1] \in Seq(E) /\ Len(p[1]) \in Nat
    BY <2>2
  <2>. HIDE DEF p
  <2>6. Len(q[1]) >= Len(l)
    <3>1. CASE e \in Seps
      <4>1. q = Append(p, <<>>)
        BY <3>1 DEF PieceStep
      <4>2. q[1] = p[1]
        BY <2>2, <4>1
      <4>. QED
        BY <2>4, <4>2
    <3>2. CASE e \notin Seps
      <4>1. CASE Len(p) = 1
        <5>1. q[1] = Append(p[1], e)
          BY <2>2, <3>2, <4>1 DEF PieceStep
        <5>. QED
          BY <1>0, <2>4, <2>5, <5>1
      <4>2. CASE Len(p) # 1
        <5>1. q[1] = p[1]
          BY <2>2, <3>2, <4>2 DEF PieceStep
        <5>. QED
          BY <2>4, <5>1
      <4>. QED
        BY <4>1, <4>2
    <3>. QED
      BY <3>1, <3>2
  <2>. HIDE DEF q
  <2>. QED
    BY <2>1, <2>3, <2>6
<1>3. T = Seq(E)
  <2>1. T \subseteq Seq(E)
    OBVIOUS
  <2>. HIDE DEF T
  <2>. QED
    BY <1>1, <1>2, <2>1, SeqInduct
<1>. QED
  BY <1>3

-----------------------------------------------------------------------------
(* The frames of complete lines *)

\* The first k elements of a sequence.
LEMMA PrefixType ==
  ASSUME NEW E, NEW s \in Seq(E), NEW k \in Nat, k <= Len(s)
  PROVE  /\ SubSeq(s, 1, k) \in Seq(E) /\ Len(SubSeq(s, 1, k)) = k
         /\ \A i \in 1..k : SubSeq(s, 1, k)[i] = s[i]
<1>1. \A i \in 1..k : s[i] \in E
  OBVIOUS
<1>2. /\ SubSeq(s, 1, k) \in Seq(E)
      /\ Len(SubSeq(s, 1, k)) = IF 1 <= k THEN k - 1 + 1 ELSE 0
      /\ \A i \in 1..(k - 1 + 1) : SubSeq(s, 1, k)[i] = s[1 + i - 1]
  BY <1>1, SubSeqProperties
<1>3. \A i \in 1..k : i \in 1..(k - 1 + 1) /\ 1 + i - 1 = i
  OBVIOUS
<1>. HIDE DEF NatInduct
<1>4. \A i \in 1..k : SubSeq(s, 1, k)[i] = s[i]
  BY <1>2, <1>3
<1>5. Len(SubSeq(s, 1, k)) = k
  BY <1>2
<1>. QED
  BY <1>2, <1>4, <1>5

\* The beginning of a concatenation.
LEMMA PrefixOfConcat ==
  ASSUME NEW E, NEW a \in Seq(E), NEW b \in Seq(E), NEW k \in Nat, k <= Len(a)
  PROVE  SubSeq(a \o b, 1, k) = SubSeq(a, 1, k)
<1>1. /\ a \o b \in Seq(E) /\ Len(a \o b) = Len(a) + Len(b)
      /\ \A i \in 1..(Len(a) + Len(b)) : (a \o b)[i] = IF i <= Len(a) THEN a[i] ELSE b[i - Len(a)]
  BY ConcatProperties
<1>2. Len(a) \in Nat /\ Len(b) \in Nat /\ k <= Len(a \o b)
  BY <1>1
<1>. DEFINE c == a \o b  x == SubSeq(c, 1, k)  y == SubSeq(a, 1, k)
<1>3. x \in Seq(E) /\ Len(x) = k /\ \A i \in 1..k : x[i] = c[i]
  <2>1. c \in Seq(E) /\ k <= Len(c)
    BY <1>1, <1>2
  <2>. HIDE DEF c
  <2>. QED
    BY <2>1, PrefixType
<1>4. y \in Seq(E) /\ Len(y) = k /\ \A i \in 1..k : y[i] = a[i]
  BY PrefixType
<1>5. \A i \in 1..k : c[i] = a[i]
  BY <1>1, <1>2
<1>. HIDE DEF x, y, c
<1>6. x = y
  BY <1>3, <1>4, <1>5, SeqEqual
<1>. QED
  BY <1>6 DEF x, y, c

\* The beginning of a concatenation that takes all of its first part.
LEMMA PrefixBeyond ==
  ASSUME NEW E, NEW a \in Seq(E), NEW b \in Seq(E), NEW k \in Nat, k <= Len(b)
  PROVE  SubSeq(a \o b, 1, Len(a) + k) = a \o SubSeq(b, 1, k)
<1>1. /\ a \o b \in Seq(E) /\ Len(a \o b) = Len(a) + Len(b)
      /\ \A i \in 1..(Len(a) + Len(b)) : (a \o b)[i] = IF i <= Len(a) THEN a[i] ELSE b[i - Len(a)]
  BY ConcatProperties
<1>2. Len(a) \in Nat /\ Len(b) \in Nat /\ Len(a) + k \in Nat /\ Len(a) + k <= Len(a \o b)
  BY <1>1
<1>. DEFINE c == a \o b  n == Len(a) + k  x == SubSeq(c, 1, n)  y == SubSeq(b, 1, k)
<1>3. x \in Seq(E) /\ Len(x) = n /\ \A i \in 1..n : x[i] = c[i]
  <2>1. c \in Seq(E) /\ n \in Nat /\ n <= Len(c)
    BY <1>1, <1>2
  <2>. HIDE DEF c, n
  <2>. QED
    BY <2>1, PrefixType
<1>4. y \in Seq(E) /\ Len(y) = k /\ \A i \in 1..k : y[i] = b[i]
  BY PrefixType
<1>5. /\ a \o y \in Seq(E) /\ Len(a \o y) = Len(a) + Len(y)
      /\ \A i \in 1..(Len(a) + Len(y)) : (a \o y)[i] = IF i <= Len(a) THEN a[i] ELSE y[i - Len(a)]
  <2>. HIDE DEF y
  <2>. QED
    BY <1>4, ConcatProperties
<1>6. ASSUME NEW i \in 1..n PROVE x[i] = (a \o y)[i]
  <2>. HIDE DEF y, x
  <2>1. x[i] = IF i <= Len(a) THEN a[i] ELSE b[i - Len(a)]
    BY <1>1, <1>2, <1>3
  <2>2. (a \o y)[i] = IF i <= Len(a) THEN a[i] ELSE y[i - Len(a)]
    BY <1>2, <1>4, <1>5
  <2>3. ~(i <= Len(a)) => i - Len(a) \in 1..k
    BY <1>2
  <2>. QED
    BY <1>4, <2>1, <2>2, <2>3
<1>. DEFINE z == a \o y
<1>7. Len(z) = n
  BY <1>4, <1>5
<1>. HIDE DEF x, y, c, z
<1>8. x = z
  <2>1. x \in Seq(E) /\ z \in Seq(E) /\ Len(x) = Len(z) /\ \A i \in 1..Len(x) : x[i] = z[i]
    BY <1>3, <1>5, <1>6, <1>7 DEF z
  <2>. QED
    BY <2>1, SeqEqual
<1>. QED
  BY <1>8 DEF x, y, c, z

\* The complete lines are all but the last.
LEMMA FrontIsPrefix ==
  ASSUME NEW E, NEW p \in Seq(E), p # <<>>
  PROVE  Front(p) = SubSeq(p, 1, Len(p) - 1)
BY DEF Front

\* The line without its carriage return is a line, and no longer.
LEMMA StripCrType ==
  ASSUME NEW E, NEW l \in Seq(E)
  PROVE  StripCr(l) \in Seq(E) /\ Len(StripCr(l)) <= Len(l) /\ Len(StripCr(l)) \in Nat
<1>1. CASE l # <<>>
  <2>1. Front(l) \in Seq(E) /\ Len(l) \in Nat \ {0} /\ Len(Front(l)) = Len(l) - 1
    BY <1>1, FrontAndLast
  <2>. QED
    BY <2>1 DEF StripCr
<1>2. CASE l = <<>>
  BY <1>2 DEF StripCr
<1>. QED
  BY <1>1, <1>2

\* What NonEmpty makes of a line.
Kept(l) == IF StripCr(l) = <<>> THEN <<>> ELSE <<StripCr(l)>>

\* What a line gives is a frame or nothing.
LEMMA KeptType ==
  ASSUME NEW E, NEW l \in Seq(E)
  PROVE  Kept(l) \in Seq(Seq(E))
BY StripCrType DEF Kept

KeptOf(lines) == [i \in DOMAIN lines |-> Kept(lines[i])]

\* NonEmpty lays end to end what each line gives.
LEMMA NonEmptyIs ==
  ASSUME NEW lines
  PROVE  NonEmpty(lines) = FlattenSeq(KeptOf(lines))
BY DEF NonEmpty, KeptOf, Kept

\* What the lines give, line by line.
LEMMA KeptOfType ==
  ASSUME NEW E, NEW ls \in Seq(Seq(E))
  PROVE  KeptOf(ls) \in Seq(Seq(Seq(E))) /\ Len(KeptOf(ls)) = Len(ls)
         /\ \A i \in 1..Len(ls) : KeptOf(ls)[i] = Kept(ls[i])
<1>1. DOMAIN ls = 1..Len(ls) /\ Len(ls) \in Nat /\ \A i \in 1..Len(ls) : ls[i] \in Seq(E)
  OBVIOUS
<1>2. \A i \in 1..Len(ls) : Kept(ls[i]) \in Seq(Seq(E))
  BY <1>1, KeptType
<1>3. KeptOf(ls) = [i \in 1..Len(ls) |-> Kept(ls[i])]
  BY <1>1 DEF KeptOf
<1>. DEFINE D == Seq(Seq(E))  n == Len(ls)
<1>4. \A i \in 1..n : Kept(ls[i]) \in D
  BY <1>2
<1>5. n \in Nat
  BY <1>1
<1>. HIDE DEF D, n
<1>6. [i \in 1..n |-> Kept(ls[i])] \in Seq(D) /\ Len([i \in 1..n |-> Kept(ls[i])]) = n
  BY <1>4, <1>5
<1>. QED
  BY <1>3, <1>6 DEF D, n

\* The frames of lines are frames.
LEMMA NonEmptyType ==
  ASSUME NEW E, NEW ls \in Seq(Seq(E))
  PROVE  NonEmpty(ls) \in Seq(Seq(E))
<1>. DEFINE D == Seq(E)  k == KeptOf(ls)
<1>1. k \in Seq(Seq(D))
  BY KeptOfType
<1>. HIDE DEF D, k
<1>2. FlattenSeq(k) \in Seq(D)
  BY <1>1, FlattenType
<1>. QED
  BY <1>2, NonEmptyIs DEF D, k

NonEmptyJoins(a, b) == NonEmpty(a \o b) = NonEmpty(a) \o NonEmpty(b)

\* The frames of lines, and of more lines after them.
LEMMA NonEmptyConcat ==
  ASSUME NEW E, NEW a \in Seq(Seq(E)), NEW b \in Seq(Seq(E))
  PROVE  NonEmptyJoins(a, b)
<1>. DEFINE c == a \o b  ka == KeptOf(a)  kb == KeptOf(b)  kc == KeptOf(c)  D == Seq(E)
<1>1. /\ c \in Seq(D) /\ Len(c) = Len(a) + Len(b) /\ Len(a) \in Nat /\ Len(b) \in Nat
      /\ \A i \in 1..(Len(a) + Len(b)) : c[i] = IF i <= Len(a) THEN a[i] ELSE b[i - Len(a)]
  <2>1. a \in Seq(D) /\ b \in Seq(D)
    OBVIOUS
  <2>. HIDE DEF D
  <2>. QED
    BY <2>1, ConcatProperties
<1>2. /\ ka \in Seq(Seq(D)) /\ Len(ka) = Len(a) /\ \A i \in 1..Len(a) : ka[i] = Kept(a[i])
      /\ kb \in Seq(Seq(D)) /\ Len(kb) = Len(b) /\ \A i \in 1..Len(b) : kb[i] = Kept(b[i])
  BY KeptOfType
<1>3. kc \in Seq(Seq(D)) /\ Len(kc) = Len(c) /\ \A i \in 1..Len(c) : kc[i] = Kept(c[i])
  <2>. HIDE DEF c
  <2>. QED
    BY <1>1, KeptOfType
<1>. HIDE DEF c, ka, kb, kc
<1>4. kc = ka \o kb
  <2>. DEFINE G == Seq(D)
  <2>1. ka \in Seq(G) /\ kb \in Seq(G) /\ kc \in Seq(G)
    BY <1>2, <1>3
  <2>. HIDE DEF G, D
  <2>2. /\ ka \o kb \in Seq(G) /\ Len(ka \o kb) = Len(ka) + Len(kb)
        /\ \A i \in 1..(Len(ka) + Len(kb)) :
             (ka \o kb)[i] = IF i <= Len(ka) THEN ka[i] ELSE kb[i - Len(ka)]
    BY <2>1, ConcatProperties
  <2>3. ASSUME NEW i \in 1..Len(kc) PROVE kc[i] = (ka \o kb)[i]
    <3>0. i \in 1..(Len(a) + Len(b)) /\ i \in Int
      BY <1>1, <1>3
    <3>1. CASE i <= Len(a)
      <4>1. i \in 1..Len(a) /\ i \in 1..Len(c)
        BY <3>0, <3>1, <1>1
      <4>2. kc[i] = Kept(a[i]) /\ ka[i] = Kept(a[i])
        BY <4>1, <3>0, <3>1, <1>1, <1>2, <1>3
      <4>3. (ka \o kb)[i] = ka[i]
        BY <3>0, <3>1, <1>2, <2>2
      <4>. QED
        BY <4>2, <4>3
    <3>2. CASE ~(i <= Len(a))
      <4>1. i - Len(a) \in 1..Len(b) /\ i \in 1..Len(c)
        BY <3>0, <3>2, <1>1
      <4>2. kc[i] = Kept(b[i - Len(a)]) /\ kb[i - Len(a)] = Kept(b[i - Len(a)])
        BY <4>1, <3>0, <3>2, <1>1, <1>2, <1>3
      <4>3. (ka \o kb)[i] = kb[i - Len(a)]
        BY <3>0, <3>2, <1>2, <2>2
      <4>. QED
        BY <4>2, <4>3
    <3>. QED
      BY <3>1, <3>2
  <2>4. Len(kc) = Len(ka \o kb)
    BY <1>1, <1>2, <1>3, <2>2
  <2>. QED
    BY <2>1, <2>2, <2>3, <2>4, SeqEqual
<1>5. FlattenSeq(ka \o kb) = FlattenSeq(ka) \o FlattenSeq(kb)
  <2>. HIDE DEF D
  <2>. QED
    BY <1>2, FlattenConcat
<1>6. NonEmpty(c) = FlattenSeq(kc) /\ NonEmpty(a) = FlattenSeq(ka) /\ NonEmpty(b) = FlattenSeq(kb)
  BY NonEmptyIs DEF ka, kb, kc
<1>. QED
  BY <1>4, <1>5, <1>6 DEF NonEmptyJoins, c

-----------------------------------------------------------------------------
(* NdjsonFrameDecoder: one feed *)

\* A set of numbers that is not empty has its minimum.
LEMMA MinOf ==
  ASSUME NEW T, T \subseteq Nat, T # {}
  PROVE  Min(T) \in T /\ \A y \in T : Min(T) <= y
<1>. DEFINE R == OpToRel(<, Nat)
<1>1. PICK m \in T : \A k \in T : <<k, m>> \notin R
  BY NatLessThanWellFounded, WFMin
<1>2. \A k \in T : m <= k
  <2>1. ASSUME NEW k \in T PROVE m <= k
    <3>1. <<k, m>> \notin R
      BY <1>1
    <3>2. ~(k < m)
      BY <3>1 DEF OpToRel
    <3>. QED
      BY <3>2
  <2>. QED
    BY <2>1
<1>. QED
  BY <1>2 DEF Min

Decoder(E) == [rest : Seq(E), frames : Seq(Seq(E)), over : BOOLEAN]

\* The lines of what is fed, those too long, and those it makes frames of.
LinesOf(d, c) == Pieces(d.rest \o c, {"n"})
LongOf(ls) == {i \in 1..(Len(ls) - 1) : Len(StripCr(ls[i])) > MaxFrame}
WholeOf(ls) == IF LongOf(ls) = {} THEN Front(ls) ELSE SubSeq(ls, 1, Min(LongOf(ls)) - 1)
OverOf(ls) == LongOf(ls) # {} \/ Len(Last(ls)) > MaxFrame

\* feed(), in terms of the lines the buffer now holds.
LEMMA FrameFeedIs ==
  ASSUME NEW d, NEW c
  PROVE  FrameFeed(d, c) =
           IF d.over THEN d
           ELSE [rest |-> IF OverOf(LinesOf(d, c)) THEN <<>> ELSE Last(LinesOf(d, c)),
                 over |-> OverOf(LinesOf(d, c)),
                 frames |-> d.frames \o NonEmpty(WholeOf(LinesOf(d, c)))]
BY DEF FrameFeed, LinesOf, LongOf, WholeOf, OverOf

\* The lines decoded are the first ones, up to the first that is too long.
LEMMA WholeIsPrefix ==
  ASSUME NEW E, NEW ls \in Seq(Seq(E)), ls # <<>>
  PROVE  \E k \in 0..(Len(ls) - 1) :
           /\ WholeOf(ls) = SubSeq(ls, 1, k) /\ WholeOf(ls) \in Seq(Seq(E))
           /\ \A i \in 1..k : Len(StripCr(ls[i])) <= MaxFrame
           /\ LongOf(ls) = {} => k = Len(ls) - 1
           /\ LongOf(ls) # {} => k + 1 \in LongOf(ls)
<1>. DEFINE D == Seq(E)  T == LongOf(ls)
<1>0. Len(ls) \in Nat \ {0} /\ \A i \in 1..Len(ls) : ls[i] \in Seq(E)
  OBVIOUS
<1>1. \A i \in 1..(Len(ls) - 1) : Len(StripCr(ls[i])) \in Nat
  <2>1. \A i \in 1..(Len(ls) - 1) : ls[i] \in Seq(E)
    BY <1>0
  <2>. QED
    BY <2>1, StripCrType
<1>2. CASE T = {}
  <2>1. WholeOf(ls) = SubSeq(ls, 1, Len(ls) - 1)
    BY <1>2 DEF WholeOf, Front
  <2>2. SubSeq(ls, 1, Len(ls) - 1) \in Seq(D)
    <3>1. ls \in Seq(D) /\ Len(ls) - 1 \in Nat /\ Len(ls) - 1 <= Len(ls)
      BY <1>0
    <3>. HIDE DEF D
    <3>. QED
      BY <3>1, PrefixType
  <2>3. \A i \in 1..(Len(ls) - 1) : Len(StripCr(ls[i])) <= MaxFrame
    <3>1. ASSUME NEW i \in 1..(Len(ls) - 1) PROVE Len(StripCr(ls[i])) <= MaxFrame
      <4>1. i \notin T /\ Len(StripCr(ls[i])) \in Nat
        BY <1>1, <1>2
      <4>. QED
        BY <4>1, TextStreamsAssumption DEF LongOf
    <3>. QED
      BY <3>1
  <2>4. Len(ls) - 1 \in 0..(Len(ls) - 1)
    BY <1>0
  <2>. QED
    BY <1>2, <2>1, <2>2, <2>3, <2>4
<1>3. CASE T # {}
  <2>1. T \subseteq Nat /\ T \subseteq 1..(Len(ls) - 1)
    BY <1>0 DEF LongOf
  <2>. DEFINE m == Min(T)
  <2>2. m \in T /\ \A y \in T : m <= y
    <3>. HIDE DEF T
    <3>. QED
      BY <1>3, <2>1, MinOf
  <2>3. WholeOf(ls) = SubSeq(ls, 1, m - 1)
    BY <1>3 DEF WholeOf
  <2>. HIDE DEF m
  <2>4. m \in 1..(Len(ls) - 1) /\ m - 1 \in 0..(Len(ls) - 1) /\ m - 1 \in Nat
        /\ m - 1 <= Len(ls) /\ (m - 1) + 1 = m
    BY <1>0, <2>1, <2>2
  <2>5. SubSeq(ls, 1, m - 1) \in Seq(D)
    <3>1. ls \in Seq(D)
      OBVIOUS
    <3>. HIDE DEF D
    <3>. QED
      BY <2>4, <3>1, PrefixType
  <2>6. \A i \in 1..(m - 1) : Len(StripCr(ls[i])) <= MaxFrame
    <3>1. ASSUME NEW i \in 1..(m - 1) PROVE Len(StripCr(ls[i])) <= MaxFrame
      <4>1. i \in 1..(Len(ls) - 1) /\ ~(m <= i)
        BY <2>4
      <4>2. i \notin T
        BY <2>2, <4>1
      <4>. QED
        BY <1>1, <4>1, <4>2, TextStreamsAssumption DEF LongOf
    <3>. QED
      BY <3>1
  <2>7. (m - 1) + 1 \in T
    BY <2>2, <2>4
  <2>. QED
    BY <1>3, <2>3, <2>4, <2>5, <2>6, <2>7
<1>. QED
  BY <1>2, <1>3

\* What was left over and the chunk make lines.
LEMMA LinesType ==
  ASSUME NEW E, NEW d \in Decoder(E), NEW c \in Seq(E)
  PROVE  LinesOf(d, c) \in Seq(Seq(E)) /\ LinesOf(d, c) # <<>>
<1>1. d.rest \o c \in Seq(E)
  BY DEF Decoder
<1>. QED
  BY <1>1, PiecesType DEF LinesOf

\* feed() leaves a decoder a decoder.
LEMMA FrameFeedType ==
  ASSUME NEW E, NEW d \in Decoder(E), NEW c \in Seq(E)
  PROVE  FrameFeed(d, c) \in Decoder(E)
<1>. DEFINE ls == LinesOf(d, c)  D == Seq(E)
<1>1. ls \in Seq(D) /\ ls # <<>>
  BY LinesType
<1>. HIDE DEF ls
<1>2. WholeOf(ls) \in Seq(D)
  BY <1>1, WholeIsPrefix
<1>3. NonEmpty(WholeOf(ls)) \in Seq(D)
  BY <1>2, NonEmptyType
<1>4. Last(ls) \in D
  <2>. HIDE DEF D
  <2>. QED
    BY <1>1, FrontAndLast
<1>5. d.frames \in Seq(D) /\ d.frames \o NonEmpty(WholeOf(ls)) \in Seq(D)
  BY <1>3 DEF Decoder
<1>6. OverOf(ls) \in BOOLEAN
  BY DEF OverOf
<1>7. <<>> \in Seq(E)
  OBVIOUS
<1>. HIDE DEF D
<1>8. CASE d.over
  BY <1>8, FrameFeedIs
<1>9. CASE ~d.over
  <2>. DEFINE r == [rest |-> IF OverOf(ls) THEN <<>> ELSE Last(ls), over |-> OverOf(ls),
                    frames |-> d.frames \o NonEmpty(WholeOf(ls))]
  <2>1. FrameFeed(d, c) = r
    BY <1>9, FrameFeedIs DEF ls
  <2>2. r \in Decoder(E)
    BY <1>4, <1>5, <1>6, <1>7 DEF Decoder, D
  <2>. QED
    BY <2>1, <2>2
<1>. QED
  BY <1>8, <1>9

FeedFcn(E) == [x \in Decoder(E) \X Seq(E) |-> FrameFeed(x[1], x[2])]

\* What the decoder is after a sequence of feeds.
Decoded(E, chunks) == Result(Decoder(E), FeedFcn(E), NewDecoder, chunks)

\* feed() is a step function on decoders.
LEMMA FeedFcnType ==
  ASSUME NEW E
  PROVE  /\ FeedFcn(E) \in [Decoder(E) \X Seq(E) -> Decoder(E)]
         /\ NewDecoder \in Decoder(E)
<1>1. FeedFcn(E) \in [Decoder(E) \X Seq(E) -> Decoder(E)]
  BY FrameFeedType DEF FeedFcn
<1>2. <<>> \in Seq(E) /\ <<>> \in Seq(Seq(E))
  OBVIOUS
<1>3. NewDecoder \in Decoder(E)
  BY <1>2 DEF NewDecoder, Decoder
<1>. QED
  BY <1>1, <1>3

\* A sequence of feeds is a run of feed() from a new decoder.
LEMMA DecodedIsFold ==
  ASSUME NEW E, NEW chunks \in Seq(Seq(E))
  PROVE  FoldLeft(FrameFeed, NewDecoder, chunks) = Decoded(E, chunks)
<1>. DEFINE D == Decoder(E)
            X == Seq(E)
            b == NewDecoder
            F == FeedFcn(E)
            s == chunks
            Eqn(g) == g = [T \in SUBSET DOMAIN s |->
                             IF T = {} THEN b ELSE FrameFeed(g[T \ {Max(T)}], s[Max(T)])]
            G == CHOOSE g : Eqn(g)
<1>0. DOMAIN s = 1..Len(s) /\ s \in Seq(X)
  OBVIOUS
<1>a. F \in [D \X X -> D]
  BY FeedFcnType
<1>b. b \in D
  BY FeedFcnType
<1>c. \A x \in D, e \in X : F[<<x, e>>] = FrameFeed(x, e)
  BY DEF FeedFcn
<1>1. FoldLeft(FrameFeed, NewDecoder, chunks) = G[DOMAIN s]
  BY DEF FoldLeft, MapThenFoldSet
<1>. HIDE DEF D, b, F, X, s
<1>2. PICK h : Unfolds(D, X, F, b, s, h)
  BY <1>0, <1>a, <1>b, FoldStart
<1>. DEFINE q == [T \in SUBSET DOMAIN s |-> h[T]]
<1>3. Eqn(q)
  BY <1>c, <1>2 DEF Unfolds
<1>4. Eqn(G)
  BY <1>3
<1>. HIDE DEF G
<1>5. G[{}] = b
  BY <1>4
<1>6. ASSUME NEW k \in 1..Len(s) PROVE FoldStep(F, D, s, G, k)
  <2>1. /\ (1..k) \in SUBSET DOMAIN s /\ (1..k) # {}
        /\ (1..k) \ {k} = 1..(k - 1) /\ Max(1..k) = k /\ s[k] \in X
    BY <1>0, FirstPositions
  <2>2. G[1..k] = FrameFeed(G[1..(k - 1)], s[k])
    BY <2>1, <1>4
  <2>. QED
    BY <2>1, <2>2, <1>c DEF FoldStep
<1>7. Folds(F, D, b, s, G)
  BY <1>5, <1>6 DEF Folds
<1>8. EndsAs(D, F, b, s, G)
  BY <1>0, <1>a, <1>b, <1>7, FoldIsResult
<1>. QED
  BY <1>0, <1>1, <1>8 DEF EndsAs, D, b, F, s, Decoded

\* After any feeds there is a decoder.
LEMMA DecodedType ==
  ASSUME NEW E, NEW chunks \in Seq(Seq(E))
  PROVE  Decoded(E, chunks) \in Decoder(E)
<1>. DEFINE D == Decoder(E)  X == Seq(E)  F == FeedFcn(E)  b == NewDecoder
<1>a. F \in [D \X X -> D]
  BY FeedFcnType
<1>b. b \in D
  BY FeedFcnType
<1>c. chunks \in Seq(X)
  OBVIOUS
<1>. HIDE DEF D, F, b, X
<1>1. Result(D, F, b, chunks) \in D
  BY <1>a, <1>b, <1>c, ResultType
<1>. QED
  BY <1>1 DEF Decoded, D, F, b

\* Before any feed the decoder is new.
LEMMA DecodedEmpty ==
  ASSUME NEW E
  PROVE  Decoded(E, <<>>) = NewDecoder
<1>. DEFINE D == Decoder(E)  X == Seq(E)  F == FeedFcn(E)  b == NewDecoder
<1>a. F \in [D \X X -> D]
  BY FeedFcnType
<1>b. b \in D
  BY FeedFcnType
<1>. HIDE DEF D, F, b, X
<1>1. Result(D, F, b, <<>>) = b
  BY <1>a, <1>b, ResultEmpty
<1>. QED
  BY <1>1 DEF Decoded, D, F, b

\* A chunk more is a feed more.
LEMMA DecodedAppend ==
  ASSUME NEW E, NEW chunks \in Seq(Seq(E)), NEW c \in Seq(E)
  PROVE  Decoded(E, Append(chunks, c)) = FrameFeed(Decoded(E, chunks), c)
<1>. DEFINE D == Decoder(E)  X == Seq(E)  F == FeedFcn(E)  b == NewDecoder
<1>a. F \in [D \X X -> D]
  BY FeedFcnType
<1>b. b \in D
  BY FeedFcnType
<1>c. chunks \in Seq(X) /\ c \in X
  OBVIOUS
<1>d. \A x \in D, e \in X : F[<<x, e>>] = FrameFeed(x, e)
  BY DEF FeedFcn
<1>e. Decoded(E, chunks) \in D
  BY DecodedType
<1>. HIDE DEF D, F, b, X
<1>1. Continues(D, F, b, chunks, c)
  BY <1>a, <1>b, <1>c, ResultAppend
<1>. QED
  BY <1>1, <1>c, <1>d, <1>e DEF Continues, Decoded, D, F, b

-----------------------------------------------------------------------------
(* NdjsonFrameDecoder: every sequence of feeds *)

\* The lines of a text, and what a decoder that was given it must have made of them.
Lines(s) == Pieces(s, {"n"})

FirstLong(d, ls, i) ==
  /\ Len(ls[i]) > MaxFrame
  /\ \A j \in 1..(i - 1) : Len(StripCr(ls[j])) <= MaxFrame
  /\ d.frames = NonEmpty(SubSeq(ls, 1, i - 1))

NoneLong(d, ls) ==
  /\ d.frames = NonEmpty(Front(ls))
  /\ \A i \in 1..(Len(ls) - 1) : Len(StripCr(ls[i])) <= MaxFrame
  /\ d.rest = Last(ls) /\ Len(d.rest) <= MaxFrame

Faithful(d, ls) ==
  IF d.over THEN \E i \in DOMAIN ls : FirstLong(d, ls, i) ELSE NoneLong(d, ls)

\* The lines p of what was fed, and q of what then waits and is fed: those that went on.
Goes(E, p, q, ls) ==
  /\ p \in Seq(Seq(E)) /\ p # <<>> /\ q \in Seq(Seq(E)) /\ q # <<>>
  /\ ls = Front(p) \o q
  /\ Len(q[1]) >= Len(Last(p))

\* The lines of a stream with a chunk more: those before, and the last one continued.
LEMMA LinesGoOn ==
  ASSUME NEW E, NEW s \in Seq(E), NEW c \in Seq(E)
  PROVE  Goes(E, Lines(s), Lines(Last(Lines(s)) \o c), Lines(s \o c))
<1>. DEFINE p == Lines(s)  l == Last(p)  D == Seq(E)  q == Lines(l \o c)
<1>1. p \in Seq(D) /\ p # <<>>
  BY PiecesType DEF Lines
<1>2. l \in Seq(E)
  <2>. HIDE DEF p, D
  <2>1. l \in D
    BY <1>1, FrontAndLast
  <2>. QED
    BY <2>1 DEF D
<1>3. q \in Seq(D) /\ q # <<>>
  <2>. HIDE DEF l
  <2>1. l \o c \in Seq(E)
    BY <1>2
  <2>. QED
    BY <2>1, PiecesType DEF Lines
<1>4. Extends(s, c, {"n"}) /\ q = Cut(E, {"n"}, l, c)
  BY PiecesGoOn DEF Lines
<1>5. Len(q[1]) >= Len(l)
  BY <1>2, <1>4, FirstGrows
<1>6. Lines(s \o c) = Front(p) \o q
  BY <1>4 DEF Extends, Lines
<1>. QED
  BY <1>1, <1>3, <1>5, <1>6 DEF Goes

\* The lines of a text that goes on, by their places in the two parts.
Placed(p, q, ls) ==
  /\ Len(p) \in Nat \ {0} /\ Len(q) \in Nat \ {0} /\ Len(ls) = Len(p) - 1 + Len(q)
  /\ \A i \in 1..(Len(p) - 1) : ls[i] = p[i]
  /\ \A k \in 1..Len(q) : ls[Len(p) - 1 + k] = q[k]
  /\ \A k \in 0..(Len(p) - 1) : SubSeq(ls, 1, k) = SubSeq(p, 1, k)
  /\ \A k \in 0..Len(q) : SubSeq(ls, 1, Len(p) - 1 + k) = Front(p) \o SubSeq(q, 1, k)
  /\ Last(ls) = Last(q)

\* Where each of these lines stands in the longer stream.
LEMMA PlacesOf ==
  ASSUME NEW E, NEW p, NEW q, NEW ls, Goes(E, p, q, ls)
  PROVE  /\ Placed(p, q, ls) /\ ls \in Seq(Seq(E)) /\ Front(p) \in Seq(Seq(E))
         /\ DOMAIN ls = 1..Len(ls)
<1>. DEFINE D == Seq(E)  f == Front(p)
<1>1. p \in Seq(D) /\ p # <<>> /\ q \in Seq(D) /\ q # <<>> /\ ls = f \o q
  BY DEF Goes
<1>. HIDE DEF D
<1>2. /\ f \in Seq(D) /\ Len(p) \in Nat \ {0} /\ Len(f) = Len(p) - 1
      /\ \A i \in 1..(Len(p) - 1) : f[i] = p[i]
  BY <1>1, FrontAndLast
<1>3. Len(q) \in Nat \ {0} /\ Last(q) = q[Len(q)]
  BY <1>1, FrontAndLast
<1>f. f = SubSeq(p, 1, Len(p) - 1)
  BY DEF Front
<1>. HIDE DEF f
<1>4. /\ ls \in Seq(D) /\ Len(ls) = Len(f) + Len(q)
      /\ \A i \in 1..(Len(f) + Len(q)) : ls[i] = IF i <= Len(f) THEN f[i] ELSE q[i - Len(f)]
  BY <1>1, <1>2, ConcatProperties
<1>5. \A i \in 1..(Len(p) - 1) : ls[i] = p[i]
  <2>1. ASSUME NEW i \in 1..(Len(p) - 1) PROVE ls[i] = p[i]
    <3>1. i \in 1..(Len(f) + Len(q)) /\ i <= Len(f)
      BY <1>2, <1>3
    <3>. QED
      BY <3>1, <1>2, <1>4
  <2>. QED
    BY <2>1
<1>6. \A k \in 1..Len(q) : ls[Len(p) - 1 + k] = q[k]
  <2>1. ASSUME NEW k \in 1..Len(q) PROVE ls[Len(p) - 1 + k] = q[k]
    <3>. DEFINE i == Len(p) - 1 + k
    <3>1. i \in 1..(Len(f) + Len(q)) /\ ~(i <= Len(f)) /\ i - Len(f) = k
      BY <1>2, <1>3
    <3>. HIDE DEF i
    <3>2. ls[i] = q[k]
      BY <3>1, <1>4
    <3>. QED
      BY <3>2 DEF i
  <2>. QED
    BY <2>1
<1>7. \A k \in 0..(Len(p) - 1) : SubSeq(ls, 1, k) = SubSeq(p, 1, k)
  <2>1. ASSUME NEW k \in 0..(Len(p) - 1) PROVE SubSeq(ls, 1, k) = SubSeq(p, 1, k)
    <3>1. k \in Nat /\ k <= Len(f) /\ k <= Len(p)
      BY <1>2
    <3>2. SubSeq(f \o q, 1, k) = SubSeq(f, 1, k)
      BY <1>1, <1>2, <3>1, PrefixOfConcat
    <3>3. SubSeq(f, 1, k) = SubSeq(p, 1, k)
      <4>. DEFINE x == SubSeq(f, 1, k)  y == SubSeq(p, 1, k)
      <4>1. x \in Seq(D) /\ Len(x) = k /\ \A i \in 1..k : x[i] = f[i]
        BY <1>2, <3>1, PrefixType
      <4>2. y \in Seq(D) /\ Len(y) = k /\ \A i \in 1..k : y[i] = p[i]
        BY <1>1, <3>1, PrefixType
      <4>3. \A i \in 1..k : f[i] = p[i]
        BY <1>2
      <4>. HIDE DEF x, y
      <4>4. x = y
        BY <4>1, <4>2, <4>3, SeqEqual
      <4>. QED
        BY <4>4 DEF x, y
    <3>. QED
      BY <1>1, <3>2, <3>3
  <2>. QED
    BY <2>1
<1>8. \A k \in 0..Len(q) : SubSeq(ls, 1, Len(p) - 1 + k) = f \o SubSeq(q, 1, k)
  <2>1. ASSUME NEW k \in 0..Len(q) PROVE SubSeq(ls, 1, Len(p) - 1 + k) = f \o SubSeq(q, 1, k)
    <3>1. k \in Nat /\ k <= Len(q)
      BY <1>3
    <3>2. SubSeq(f \o q, 1, Len(f) + k) = f \o SubSeq(q, 1, k)
      BY <1>1, <1>2, <3>1, PrefixBeyond
    <3>. QED
      BY <1>1, <1>2, <3>2
  <2>. QED
    BY <2>1
<1>9. Last(ls) = Last(q)
  <2>1. Len(q) \in 1..Len(q) /\ Len(ls) = Len(p) - 1 + Len(q)
    BY <1>2, <1>3, <1>4
  <2>2. ls[Len(ls)] = q[Len(q)]
    BY <2>1, <1>6
  <2>. QED
    BY <2>2 DEF Last
<1>10. Len(ls) = Len(p) - 1 + Len(q)
  BY <1>2, <1>4
<1>11. DOMAIN ls = 1..Len(ls)
  BY <1>4
<1>. QED
  BY <1>2, <1>3, <1>4, <1>5, <1>6, <1>7, <1>8, <1>9, <1>10, <1>11 DEF Placed, D, f

\* A decoder faithful to a stream is so to the stream with a chunk more: in its frames, in
\* what it keeps, and in the first line that was too long.
LEMMA FeedIsFaithful ==
  ASSUME NEW E, NEW d \in Decoder(E), NEW s \in Seq(E), NEW c \in Seq(E), Faithful(d, Lines(s))
  PROVE  Faithful(FrameFeed(d, c), Lines(s \o c))
<1>. DEFINE p == Lines(s)  q == Lines(Last(p) \o c)  ls == Lines(s \o c)  n == FrameFeed(d, c)
<1>1. Goes(E, p, q, ls)
  BY LinesGoOn
<1>2. Placed(p, q, ls) /\ ls \in Seq(Seq(E)) /\ Front(p) \in Seq(Seq(E)) /\ DOMAIN ls = 1..Len(ls)
  BY <1>1, PlacesOf
<1>3. p \in Seq(Seq(E)) /\ q \in Seq(Seq(E)) /\ q # <<>> /\ Len(q[1]) >= Len(Last(p))
  BY <1>1 DEF Goes
<1>q. LinesOf(d, c) = Lines(d.rest \o c)
  BY DEF LinesOf, Lines
<1>f. Faithful(d, p)
  OBVIOUS
<1>. HIDE DEF p, ls
<1>4. CASE d.over
  <2>1. n = d
    BY <1>4, FrameFeedIs
  <2>2. PICK i \in DOMAIN p : FirstLong(d, p, i)
    BY <1>4, <1>f DEF Faithful
  <2>3. i \in 1..Len(p) /\ Len(p) \in Nat
    BY <1>3
  <2>4. i \in 1..Len(ls)
    BY <1>2, <2>3 DEF Placed
  <2>5. Len(ls[i]) > MaxFrame
    <3>1. CASE i <= Len(p) - 1
      <4>0. i \in 1..(Len(p) - 1)
        BY <2>3, <3>1
      <4>1. ls[i] = p[i]
        BY <1>2, <4>0 DEF Placed
      <4>. QED
        BY <2>2, <4>1 DEF FirstLong
    <3>2. CASE i = Len(p)
      <4>1. 1 \in 1..Len(q) /\ Len(p) - 1 + 1 = Len(p)
        BY <1>2, <2>3 DEF Placed
      <4>2. ls[Len(p) - 1 + 1] = q[1]
        BY <1>2, <4>1 DEF Placed
      <4>3. ls[i] = q[1]
        BY <3>2, <4>1, <4>2
      <4>4. Last(p) = p[i]
        BY <3>2 DEF Last
      <4>5. p[i] \in Seq(E) /\ q[1] \in Seq(E)
        BY <1>3, <2>3, <4>1
      <4>6. Len(p[i]) \in Nat /\ Len(q[1]) \in Nat
        BY <4>5
      <4>7. Len(p[i]) > MaxFrame
        BY <2>2 DEF FirstLong
      <4>8. Len(q[1]) >= Len(p[i])
        BY <1>3, <4>4
      <4>. QED
        BY <4>3, <4>6, <4>7, <4>8, TextStreamsAssumption
    <3>3. i <= Len(p) - 1 \/ i = Len(p)
      BY <2>3
    <3>. QED
      BY <3>1, <3>2, <3>3
  <2>6. \A j \in 1..(i - 1) : Len(StripCr(ls[j])) <= MaxFrame
    <3>1. \A j \in 1..(i - 1) : j \in 1..(Len(p) - 1)
      BY <2>3
    <3>2. \A j \in 1..(i - 1) : ls[j] = p[j]
      BY <1>2, <3>1 DEF Placed
    <3>. QED
      BY <2>2, <3>2 DEF FirstLong
  <2>7. SubSeq(ls, 1, i - 1) = SubSeq(p, 1, i - 1)
    <3>1. i - 1 \in 0..(Len(p) - 1)
      BY <2>3
    <3>. QED
      BY <1>2, <3>1 DEF Placed
  <2>8. FirstLong(d, ls, i)
    BY <2>2, <2>5, <2>6, <2>7 DEF FirstLong
  <2>9. \E k \in DOMAIN ls : FirstLong(d, ls, k)
    BY <1>2, <2>4, <2>8
  <2>. QED
    BY <1>4, <2>1, <2>9 DEF Faithful, ls
<1>5. CASE ~d.over
  <2>1. NoneLong(d, p)
    BY <1>5, <1>f DEF Faithful
  <2>2. LinesOf(d, c) = q
    BY <1>q, <2>1 DEF NoneLong
  <2>3. n = [rest |-> IF OverOf(q) THEN <<>> ELSE Last(q), over |-> OverOf(q),
             frames |-> d.frames \o NonEmpty(WholeOf(q))]
    BY <1>5, <2>2, FrameFeedIs
  <2>. HIDE DEF q, n
  <2>4. PICK k \in 0..(Len(q) - 1) :
           /\ WholeOf(q) = SubSeq(q, 1, k) /\ WholeOf(q) \in Seq(Seq(E))
           /\ \A i \in 1..k : Len(StripCr(q[i])) <= MaxFrame
           /\ LongOf(q) = {} => k = Len(q) - 1
           /\ LongOf(q) # {} => k + 1 \in LongOf(q)
    BY <1>3, WholeIsPrefix
  <2>5. Len(p) \in Nat \ {0} /\ Len(q) \in Nat \ {0} /\ Len(ls) = Len(p) - 1 + Len(q)
    BY <1>2 DEF Placed
  <2>6. SubSeq(ls, 1, Len(p) - 1 + k) = Front(p) \o WholeOf(q)
    <3>1. k \in 0..Len(q)
      BY <2>5
    <3>. QED
      BY <1>2, <2>4, <3>1 DEF Placed
  <2>7. NonEmpty(SubSeq(ls, 1, Len(p) - 1 + k)) = n.frames
    <3>. DEFINE a == Front(p)  w == WholeOf(q)
    <3>1. a \in Seq(Seq(E)) /\ w \in Seq(Seq(E))
      BY <1>2, <2>4
    <3>. HIDE DEF a, w
    <3>2. NonEmptyJoins(a, w)
      BY <3>1, NonEmptyConcat
    <3>3. d.frames = NonEmpty(a)
      BY <2>1 DEF NoneLong, a
    <3>4. n.frames = d.frames \o NonEmpty(w)
      BY <2>3 DEF w
    <3>5. NonEmpty(a \o w) = n.frames
      BY <3>2, <3>3, <3>4 DEF NonEmptyJoins
    <3>. QED
      BY <2>6, <3>5 DEF a, w
  <2>8. \A j \in 1..(Len(p) - 1 + k) : Len(StripCr(ls[j])) <= MaxFrame
    <3>1. ASSUME NEW j \in 1..(Len(p) - 1 + k) PROVE Len(StripCr(ls[j])) <= MaxFrame
      <4>1. CASE j <= Len(p) - 1
        <5>1. j \in 1..(Len(p) - 1)
          BY <2>5, <4>1
        <5>2. ls[j] = p[j]
          BY <1>2, <5>1 DEF Placed
        <5>. QED
          BY <2>1, <5>1, <5>2 DEF NoneLong
      <4>2. CASE ~(j <= Len(p) - 1)
        <5>. DEFINE i == j - (Len(p) - 1)
        <5>1. i \in 1..k /\ i \in 1..Len(q) /\ Len(p) - 1 + i = j
          BY <2>5, <4>2
        <5>. HIDE DEF i
        <5>2. ls[Len(p) - 1 + i] = q[i]
          BY <1>2, <5>1 DEF Placed
        <5>. QED
          BY <2>4, <5>1, <5>2
      <4>. QED
        BY <4>1, <4>2
    <3>. QED
      BY <3>1
  <2>9. CASE OverOf(q)
    <3>. DEFINE i == Len(p) + k
    <3>1. i \in 1..Len(ls) /\ k + 1 \in 1..Len(q) /\ Len(p) - 1 + (k + 1) = i
          /\ i - 1 = Len(p) - 1 + k
      BY <2>5
    <3>. HIDE DEF i
    <3>2. ls[i] = q[k + 1]
      BY <1>2, <3>1 DEF Placed
    <3>3. Len(q[k + 1]) > MaxFrame
      <4>0. q[k + 1] \in Seq(E)
        BY <1>3, <3>1
      <4>1. CASE LongOf(q) # {}
        <5>. DEFINE l == q[k + 1]
        <5>1. Len(StripCr(l)) > MaxFrame
          BY <2>4, <4>1 DEF LongOf
        <5>2. l \in Seq(E)
          BY <4>0
        <5>. HIDE DEF l
        <5>3. Len(StripCr(l)) <= Len(l) /\ Len(StripCr(l)) \in Nat /\ Len(l) \in Nat
          BY <5>2, StripCrType
        <5>4. Len(l) > MaxFrame
          BY <5>1, <5>3, TextStreamsAssumption
        <5>. QED
          BY <5>4 DEF l
      <4>2. CASE LongOf(q) = {}
        <5>1. k + 1 = Len(q)
          BY <2>4, <2>5, <4>2
        <5>. QED
          BY <2>9, <4>2, <5>1 DEF OverOf, Last
      <4>. QED
        BY <4>1, <4>2
    <3>4. FirstLong(n, ls, i)
      BY <2>7, <2>8, <3>1, <3>2, <3>3 DEF FirstLong
    <3>5. n.over
      BY <2>3, <2>9
    <3>6. \E j \in DOMAIN ls : FirstLong(n, ls, j)
      BY <1>2, <3>1, <3>4
    <3>. QED
      BY <3>5, <3>6 DEF Faithful, n, ls
  <2>10. CASE ~OverOf(q)
    <3>1. LongOf(q) = {} /\ ~(Len(Last(q)) > MaxFrame)
      BY <2>10 DEF OverOf
    <3>2. Len(p) - 1 + k = Len(ls) - 1
      <4>1. k = Len(q) - 1
        BY <2>4, <3>1
      <4>. QED
        BY <2>5, <4>1
    <3>3. Front(ls) = SubSeq(ls, 1, Len(p) - 1 + k)
      BY <3>2 DEF Front
    <3>4. n.rest = Last(q) /\ ~n.over
      BY <2>3, <2>10
    <3>5. Last(ls) = Last(q)
      BY <1>2 DEF Placed
    <3>6. Len(Last(q)) <= MaxFrame
      <4>. DEFINE D == Seq(E)
      <4>1. q \in Seq(D) /\ q # <<>>
        BY <1>3
      <4>. HIDE DEF D
      <4>2. Last(q) \in D
        BY <4>1, FrontAndLast
      <4>3. Len(Last(q)) \in Nat
        BY <4>2 DEF D
      <4>. QED
        BY <3>1, <4>3, TextStreamsAssumption
    <3>7. NoneLong(n, ls)
      BY <2>7, <2>8, <3>2, <3>3, <3>4, <3>5, <3>6 DEF NoneLong
    <3>. QED
      BY <3>4, <3>7 DEF Faithful, n, ls
  <2>. QED
    BY <2>9, <2>10
<1>. QED
  BY <1>4, <1>5

\* The property of a stream, said of the decoder after all its chunks.
LEMMA FramesOfIs ==
  ASSUME NEW E, NEW chunks \in Seq(Seq(E))
  PROVE  FramesOfTheStream(chunks) <=> Faithful(Decoded(E, chunks), Lines(FlattenSeq(chunks)))
<1>1. FoldLeft(FrameFeed, NewDecoder, chunks) = Decoded(E, chunks)
  BY DecodedIsFold
<1>. QED
  BY <1>1 DEF FramesOfTheStream, Faithful, FirstLong, NoneLong, Lines, Whole

\* NdjsonFrameDecoder (src/libs/network): whatever the bytes are, and wherever the reads of
\* the connection end, the frames are the lines of the whole text, up to the first too long.
THEOREM FramesOfEveryStream ==
  ASSUME NEW E, NEW chunks \in Seq(Seq(E))
  PROVE  FramesOfTheStream(chunks)
<1>. DEFINE X == Seq(E)
            Ok(cs) == Faithful(Decoded(E, cs), Lines(FlattenSeq(cs)))
            T == {cs \in Seq(X) : Ok(cs)}
<1>1. <<>> \in T
  <2>1. <<>> \in Seq(X) /\ <<>> \in Seq(E)
    OBVIOUS
  <2>2. Lines(<<>>) = << <<>> >>
    <3>1. Pieces(<<>>, {"n"}) = Cut(E, {"n"}, <<>>, <<>>)
      BY <2>1, PiecesIsCut
    <3>2. Cut(E, {"n"}, <<>>, <<>>) = << <<>> >>
      BY <2>1, CutEmpty
    <3>. QED
      BY <3>1, <3>2 DEF Lines
  <2>3. Decoded(E, <<>>) = NewDecoder /\ FlattenSeq(<<>>) = <<>>
    BY DecodedEmpty, FlattenEmpty
  <2>4. Front(<< <<>> >>) = <<>> /\ Last(<< <<>> >>) = <<>>
    BY DEF Front, Last
  <2>5. NonEmpty(<<>>) = <<>>
    <3>1. KeptOf(<<>>) = <<>>
      BY DEF KeptOf
    <3>. QED
      BY <3>1, NonEmptyIs, FlattenEmpty
  <2>6. NoneLong(NewDecoder, << <<>> >>)
    BY <2>4, <2>5, TextStreamsAssumption DEF NoneLong, NewDecoder
  <2>7. ~NewDecoder.over
    BY DEF NewDecoder
  <2>. QED
    BY <2>1, <2>2, <2>3, <2>6, <2>7 DEF Faithful
<1>2. ASSUME NEW cs \in T, NEW c \in X PROVE Append(cs, c) \in T
  <2>1. cs \in Seq(X) /\ Append(cs, c) \in Seq(X) /\ c \in Seq(E)
    BY <1>2
  <2>2. Decoded(E, Append(cs, c)) = FrameFeed(Decoded(E, cs), c)
    BY <2>1, DecodedAppend
  <2>3. FlattenSeq(Append(cs, c)) = FlattenSeq(cs) \o c /\ FlattenSeq(cs) \in Seq(E)
    BY <2>1, FlattenAppend, FlattenType
  <2>4. Decoded(E, cs) \in Decoder(E)
    BY <2>1, DecodedType
  <2>5. Faithful(FrameFeed(Decoded(E, cs), c), Lines(FlattenSeq(cs) \o c))
    BY <1>2, <2>1, <2>3, <2>4, FeedIsFaithful
  <2>. QED
    BY <2>1, <2>2, <2>3, <2>5
<1>3. T = Seq(X)
  <2>1. T \subseteq Seq(X)
    OBVIOUS
  <2>. HIDE DEF T, X
  <2>. QED
    BY <1>1, <1>2, <2>1, SeqInduct
<1>. QED
  BY <1>3, FramesOfIs

-----------------------------------------------------------------------------
(* SentenceChunker: one feed, byte by byte *)

Chunker(B) == [cur : Seq(B), pending : BOOLEAN, out : Seq(Seq(B)), skip : Nat]

\* The terminators and their bytes are bytes.
HasMarks(B) == {"c1", "c2", "c3", "!"} \subseteq B

\* A terminator leaves a chunker a chunker.
LEMMA OnTerminatorType ==
  ASSUME NEW B, NEW c \in Chunker(B), NEW w \in Seq(B)
  PROVE  OnTerminator(c, w) \in Chunker(B)
<1>1. CASE c.pending \/ c.cur = <<>>
  BY <1>1 DEF OnTerminator
<1>2. CASE ~(c.pending \/ c.cur = <<>>)
  <2>1. c.cur \o w \in Seq(B) /\ <<>> \in Seq(B)
    BY DEF Chunker
  <2>2. Append(c.out, c.cur \o w) \in Seq(Seq(B))
    BY <2>1 DEF Chunker
  <2>. QED
    BY <1>2, <2>1, <2>2 DEF OnTerminator, Chunker
<1>. QED
  BY <1>1, <1>2

\* A byte leaves a chunker a chunker.
LEMMA FeedByteType ==
  ASSUME NEW B, HasMarks(B), NEW c \in Chunker(B), NEW s \in Seq(B), NEW i \in 1..Len(s)
  PROVE  FeedByte(c, s, i) \in Chunker(B)
<1>1. s[i] \in B
  OBVIOUS
<1>2. Cjk \in Seq(B) /\ <<"!">> \in Seq(B) /\ <<>> \in Seq(B)
  BY DEF HasMarks, Cjk
<1>3. /\ OnTerminator(c, Cjk) \in Chunker(B) /\ OnTerminator(c, <<"!">>) \in Chunker(B)
      /\ OnTerminator(c, <<>>) \in Chunker(B)
  BY <1>2, OnTerminatorType
<1>4. [OnTerminator(c, Cjk) EXCEPT !.skip = 2] \in Chunker(B)
  <2>. DEFINE d == OnTerminator(c, Cjk)
  <2>1. d \in Chunker(B)
    BY <1>3
  <2>. HIDE DEF d
  <2>2. [d EXCEPT !.skip = 2] \in Chunker(B)
    BY <2>1 DEF Chunker
  <2>. QED
    BY <2>2 DEF d
<1>5. c.skip > 0 => [c EXCEPT !.skip = @ - 1] \in Chunker(B)
  <2>1. c.skip \in Nat
    BY DEF Chunker
  <2>2. c.skip > 0 => c.skip - 1 \in Nat
    BY <2>1
  <2>3. \A k \in Nat : [c EXCEPT !.skip = k] \in Chunker(B)
    BY DEF Chunker
  <2>. QED
    BY <2>2, <2>3
<1>6. Append(c.cur, s[i]) \in Seq(B)
  BY <1>1 DEF Chunker
<1>7. [c EXCEPT !.cur = Append(@, s[i]), !.pending = FALSE] \in Chunker(B)
  BY <1>6 DEF Chunker
<1>. QED
  BY <1>3, <1>4, <1>5, <1>7 DEF FeedByte

ByteFcn(B, s) == [x \in Chunker(B) \X (1..Len(s)) |-> FeedByte(x[1], s, x[2])]

Positions(s) == [i \in DOMAIN s |-> i]

\* What the chunker is after a feed.
FedBytes(B, c, s) == Result(Chunker(B), ByteFcn(B, s), c, Positions(s))

\* The loop of feed() over the bytes is a step function on chunkers.
LEMMA ByteFcnType ==
  ASSUME NEW B, HasMarks(B), NEW s \in Seq(B)
  PROVE  ByteFcn(B, s) \in [Chunker(B) \X (1..Len(s)) -> Chunker(B)]
BY FeedByteType DEF ByteFcn

\* The positions the loop runs through.
LEMMA PositionsType ==
  ASSUME NEW B, NEW s \in Seq(B)
  PROVE  /\ Positions(s) \in Seq(1..Len(s)) /\ Len(Positions(s)) = Len(s)
         /\ \A i \in 1..Len(s) : Positions(s)[i] = i
<1>1. DOMAIN s = 1..Len(s) /\ Len(s) \in Nat
  OBVIOUS
<1>2. Positions(s) = [i \in 1..Len(s) |-> i]
  BY <1>1 DEF Positions
<1>. DEFINE n == Len(s)
<1>3. n \in Nat
  BY <1>1
<1>. HIDE DEF n
<1>4. [i \in 1..n |-> i] \in Seq(1..n) /\ Len([i \in 1..n |-> i]) = n
  BY <1>3
<1>. QED
  BY <1>2, <1>4 DEF n

\* feed() is the run of its loop over the positions of the text.
LEMMA FedIsFold ==
  ASSUME NEW B, HasMarks(B), NEW c \in Chunker(B), NEW text \in Seq(B)
  PROVE  ChunkerFeed(c, text) = FedBytes(B, c, text)
<1>. DEFINE D == Chunker(B)
            X == 1..Len(text)
            b == c
            F == ByteFcn(B, text)
            s == Positions(text)
            Eqn(g) == g = [T \in SUBSET DOMAIN s |->
                             IF T = {} THEN b ELSE FeedByte(g[T \ {Max(T)}], text, s[Max(T)])]
            G == CHOOSE g : Eqn(g)
<1>0. s \in Seq(X) /\ Len(s) = Len(text)
  BY PositionsType
<1>a. F \in [D \X X -> D]
  BY ByteFcnType
<1>b. b \in D
  OBVIOUS
<1>c. \A x \in D, e \in X : F[<<x, e>>] = FeedByte(x, text, e)
  BY DEF ByteFcn
<1>1. ChunkerFeed(c, text) = G[DOMAIN s]
  BY DEF ChunkerFeed, FoldLeftDomain, FoldLeft, MapThenFoldSet, Positions
<1>. HIDE DEF D, b, F, X, s
<1>d. DOMAIN s = 1..Len(s)
  BY <1>0
<1>2. PICK h : Unfolds(D, X, F, b, s, h)
  BY <1>0, <1>a, <1>b, FoldStart
<1>. DEFINE q == [T \in SUBSET DOMAIN s |-> h[T]]
<1>3. Eqn(q)
  BY <1>c, <1>2 DEF Unfolds
<1>4. Eqn(G)
  BY <1>3
<1>. HIDE DEF G
<1>5. G[{}] = b
  BY <1>4
<1>6. ASSUME NEW k \in 1..Len(s) PROVE FoldStep(F, D, s, G, k)
  <2>1. /\ (1..k) \in SUBSET DOMAIN s /\ (1..k) # {}
        /\ (1..k) \ {k} = 1..(k - 1) /\ Max(1..k) = k /\ s[k] \in X
    BY <1>0, FirstPositions
  <2>2. G[1..k] = FeedByte(G[1..(k - 1)], text, s[k])
    BY <2>1, <1>4
  <2>. QED
    BY <2>1, <2>2, <1>c DEF FoldStep
<1>7. Folds(F, D, b, s, G)
  BY <1>5, <1>6 DEF Folds
<1>8. EndsAs(D, F, b, s, G)
  BY <1>0, <1>a, <1>b, <1>7, FoldIsResult
<1>. QED
  BY <1>d, <1>1, <1>8 DEF EndsAs, D, b, F, s, FedBytes

\* A feed byte by byte: the states it passes through.
FeedRun(B, c, s, r) ==
  /\ r[0] = c
  /\ \A k \in 1..Len(s) : r[k] = FeedByte(r[k - 1], s, k)
  /\ \A k \in 0..Len(s) : r[k] \in Chunker(B)

FedBy(s, r, x) == x = r[Len(s)]

\* feed() runs: there is a chunker before and after each byte.
LEMMA FeedRuns ==
  ASSUME NEW B, HasMarks(B), NEW c \in Chunker(B), NEW s \in Seq(B)
  PROVE  \E r : FeedRun(B, c, s, r) /\ FedBy(s, r, ChunkerFeed(c, s))
<1>. DEFINE D == Chunker(B)  X == 1..Len(s)  F == ByteFcn(B, s)  p == Positions(s)
            r == Run(D, F, c, p)
<1>a. F \in [D \X X -> D]
  BY ByteFcnType
<1>b. p \in Seq(X) /\ Len(p) = Len(s) /\ \A i \in 1..Len(s) : p[i] = i
  BY PositionsType
<1>c. \A x \in D, e \in X : F[<<x, e>>] = FeedByte(x, s, e)
  BY DEF ByteFcn
<1>d. Len(s) \in Nat
  OBVIOUS
<1>e. c \in D
  OBVIOUS
<1>f. ChunkerFeed(c, s) = Result(D, F, c, p)
  BY FedIsFold DEF FedBytes
<1>. HIDE DEF D, F, p
<1>1. r \in [0..Len(p) -> D] /\ Step(F, c, p, r)
  BY <1>a, <1>b, <1>e, RunSteps
<1>2. ChunkerFeed(c, s) = r[Len(p)]
  BY <1>f DEF Result
<1>. HIDE DEF r
<1>3. \A k \in 1..Len(s) : r[k] = FeedByte(r[k - 1], s, k)
  <2>1. ASSUME NEW k \in 1..Len(s) PROVE r[k] = FeedByte(r[k - 1], s, k)
    <3>1. k \in 1..Len(p) /\ p[k] = k /\ k \in X /\ k - 1 \in 0..Len(p)
      BY <1>b, <1>d
    <3>2. r[k] = F[<<r[k - 1], p[k]>>]
      BY <1>1, <3>1 DEF Step
    <3>3. r[k - 1] \in D
      BY <1>1, <3>1
    <3>4. F[<<r[k - 1], k>>] = FeedByte(r[k - 1], s, k)
      BY <1>c, <3>1, <3>3
    <3>. QED
      BY <3>1, <3>2, <3>4
  <2>. QED
    BY <2>1
<1>4. r[0] = c
  BY <1>1 DEF Step
<1>5. \A k \in 0..Len(s) : r[k] \in D
  BY <1>1, <1>b
<1>6. FeedRun(B, c, s, r)
  BY <1>3, <1>4, <1>5 DEF FeedRun, D
<1>7. FedBy(s, r, ChunkerFeed(c, s))
  BY <1>2, <1>b DEF FedBy
<1>. QED
  BY <1>6, <1>7

\* Whatever runs like the loop of feed() ends as feed() does.
LEMMA FeedIs ==
  ASSUME NEW B, HasMarks(B), NEW c \in Chunker(B), NEW s \in Seq(B), NEW r, FeedRun(B, c, s, r)
  PROVE  FedBy(s, r, ChunkerFeed(c, s))
<1>1. PICK q : FeedRun(B, c, s, q) /\ FedBy(s, q, ChunkerFeed(c, s))
  BY FeedRuns
<1>. DEFINE T == {k \in Nat : k <= Len(s) => r[k] = q[k]}
<1>0. Len(s) \in Nat
  OBVIOUS
<1>2. 0 \in T
  BY <1>1 DEF FeedRun
<1>3. ASSUME NEW k \in T PROVE k + 1 \in T
  <2>1. ASSUME k + 1 <= Len(s) PROVE r[k + 1] = q[k + 1]
    <3>1. k + 1 \in 1..Len(s) /\ (k + 1) - 1 = k /\ k <= Len(s)
      BY <1>0, <1>3, <2>1
    <3>2. r[k + 1] = FeedByte(r[k], s, k + 1) /\ q[k + 1] = FeedByte(q[k], s, k + 1)
      BY <1>1, <3>1 DEF FeedRun
    <3>3. r[k] = q[k]
      BY <1>3, <3>1
    <3>. QED
      BY <3>2, <3>3
  <2>. QED
    BY <1>3, <2>1
<1>4. T = Nat
  <2>1. T \subseteq Nat
    OBVIOUS
  <2>. HIDE DEF T
  <2>. QED
    BY <1>2, <1>3, <2>1, NatInduct
<1>5. r[Len(s)] = q[Len(s)]
  BY <1>0, <1>4
<1>. QED
  BY <1>1, <1>5 DEF FedBy

\* No terminator is only begun at its end: what follows does not change what it feeds.
Settled(s) == \A i \in 1..Len(s) : s[i] = "c1" => i + 2 <= Len(s)

FeedsOn(c, s, t) == ChunkerFeed(c, s \o t) = ChunkerFeed(ChunkerFeed(c, s), t)

\* Two texts fed in one or one after the other: the same, if the first does not end inside a
\* terminator of three bytes.
LEMMA FeedConcat ==
  ASSUME NEW B, HasMarks(B), NEW c \in Chunker(B), NEW s \in Seq(B), NEW t \in Seq(B), Settled(s)
  PROVE  FeedsOn(c, s, t)
<1>. DEFINE u == s \o t  x == ChunkerFeed(c, s)  y == ChunkerFeed(x, t)
<1>0. /\ u \in Seq(B) /\ Len(s) \in Nat /\ Len(t) \in Nat /\ Len(u) = Len(s) + Len(t)
      /\ \A i \in 1..(Len(s) + Len(t)) : u[i] = IF i <= Len(s) THEN s[i] ELSE t[i - Len(s)]
  BY ConcatProperties
<1>. HIDE DEF u
<1>1. PICK r : FeedRun(B, c, s, r) /\ FedBy(s, r, x)
  BY FeedRuns
<1>2. x \in Chunker(B)
  BY <1>0, <1>1 DEF FeedRun, FedBy
<1>. HIDE DEF x
<1>3. PICK q : FeedRun(B, x, t, q) /\ FedBy(t, q, y)
  BY <1>2, FeedRuns
<1>. DEFINE n == Len(s)  m == Len(t)
            p == [k \in 0..(n + m) |-> IF k <= n THEN r[k] ELSE q[k - n]]
<1>4. n \in Nat /\ m \in Nat
  BY <1>0
<1>5. \A i \in 1..n : IsCjkTerminator(u, i) <=> IsCjkTerminator(s, i)
  <2>1. ASSUME NEW i \in 1..n PROVE IsCjkTerminator(u, i) <=> IsCjkTerminator(s, i)
    <3>0. u[i] = s[i]
      BY <1>0
    <3>1. CASE i + 2 <= n
      <4>1. \A k \in 0..2 : i + k \in 1..(n + m) /\ i + k <= n
        BY <1>4, <3>1
      <4>2. \A k \in 0..2 : u[i + k] = s[i + k]
        BY <1>0, <4>1
      <4>. QED
        BY <1>0, <3>1, <4>2 DEF IsCjkTerminator
    <3>2. CASE ~(i + 2 <= n)
      <4>1. s[i] # "c1"
        BY <3>2 DEF Settled
      <4>2. Cjk[1] = "c1"
        BY DEF Cjk
      <4>3. 0 \in 0..2 /\ i + 0 = i /\ 0 + 1 = 1
        OBVIOUS
      <4>4. ~(u[i + 0] = Cjk[0 + 1]) /\ ~(s[i + 0] = Cjk[0 + 1])
        BY <3>0, <4>1, <4>2, <4>3
      <4>. QED
        BY <4>3, <4>4 DEF IsCjkTerminator
    <3>. QED
      BY <3>1, <3>2
  <2>. QED
    BY <2>1
<1>6. \A j \in 1..m : IsCjkTerminator(u, n + j) <=> IsCjkTerminator(t, j)
  <2>1. ASSUME NEW j \in 1..m PROVE IsCjkTerminator(u, n + j) <=> IsCjkTerminator(t, j)
    <3>1. CASE j + 2 <= m
      <4>1. \A k \in 0..2 : u[(n + j) + k] = t[j + k]
        <5>1. ASSUME NEW k \in 0..2 PROVE u[(n + j) + k] = t[j + k]
          <6>. DEFINE i == (n + j) + k
          <6>1. i \in 1..(n + m) /\ ~(i <= n) /\ i - n = j + k
            BY <1>4, <3>1
          <6>. HIDE DEF i
          <6>2. u[i] = t[j + k]
            BY <1>0, <6>1
          <6>. QED
            BY <6>2 DEF i
        <5>. QED
          BY <5>1
      <4>. QED
        BY <1>0, <3>1, <4>1 DEF IsCjkTerminator
    <3>2. CASE ~(j + 2 <= m)
      <4>1. ~((n + j) + 2 <= Len(u))
        BY <1>0, <3>2
      <4>. QED
        BY <3>2, <4>1 DEF IsCjkTerminator
    <3>. QED
      BY <3>1, <3>2
  <2>. QED
    BY <2>1
<1>7. \A i \in 1..n : u[i] = s[i]
  BY <1>0
<1>8. \A j \in 1..m : u[n + j] = t[j]
  <2>1. ASSUME NEW j \in 1..m PROVE u[n + j] = t[j]
    <3>. DEFINE i == n + j
    <3>1. i \in 1..(n + m) /\ ~(i <= n) /\ i - n = j
      BY <1>4
    <3>. HIDE DEF i
    <3>2. u[i] = t[j]
      BY <1>0, <3>1
    <3>. QED
      BY <3>2 DEF i
  <2>. QED
    BY <2>1
<1>9. \A d, i : i \in 1..n => FeedByte(d, u, i) = FeedByte(d, s, i)
  BY <1>5, <1>7 DEF FeedByte
<1>10. \A d, j : j \in 1..m => FeedByte(d, u, n + j) = FeedByte(d, t, j)
  BY <1>6, <1>8 DEF FeedByte
<1>11. r[n] = x /\ q[0] = x
  BY <1>1, <1>3 DEF FedBy, FeedRun
<1>12. \A k \in 0..n : p[k] = r[k]
  BY <1>4
<1>13. \A k \in 0..m : p[n + k] = q[k]
  <2>1. ASSUME NEW k \in 0..m PROVE p[n + k] = q[k]
    <3>1. CASE k = 0
      <4>1. n + k = n /\ n \in 0..n
        BY <1>4, <3>1
      <4>. QED
        BY <1>11, <1>12, <3>1, <4>1
    <3>2. CASE k # 0
      <4>1. n + k \in 0..(n + m) /\ ~(n + k <= n) /\ (n + k) - n = k
        BY <1>4, <3>2
      <4>. QED
        BY <4>1
    <3>. QED
      BY <3>1, <3>2
  <2>. QED
    BY <2>1
<1>. HIDE DEF p
<1>14. \A k \in 1..(n + m) : p[k] = FeedByte(p[k - 1], u, k)
  <2>1. ASSUME NEW k \in 1..(n + m) PROVE p[k] = FeedByte(p[k - 1], u, k)
    <3>1. CASE k <= n
      <4>1. k \in 1..n /\ k \in 0..n /\ k - 1 \in 0..n
        BY <1>4, <3>1
      <4>2. p[k] = r[k] /\ p[k - 1] = r[k - 1]
        BY <1>12, <4>1
      <4>3. r[k] = FeedByte(r[k - 1], s, k)
        BY <1>1, <4>1 DEF FeedRun
      <4>. QED
        BY <1>9, <4>1, <4>2, <4>3
    <3>2. CASE ~(k <= n)
      <4>. DEFINE j == k - n
      <4>1. j \in 1..m /\ j \in 0..m /\ j - 1 \in 0..m /\ n + j = k /\ n + (j - 1) = k - 1
        BY <1>4, <3>2
      <4>. HIDE DEF j
      <4>2. p[n + j] = q[j] /\ p[n + (j - 1)] = q[j - 1]
        BY <1>13, <4>1
      <4>3. q[j] = FeedByte(q[j - 1], t, j)
        BY <1>3, <4>1 DEF FeedRun
      <4>4. FeedByte(q[j - 1], u, n + j) = FeedByte(q[j - 1], t, j)
        BY <1>10, <4>1
      <4>5. p[k] = q[j] /\ p[k - 1] = q[j - 1] /\ FeedByte(q[j - 1], u, k) = q[j]
        BY <4>1, <4>2, <4>3, <4>4
      <4>. QED
        BY <4>5
    <3>. QED
      BY <3>1, <3>2
  <2>. QED
    BY <2>1
<1>15. \A k \in 0..(n + m) : p[k] \in Chunker(B)
  <2>1. ASSUME NEW k \in 0..(n + m) PROVE p[k] \in Chunker(B)
    <3>1. CASE k <= n
      <4>1. k \in 0..n
        BY <3>1
      <4>. QED
        BY <4>1, <1>1, <1>12 DEF FeedRun
    <3>2. CASE ~(k <= n)
      <4>. DEFINE j == k - n
      <4>1. j \in 0..m /\ n + j = k
        BY <1>4, <3>2
      <4>. HIDE DEF j
      <4>2. p[n + j] = q[j] /\ q[j] \in Chunker(B)
        BY <1>3, <1>13, <4>1 DEF FeedRun
      <4>. QED
        BY <4>1, <4>2
    <3>. QED
      BY <3>1, <3>2
  <2>. QED
    BY <2>1
<1>16. p[0] = c
  <2>1. 0 \in 0..n
    BY <1>4
  <2>. QED
    BY <2>1, <1>1, <1>12 DEF FeedRun
<1>17. FeedRun(B, c, u, p)
  BY <1>0, <1>14, <1>15, <1>16 DEF FeedRun
<1>18. FedBy(u, p, ChunkerFeed(c, u))
  BY <1>0, <1>17, FeedIs
<1>19. p[n + m] = q[m]
  <2>1. m \in 0..m
    BY <1>4
  <2>. QED
    BY <2>1, <1>13
<1>. QED
  BY <1>0, <1>3, <1>18, <1>19 DEF FedBy, FeedsOn, u, x

-----------------------------------------------------------------------------
(* SentenceChunker: what a feed does, and a sequence of feeds *)

\* feed() leaves a chunker a chunker.
LEMMA FeedType ==
  ASSUME NEW B, HasMarks(B), NEW c \in Chunker(B), NEW s \in Seq(B)
  PROVE  ChunkerFeed(c, s) \in Chunker(B)
<1>1. PICK r : FeedRun(B, c, s, r) /\ FedBy(s, r, ChunkerFeed(c, s))
  BY FeedRuns
<1>2. Len(s) \in 0..Len(s)
  OBVIOUS
<1>. QED
  BY <1>1, <1>2 DEF FeedRun, FedBy

\* An empty token changes nothing.
LEMMA FeedNothing ==
  ASSUME NEW B, HasMarks(B), NEW c \in Chunker(B)
  PROVE  ChunkerFeed(c, <<>>) = c
<1>0. <<>> \in Seq(B) /\ Len(<<>>) = 0
  OBVIOUS
<1>1. PICK r : FeedRun(B, c, <<>>, r) /\ FedBy(<<>>, r, ChunkerFeed(c, <<>>))
  BY <1>0, FeedRuns
<1>. QED
  BY <1>0, <1>1 DEF FeedRun, FedBy

\* A token of one byte.
LEMMA FeedOne ==
  ASSUME NEW B, HasMarks(B), NEW c \in Chunker(B), NEW e \in B
  PROVE  ChunkerFeed(c, <<e>>) = FeedByte(c, <<e>>, 1)
<1>0. <<e>> \in Seq(B) /\ Len(<<e>>) = 1 /\ 1 \in 1..1 /\ 1 - 1 = 0
  OBVIOUS
<1>. DEFINE s == <<e>>
<1>. HIDE DEF s
<1>1. PICK r : FeedRun(B, c, s, r) /\ FedBy(s, r, ChunkerFeed(c, s))
  BY <1>0, FeedRuns DEF s
<1>2. r[0] = c /\ r[1] = FeedByte(r[1 - 1], s, 1)
  BY <1>0, <1>1 DEF FeedRun, s
<1>3. ChunkerFeed(c, s) = r[1]
  BY <1>0, <1>1 DEF FedBy, s
<1>. QED
  BY <1>0, <1>2, <1>3 DEF s

\* A byte that is in no terminator of three bytes is fed as what it is.
FeedPlain(c, e) ==
  IF e = "!" THEN OnTerminator(c, <<"!">>)
  ELSE IF e = "n" THEN OnTerminator(c, <<>>)
  ELSE IF e = "r" THEN c
  ELSE [c EXCEPT !.cur = Append(@, e), !.pending = FALSE]

\* A token of one byte is never a terminator of three.
LEMMA FeedOnePlain ==
  ASSUME NEW B, HasMarks(B), NEW c \in Chunker(B), c.skip = 0, NEW e \in B
  PROVE  ChunkerFeed(c, <<e>>) = FeedPlain(c, e)
<1>1. ~IsCjkTerminator(<<e>>, 1)
  <2>1. Len(<<e>>) = 1
    OBVIOUS
  <2>. QED
    BY <2>1 DEF IsCjkTerminator
<1>2. <<e>>[1] = e
  OBVIOUS
<1>3. ~(c.skip > 0)
  OBVIOUS
<1>4. FeedByte(c, <<e>>, 1) = FeedPlain(c, e)
  BY <1>1, <1>2, <1>3 DEF FeedByte, FeedPlain
<1>. QED
  BY <1>4, FeedOne

\* A Chinese terminator in one token ends a sentence.
LEMMA FeedCjk ==
  ASSUME NEW B, HasMarks(B), NEW c \in Chunker(B), c.skip = 0
  PROVE  ChunkerFeed(c, Cjk) = OnTerminator(c, Cjk)
<1>0. Cjk \in Seq(B) /\ Len(Cjk) = 3
  BY DEF HasMarks, Cjk
<1>1. PICK r : FeedRun(B, c, Cjk, r) /\ FedBy(Cjk, r, ChunkerFeed(c, Cjk))
  BY <1>0, FeedRuns
<1>. DEFINE d == OnTerminator(c, Cjk)
<1>2. d \in Chunker(B) /\ d.skip = 0
  <2>1. d \in Chunker(B)
    BY <1>0, OnTerminatorType
  <2>2. d.skip = 0
    BY DEF OnTerminator, Chunker
  <2>. QED
    BY <2>1, <2>2
<1>3. IsCjkTerminator(Cjk, 1)
  <2>1. \A k \in 0..2 : Cjk[1 + k] = Cjk[k + 1]
    BY DEF Cjk
  <2>. QED
    BY <1>0, <2>1 DEF IsCjkTerminator
<1>4. /\ 1 \in 1..3 /\ 2 \in 1..3 /\ 3 \in 1..3 /\ 1 - 1 = 0 /\ 2 - 1 = 1 /\ 3 - 1 = 2
  OBVIOUS
<1>5. r[0] = c /\ \A k \in 1..3 : r[k] = FeedByte(r[k - 1], Cjk, k)
  BY <1>0, <1>1 DEF FeedRun
<1>6. r[1] = FeedByte(c, Cjk, 1) /\ r[2] = FeedByte(r[1], Cjk, 2) /\ r[3] = FeedByte(r[2], Cjk, 3)
  <2>1. r[1] = FeedByte(r[1 - 1], Cjk, 1)
    BY <1>4, <1>5
  <2>2. r[2] = FeedByte(r[2 - 1], Cjk, 2)
    BY <1>4, <1>5
  <2>3. r[3] = FeedByte(r[3 - 1], Cjk, 3)
    BY <1>4, <1>5
  <2>. QED
    BY <1>4, <1>5, <2>1, <2>2, <2>3
<1>. HIDE DEF d
<1>7. r[1] = [d EXCEPT !.skip = 2]
  BY <1>3, <1>6 DEF FeedByte, d
<1>8. r[1].skip = 2
  BY <1>2, <1>7 DEF Chunker
<1>9. r[2] = [r[1] EXCEPT !.skip = 1]
  <2>1. r[1].skip > 0 /\ r[1].skip - 1 = 1
    BY <1>8
  <2>. QED
    BY <1>6, <2>1 DEF FeedByte
<1>10. r[2] = [d EXCEPT !.skip = 1] /\ r[2].skip = 1
  BY ZenonT(30), <1>2, <1>7, <1>9 DEF Chunker
<1>11. r[3] = [r[2] EXCEPT !.skip = 0]
  <2>1. r[2].skip > 0 /\ r[2].skip - 1 = 0
    BY <1>10
  <2>. QED
    BY ZenonT(30), <1>6, <2>1 DEF FeedByte
<1>12. r[3] = d
  <2>1. r[3] = [d EXCEPT !.skip = 0]
    BY <1>2, <1>10, <1>11 DEF Chunker
  <2>2. [d EXCEPT !.skip = 0] = d
    BY <1>2 DEF Chunker
  <2>. QED
    BY <2>1, <2>2
<1>13. ChunkerFeed(c, Cjk) = r[3]
  BY <1>0, <1>1 DEF FedBy
<1>. QED
  BY <1>12, <1>13 DEF d

ChunkFcn(B) == [x \in Chunker(B) \X Seq(B) |-> ChunkerFeed(x[1], x[2])]

\* What the chunker is after a sequence of feeds.
Chunked(B, chunks) == Result(Chunker(B), ChunkFcn(B), NewChunker, chunks)

\* feed() is a step function on chunkers.
LEMMA ChunkFcnType ==
  ASSUME NEW B, HasMarks(B)
  PROVE  /\ ChunkFcn(B) \in [Chunker(B) \X Seq(B) -> Chunker(B)]
         /\ NewChunker \in Chunker(B)
<1>1. ChunkFcn(B) \in [Chunker(B) \X Seq(B) -> Chunker(B)]
  BY FeedType DEF ChunkFcn
<1>2. <<>> \in Seq(B) /\ <<>> \in Seq(Seq(B)) /\ 0 \in Nat
  OBVIOUS
<1>3. NewChunker \in Chunker(B)
  BY <1>2 DEF NewChunker, Chunker
<1>. QED
  BY <1>1, <1>3

\* A sequence of tokens is a run of feed() from a new chunker.
LEMMA ChunkedIsFold ==
  ASSUME NEW B, HasMarks(B), NEW chunks \in Seq(Seq(B))
  PROVE  FoldLeft(ChunkerFeed, NewChunker, chunks) = Chunked(B, chunks)
<1>. DEFINE D == Chunker(B)
            X == Seq(B)
            b == NewChunker
            F == ChunkFcn(B)
            s == chunks
            Eqn(g) == g = [T \in SUBSET DOMAIN s |->
                             IF T = {} THEN b ELSE ChunkerFeed(g[T \ {Max(T)}], s[Max(T)])]
            G == CHOOSE g : Eqn(g)
<1>0. DOMAIN s = 1..Len(s) /\ s \in Seq(X)
  OBVIOUS
<1>a. F \in [D \X X -> D]
  BY ChunkFcnType
<1>b. b \in D
  BY ChunkFcnType
<1>c. \A x \in D, e \in X : F[<<x, e>>] = ChunkerFeed(x, e)
  BY DEF ChunkFcn
<1>1. FoldLeft(ChunkerFeed, NewChunker, chunks) = G[DOMAIN s]
  BY DEF FoldLeft, MapThenFoldSet
<1>. HIDE DEF D, b, F, X, s
<1>2. PICK h : Unfolds(D, X, F, b, s, h)
  BY <1>0, <1>a, <1>b, FoldStart
<1>. DEFINE q == [T \in SUBSET DOMAIN s |-> h[T]]
<1>3. Eqn(q)
  BY <1>c, <1>2 DEF Unfolds
<1>4. Eqn(G)
  BY <1>3
<1>. HIDE DEF G
<1>5. G[{}] = b
  BY <1>4
<1>6. ASSUME NEW k \in 1..Len(s) PROVE FoldStep(F, D, s, G, k)
  <2>1. /\ (1..k) \in SUBSET DOMAIN s /\ (1..k) # {}
        /\ (1..k) \ {k} = 1..(k - 1) /\ Max(1..k) = k /\ s[k] \in X
    BY <1>0, FirstPositions
  <2>2. G[1..k] = ChunkerFeed(G[1..(k - 1)], s[k])
    BY <2>1, <1>4
  <2>. QED
    BY <2>1, <2>2, <1>c DEF FoldStep
<1>7. Folds(F, D, b, s, G)
  BY <1>5, <1>6 DEF Folds
<1>8. EndsAs(D, F, b, s, G)
  BY <1>0, <1>a, <1>b, <1>7, FoldIsResult
<1>. QED
  BY <1>0, <1>1, <1>8 DEF EndsAs, D, b, F, s, Chunked

\* After any tokens there is a chunker.
LEMMA ChunkedType ==
  ASSUME NEW B, HasMarks(B), NEW chunks \in Seq(Seq(B))
  PROVE  Chunked(B, chunks) \in Chunker(B)
<1>. DEFINE D == Chunker(B)  X == Seq(B)  F == ChunkFcn(B)  b == NewChunker
<1>a. F \in [D \X X -> D]
  BY ChunkFcnType
<1>b. b \in D
  BY ChunkFcnType
<1>c. chunks \in Seq(X)
  OBVIOUS
<1>. HIDE DEF D, F, b, X
<1>1. Result(D, F, b, chunks) \in D
  BY <1>a, <1>b, <1>c, ResultType
<1>. QED
  BY <1>1 DEF Chunked, D, F, b

\* Before any token the chunker is new.
LEMMA ChunkedEmpty ==
  ASSUME NEW B, HasMarks(B)
  PROVE  Chunked(B, <<>>) = NewChunker
<1>. DEFINE D == Chunker(B)  X == Seq(B)  F == ChunkFcn(B)  b == NewChunker
<1>a. F \in [D \X X -> D]
  BY ChunkFcnType
<1>b. b \in D
  BY ChunkFcnType
<1>. HIDE DEF D, F, b, X
<1>1. Result(D, F, b, <<>>) = b
  BY <1>a, <1>b, ResultEmpty
<1>. QED
  BY <1>1 DEF Chunked, D, F, b

\* A token more is a feed more.
LEMMA ChunkedAppend ==
  ASSUME NEW B, HasMarks(B), NEW chunks \in Seq(Seq(B)), NEW c \in Seq(B)
  PROVE  Chunked(B, Append(chunks, c)) = ChunkerFeed(Chunked(B, chunks), c)
<1>. DEFINE D == Chunker(B)  X == Seq(B)  F == ChunkFcn(B)  b == NewChunker
<1>a. F \in [D \X X -> D]
  BY ChunkFcnType
<1>b. b \in D
  BY ChunkFcnType
<1>c. chunks \in Seq(X) /\ c \in X
  OBVIOUS
<1>d. \A x \in D, e \in X : F[<<x, e>>] = ChunkerFeed(x, e)
  BY DEF ChunkFcn
<1>e. Chunked(B, chunks) \in D
  BY ChunkedType
<1>. HIDE DEF D, F, b, X
<1>1. Continues(D, F, b, chunks, c)
  BY <1>a, <1>b, <1>c, ResultAppend
<1>. QED
  BY <1>1, <1>c, <1>d, <1>e DEF Continues, Chunked, D, F, b

\* The last feed may as well be longer, if it ends with no begun terminator.
GrowsBy(B, chunks, w) ==
  Chunked(B, Front(chunks) \o <<Last(chunks) \o w>>) = ChunkerFeed(Chunked(B, chunks), w)

\* A longer last token: its new bytes are fed to where the shorter one left the chunker.
LEMMA LastFeedGrows ==
  ASSUME NEW B, HasMarks(B), NEW chunks \in Seq(Seq(B)), chunks # <<>>, NEW w \in Seq(B),
         Settled(Last(chunks))
  PROVE  GrowsBy(B, chunks, w)
<1>. DEFINE D == Seq(B)  f == Front(chunks)  l == Last(chunks)
<1>1. f \in Seq(D) /\ l \in D /\ f \o <<l>> = chunks
  <2>. HIDE DEF D
  <2>1. chunks \in Seq(D)
    BY DEF D
  <2>. QED
    BY <2>1, FrontAndLast
<1>. HIDE DEF f, l
<1>2. l \o w \in Seq(B) /\ l \in Seq(B)
  BY <1>1
<1>3. f \o <<l>> = Append(f, l) /\ f \o <<l \o w>> = Append(f, l \o w)
  <2>. DEFINE x == l \o w
  <2>1. x \in D
    BY <1>2
  <2>. HIDE DEF x, D
  <2>2. f \o <<x>> = Append(f, x) /\ f \o <<l>> = Append(f, l)
    BY <1>1, <2>1, AppendIsConcat
  <2>. QED
    BY <2>2 DEF x
<1>4. Chunked(B, Append(f, l)) = ChunkerFeed(Chunked(B, f), l)
  BY <1>1, <1>2, ChunkedAppend
<1>5. Chunked(B, Append(f, l \o w)) = ChunkerFeed(Chunked(B, f), l \o w)
  <2>. DEFINE x == l \o w
  <2>1. x \in Seq(B)
    BY <1>2
  <2>. HIDE DEF x
  <2>2. Chunked(B, Append(f, x)) = ChunkerFeed(Chunked(B, f), x)
    BY <1>1, <2>1, ChunkedAppend
  <2>. QED
    BY <2>2 DEF x
<1>6. Chunked(B, f) \in Chunker(B)
  BY <1>1, ChunkedType
<1>7. FeedsOn(Chunked(B, f), l, w)
  <2>1. Settled(l)
    BY DEF l
  <2>. QED
    BY <1>2, <1>6, <2>1, FeedConcat
<1>. QED
  BY <1>1, <1>3, <1>4, <1>5, <1>7 DEF GrowsBy, FeedsOn, f, l

-----------------------------------------------------------------------------
(* The feeds of a text given as characters *)

\* The concatenation of what a function makes of each element.
Mapped(m, s) == [i \in DOMAIN s |-> m[s[i]]]
FlatMap(m, s) == FlattenSeq(Mapped(m, s))

MapsTo(m, s, X) == Mapped(m, s) \in Seq(X) /\ Len(Mapped(m, s)) = Len(s)

\* What a function makes of each element.
LEMMA MapType ==
  ASSUME NEW E, NEW X, NEW m \in [E -> X], NEW s \in Seq(E)
  PROVE  MapsTo(m, s, X)
<1>. DEFINE n == Len(s)
<1>1. DOMAIN s = 1..n /\ n \in Nat /\ \A i \in 1..n : s[i] \in E
  OBVIOUS
<1>2. \A i \in 1..n : m[s[i]] \in X
  BY <1>1
<1>. HIDE DEF n
<1>3. [i \in 1..n |-> m[s[i]]] \in Seq(X) /\ Len([i \in 1..n |-> m[s[i]]]) = n
  BY <1>1, <1>2
<1>. QED
  BY <1>1, <1>3 DEF n, Mapped, MapsTo

\* What the elements contribute, end to end.
LEMMA FlatMapType ==
  ASSUME NEW E, NEW X, NEW m \in [E -> Seq(X)], NEW s \in Seq(E)
  PROVE  FlatMap(m, s) \in Seq(X)
<1>. DEFINE D == Seq(X)
<1>1. m \in [E -> D]
  OBVIOUS
<1>. HIDE DEF D
<1>2. Mapped(m, s) \in Seq(D)
  BY <1>1, MapType DEF MapsTo
<1>3. Mapped(m, s) \in Seq(Seq(X))
  BY <1>2 DEF D
<1>. QED
  BY <1>3, FlattenType DEF FlatMap

\* Nothing contributes nothing.
LEMMA FlatMapEmpty ==
  ASSUME NEW m
  PROVE  FlatMap(m, <<>>) = <<>>
<1>1. Mapped(m, <<>>) = <<>>
  BY DEF Mapped
<1>. QED
  BY <1>1, FlattenEmpty DEF FlatMap

MapsOn(m, s, e) == FlatMap(m, Append(s, e)) = FlatMap(m, s) \o m[e]

\* An element more contributes at the end.
LEMMA FlatMapAppend ==
  ASSUME NEW E, NEW X, NEW m \in [E -> Seq(X)], NEW s \in Seq(E), NEW e \in E
  PROVE  MapsOn(m, s, e)
<1>. DEFINE D == Seq(X)  t == Mapped(m, s)  u == Append(s, e)  v == Mapped(m, u)
<1>0. m \in [E -> D]
  OBVIOUS
<1>1. /\ u \in Seq(E) /\ Len(u) = Len(s) + 1 /\ Len(s) \in Nat
      /\ \A i \in 1..Len(s) : u[i] = s[i]
      /\ u[Len(s) + 1] = e /\ DOMAIN u = 1..(Len(s) + 1) /\ DOMAIN s = 1..Len(s)
  OBVIOUS
<1>. HIDE DEF u, D
<1>2. t \in Seq(D) /\ Len(t) = Len(s)
  <2>1. MapsTo(m, s, D)
    BY <1>0, MapType
  <2>. QED
    BY <2>1 DEF MapsTo
<1>3. v \in Seq(D) /\ Len(v) = Len(u)
  <2>1. MapsTo(m, u, D)
    BY <1>0, <1>1, MapType
  <2>. QED
    BY <2>1 DEF MapsTo
<1>4. m[e] \in D
  BY <1>0
<1>5. \A i \in 1..Len(s) : v[i] = m[s[i]] /\ t[i] = m[s[i]]
  <2>1. ASSUME NEW i \in 1..Len(s) PROVE v[i] = m[s[i]] /\ t[i] = m[s[i]]
    <3>1. i \in DOMAIN u /\ i \in DOMAIN s /\ u[i] = s[i]
      BY <1>1
    <3>2. v[i] = m[u[i]] /\ t[i] = m[s[i]]
      BY <3>1 DEF Mapped
    <3>. QED
      BY <3>1, <3>2
  <2>. QED
    BY <2>1
<1>6. v[Len(s) + 1] = m[e]
  <2>1. Len(s) + 1 \in DOMAIN u
    BY <1>1
  <2>2. v[Len(s) + 1] = m[u[Len(s) + 1]]
    BY <2>1 DEF Mapped
  <2>. QED
    BY <1>1, <2>2
<1>. HIDE DEF t, v
<1>7. v = Append(t, m[e])
  <2>1. /\ Append(t, m[e]) \in Seq(D) /\ Len(Append(t, m[e])) = Len(s) + 1
        /\ \A i \in 1..Len(s) : Append(t, m[e])[i] = t[i]
        /\ Append(t, m[e])[Len(s) + 1] = m[e]
    BY <1>2, <1>4, AppendProperties
  <2>2. ASSUME NEW i \in 1..Len(v) PROVE v[i] = Append(t, m[e])[i]
    <3>1. i \in 1..Len(s) \/ i = Len(s) + 1
      BY <1>1, <1>3
    <3>2. CASE i \in 1..Len(s)
      BY <3>2, <1>5, <2>1
    <3>3. CASE i = Len(s) + 1
      BY <3>3, <1>6, <2>1
    <3>. QED
      BY <3>1, <3>2, <3>3
  <2>3. Len(v) = Len(Append(t, m[e]))
    BY <1>1, <1>3, <2>1
  <2>. QED
    BY <1>3, <2>1, <2>2, <2>3, SeqEqual
<1>8. FlattenSeq(Append(t, m[e])) = FlattenSeq(t) \o m[e]
  <2>. DEFINE w == m[e]
  <2>1. t \in Seq(Seq(X)) /\ w \in Seq(X)
    BY <1>2, <1>4 DEF D
  <2>. HIDE DEF w
  <2>2. FlattenSeq(Append(t, w)) = FlattenSeq(t) \o w
    BY <2>1, FlattenAppend
  <2>. QED
    BY <2>2 DEF w
<1>. QED
  BY <1>7, <1>8 DEF MapsOn, FlatMap, t, u, v

\* Short sequences of any elements, changed at their end.
LEMMA Tuples ==
  ASSUME NEW a, NEW b, NEW c
  PROVE  /\ [<<a>> EXCEPT ![1] = b] = <<b>> /\ [<<a, b>> EXCEPT ![2] = c] = <<a, c>>
         /\ Append(<<>>, a) = <<a>>
<1>1. [<<a>> EXCEPT ![1] = b] = <<b>>
  OBVIOUS
<1>2. [<<a, b>> EXCEPT ![2] = c] = <<a, c>>
  OBVIOUS
<1>3. Append(<<>>, a) = <<a>>
  OBVIOUS
<1>. QED
  BY <1>1, <1>2, <1>3

\* Short sequences of bytes.
LEMMA TupleTypes ==
  ASSUME NEW B, NEW a \in B, NEW b \in B, NEW c \in B, NEW d \in B
  PROVE  /\ <<>> \in Seq(B) /\ <<a>> \in Seq(B) /\ <<a, b>> \in Seq(B)
         /\ <<a, b, c>> \in Seq(B) /\ <<a, b, c, d>> \in Seq(B)
<1>1. <<>> \in Seq(B) /\ <<a>> \in Seq(B) /\ <<a, b>> \in Seq(B)
  OBVIOUS
<1>2. <<a, b, c>> \in Seq(B)
  OBVIOUS
<1>3. <<a, b, c, d>> \in Seq(B)
  OBVIOUS
<1>. QED
  BY <1>1, <1>2, <1>3

Appended(s, e, t) == Append(s, e) = t

\* Short sequences, one byte longer.
LEMMA TupleAppends ==
  ASSUME NEW B, NEW a \in B, NEW b \in B, NEW c \in B, NEW d \in B
  PROVE  /\ Appended(<<a>>, b, <<a, b>>) /\ Appended(<<a, b>>, c, <<a, b, c>>)
         /\ Appended(<<a, b, c>>, d, <<a, b, c, d>>)
<1>1. Append(<<a>>, b) = <<a, b>>
  <2>. DEFINE s == <<a>>  t == <<a, b>>
  <2>1. s \in Seq(B) /\ Len(s) = 1 /\ s[1] = a
    OBVIOUS
  <2>2. t \in Seq(B) /\ Len(t) = 2 /\ t[1] = a /\ t[2] = b
    OBVIOUS
  <2>. HIDE DEF s, t
  <2>3. /\ Append(s, b) \in Seq(B) /\ Len(Append(s, b)) = 2
        /\ Append(s, b)[1] = a /\ Append(s, b)[2] = b
    <3>1. /\ Append(s, b) \in Seq(B) /\ Len(Append(s, b)) = Len(s) + 1
          /\ \A i \in 1..Len(s) : Append(s, b)[i] = s[i]
          /\ Append(s, b)[Len(s) + 1] = b
      <4>1. s \in Seq(B)
        BY <2>1
      <4>. QED
        BY <4>1, AppendProperties
    <3>2. 1 \in 1..Len(s) /\ Len(s) + 1 = 2
      BY <2>1
    <3>. QED
      BY <2>1, <3>1, <3>2
  <2>4. \A i \in 1..2 : Append(s, b)[i] = t[i]
    BY <2>2, <2>3
  <2>5. Append(s, b) = t
    BY <2>2, <2>3, <2>4, SeqEqual
  <2>. QED
    BY <2>5 DEF s, t
<1>2. Append(<<a, b>>, c) = <<a, b, c>>
  <2>. DEFINE s == <<a, b>>  t == <<a, b, c>>
  <2>1. s \in Seq(B) /\ Len(s) = 2 /\ s[1] = a /\ s[2] = b
    OBVIOUS
  <2>2. t \in Seq(B) /\ Len(t) = 3 /\ t[1] = a /\ t[2] = b /\ t[3] = c
    OBVIOUS
  <2>. HIDE DEF s, t
  <2>3. /\ Append(s, c) \in Seq(B) /\ Len(Append(s, c)) = 3
        /\ Append(s, c)[1] = a /\ Append(s, c)[2] = b /\ Append(s, c)[3] = c
    BY <2>1
  <2>4. \A i \in 1..3 : Append(s, c)[i] = t[i]
    BY <2>2, <2>3
  <2>5. Append(s, c) = t
    BY <2>2, <2>3, <2>4, SeqEqual
  <2>. QED
    BY <2>5 DEF s, t
<1>3. Append(<<a, b, c>>, d) = <<a, b, c, d>>
  <2>. DEFINE s == <<a, b, c>>  t == <<a, b, c, d>>
  <2>1. s \in Seq(B) /\ Len(s) = 3 /\ s[1] = a /\ s[2] = b /\ s[3] = c
    OBVIOUS
  <2>2. t \in Seq(B) /\ Len(t) = 4 /\ t[1] = a /\ t[2] = b /\ t[3] = c /\ t[4] = d
    OBVIOUS
  <2>. HIDE DEF s, t
  <2>3. /\ Append(s, d) \in Seq(B) /\ Len(Append(s, d)) = 4
        /\ Append(s, d)[1] = a /\ Append(s, d)[2] = b /\ Append(s, d)[3] = c /\ Append(s, d)[4] = d
    <3>1. /\ Append(s, d) \in Seq(B) /\ Len(Append(s, d)) = Len(s) + 1
          /\ \A i \in 1..Len(s) : Append(s, d)[i] = s[i]
          /\ Append(s, d)[Len(s) + 1] = d
      BY <2>1, AppendProperties
    <3>2. 1 \in 1..Len(s) /\ 2 \in 1..Len(s) /\ 3 \in 1..Len(s) /\ Len(s) + 1 = 4
      BY <2>1
    <3>3. Append(s, d)[1] = s[1] /\ Append(s, d)[2] = s[2] /\ Append(s, d)[3] = s[3]
      BY <3>1, <3>2
    <3>. QED
      BY <2>1, <3>1, <3>2, <3>3
  <2>4. \A i \in 1..4 : Append(s, d)[i] = t[i]
    BY <2>2, <2>3
  <2>5. Append(s, d) = t
    BY <2>2, <2>3, <2>4, SeqEqual
  <2>. QED
    BY <2>5 DEF s, t
<1>. QED
  BY <1>1, <1>2, <1>3 DEF Appended

\* The characters of a text, none a byte of a terminator, and the bytes.
IsText(E) == E \cap {"c1", "c2", "c3"} = {}
ByteSet(E) == E \cup {"c1", "c2", "c3", "!", "cut"}

BytesFcn(E) == [e \in E |-> BytesOf(e)]

\* The feeds of a text.
FeedsOf(E, s) == Pieces(FlatMap(BytesFcn(E), s), {"cut"})

\* Every character has its bytes.
LEMMA BytesFcnType ==
  ASSUME NEW E
  PROVE  BytesFcn(E) \in [E -> Seq(ByteSet(E))] /\ HasMarks(ByteSet(E))
<1>1. HasMarks(ByteSet(E))
  BY DEF HasMarks, ByteSet
<1>2. ASSUME NEW e \in E PROVE BytesOf(e) \in Seq(ByteSet(E))
  <2>1. Cjk \in Seq(ByteSet(E)) /\ <<"c1", "cut", "c2", "c3">> \in Seq(ByteSet(E))
    BY DEF Cjk, ByteSet
  <2>2. <<e>> \in Seq(ByteSet(E))
    <3>1. e \in ByteSet(E)
      BY DEF ByteSet
    <3>. QED
      BY <3>1
  <2>. QED
    BY <2>1, <2>2 DEF BytesOf, Bytes
<1>. QED
  BY <1>1, <1>2 DEF BytesFcn

\* One byte: in the same feed, or the end of it.
OneCut(B, Seps, l, e) ==
  Cut(B, Seps, l, <<e>>) = IF e \in Seps THEN <<l, <<>>>> ELSE <<Append(l, e)>>

CutGrows(B, Seps, l, t, e) ==
  Cut(B, Seps, l, Append(t, e)) = PieceStep(Cut(B, Seps, l, t), e, Seps)

\* One byte more of a text that is cut into feeds.
LEMMA CutNext ==
  ASSUME NEW B, NEW Seps, NEW l \in Seq(B), NEW t \in Seq(B), NEW e \in B
  PROVE  CutGrows(B, Seps, l, t, e)
BY CutAppend DEF CutGrows

\* A single byte goes into the feed, or ends it.
LEMMA CutOne ==
  ASSUME NEW B, NEW Seps, NEW l \in Seq(B), NEW e \in B
  PROVE  OneCut(B, Seps, l, e)
<1>1. Cut(B, Seps, l, <<>>) = <<l>> /\ <<>> \in Seq(B) /\ Append(<<>>, e) = <<e>>
  BY CutEmpty
<1>2. Cut(B, Seps, l, <<e>>) = PieceStep(<<l>>, e, Seps)
  BY <1>1, CutAppend
<1>. DEFINE n == Append(l, e)
<1>. HIDE DEF n
<1>3. [<<l>> EXCEPT ![1] = n] = <<n>>
  BY Tuples
<1>0. Append(<<l>>, <<>>) = <<l, <<>>>>
  <2>. DEFINE D == Seq(B)  z == <<>>
  <2>1. l \in D /\ z \in D
    OBVIOUS
  <2>. HIDE DEF D, z
  <2>2. Appended(<<l>>, z, <<l, z>>)
    BY <2>1, TupleAppends
  <2>. QED
    BY <2>2 DEF Appended, z
<1>4. Len(<<l>>) = 1 /\ <<l>>[1] = l
  OBVIOUS
<1>5. e \notin Seps => PieceStep(<<l>>, e, Seps) = <<n>>
  BY <1>3, <1>4 DEF PieceStep, n
<1>6. e \in Seps => PieceStep(<<l>>, e, Seps) = <<l, <<>>>>
  BY <1>0 DEF PieceStep
<1>. QED
  BY <1>2, <1>5, <1>6 DEF OneCut, n

\* Three bytes in one feed.
ThreeCut(B, Seps, l, a, b, c) ==
  Cut(B, Seps, l, <<a, b, c>>) = <<l \o <<a, b, c>>>>

\* The three bytes of a terminator go into one feed.
LEMMA CutThree ==
  ASSUME NEW B, NEW Seps, NEW l \in Seq(B), NEW a \in B, NEW b \in B, NEW c \in B,
         a \notin Seps, b \notin Seps, c \notin Seps
  PROVE  ThreeCut(B, Seps, l, a, b, c)
<1>. DEFINE la == Append(l, a)  lb == Append(la, b)  lc == Append(lb, c)
            s == <<a>>  t == <<a, b>>  u == <<a, b, c>>
<1>1. s \in Seq(B) /\ t \in Seq(B) /\ Append(s, b) = t /\ Append(t, c) = u
  BY TupleTypes, TupleAppends DEF Appended
<1>2. la \in Seq(B) /\ lb \in Seq(B) /\ lc \in Seq(B)
  OBVIOUS
<1>3. lc = l \o u
  OBVIOUS
<1>4. Cut(B, Seps, l, s) = <<la>>
  <2>1. OneCut(B, Seps, l, a)
    BY CutOne
  <2>. QED
    BY <2>1 DEF OneCut
<1>. HIDE DEF la, lb, lc, s, t, u
<1>5. CutGrows(B, Seps, l, s, b)
  BY <1>1, CutNext
<1>6. \A x, y : Len(<<x>>) = 1 /\ <<x>>[1] = x /\ [<<x>> EXCEPT ![1] = y] = <<y>>
  BY Tuples
<1>7. PieceStep(<<la>>, b, Seps) = <<lb>>
  BY <1>6 DEF PieceStep, lb
<1>8. CutGrows(B, Seps, l, t, c)
  BY <1>1, CutNext
<1>9. PieceStep(<<lb>>, c, Seps) = <<lc>>
  BY <1>6 DEF PieceStep, lc
<1>10. Cut(B, Seps, l, u) = <<l \o u>>
  BY <1>1, <1>3, <1>4, <1>5, <1>7, <1>8, <1>9 DEF CutGrows
<1>. QED
  BY <1>10 DEF ThreeCut, u

\* One byte in one feed, and two in the next.
ApartCut(B, Seps, l, a, k, b, c) ==
  Cut(B, Seps, l, <<a, k, b, c>>) = <<Append(l, a), <<b, c>>>>

\* A terminator that is cut: its first byte ends one feed, the others begin the next.
LEMMA CutApart ==
  ASSUME NEW B, NEW Seps, NEW l \in Seq(B), NEW a \in B, NEW k \in B, NEW b \in B, NEW c \in B,
         a \notin Seps, k \in Seps, b \notin Seps, c \notin Seps
  PROVE  ApartCut(B, Seps, l, a, k, b, c)
<1>. DEFINE x == Append(l, a)  n == <<>>  nb == <<b>>  nc == <<b, c>>
            s == <<a>>  t == <<a, k>>  u == <<a, k, b>>  v == <<a, k, b, c>>
<1>1. /\ s \in Seq(B) /\ t \in Seq(B) /\ u \in Seq(B)
      /\ Append(s, k) = t /\ Append(t, b) = u /\ Append(u, c) = v
  BY TupleTypes, TupleAppends DEF Appended
<1>2. Append(nb, c) = nc /\ nb \in Seq(B) /\ x \in Seq(B) /\ n \in Seq(B)
  <2>1. nb \in Seq(B) /\ n \in Seq(B)
    BY TupleTypes
  <2>2. Append(nb, c) = nc
    BY TupleAppends DEF Appended
  <2>3. x \in Seq(B)
    OBVIOUS
  <2>. QED
    BY <2>1, <2>2, <2>3
<1>3. Append(n, b) = nb
  BY Tuples
<1>4. Cut(B, Seps, l, s) = <<x>>
  <2>1. OneCut(B, Seps, l, a)
    BY CutOne
  <2>. QED
    BY <2>1 DEF OneCut
<1>. HIDE DEF x, n, nb, nc, s, t, u, v
<1>5. CutGrows(B, Seps, l, s, k)
  BY <1>1, CutNext
<1>6. CutGrows(B, Seps, l, t, b)
  BY <1>1, CutNext
<1>7. CutGrows(B, Seps, l, u, c)
  BY <1>1, CutNext
<1>8. \A y, z : Len(<<x, y>>) = 2 /\ <<x, y>>[2] = y /\ [<<x, y>> EXCEPT ![2] = z] = <<x, z>>
  BY Tuples
<1>9. PieceStep(<<x>>, k, Seps) = <<x, n>>
  <2>. DEFINE D == Seq(B)
  <2>1. x \in D /\ n \in D
    BY <1>2
  <2>. HIDE DEF D
  <2>2. Appended(<<x>>, n, <<x, n>>)
    BY <2>1, TupleAppends
  <2>. QED
    BY <2>2 DEF Appended, PieceStep, n
<1>10. PieceStep(<<x, n>>, b, Seps) = <<x, nb>>
  BY <1>3, <1>8 DEF PieceStep
<1>11. PieceStep(<<x, nb>>, c, Seps) = <<x, nc>>
  BY <1>2, <1>8 DEF PieceStep
<1>12. Cut(B, Seps, l, v) = <<x, nc>>
  BY <1>1, <1>4, <1>5, <1>6, <1>7, <1>9, <1>10, <1>11 DEF CutGrows
<1>. QED
  BY <1>12 DEF ApartCut, x, nc, v

\* The feeds of a text with one more character.
GoesOnAs(E, s, e) ==
  LET ls == FeedsOf(E, s)
      l == Last(ls)
      more == FeedsOf(E, Append(s, e))
  IN IF e = "cut" THEN more = Append(ls, <<>>)
     ELSE IF e = "T" THEN more = Front(ls) \o <<l \o Cjk>>
     ELSE IF e = "Tcut" THEN more = Append(Front(ls) \o <<l \o <<"c1">>>>, <<"c2", "c3">>)
     ELSE more = Front(ls) \o <<l \o <<e>>>>

\* The feeds of a text are texts, and there is a last one.
LEMMA FeedsType ==
  ASSUME NEW E, NEW s \in Seq(E)
  PROVE  /\ FeedsOf(E, s) \in Seq(Seq(ByteSet(E))) /\ FeedsOf(E, s) # <<>>
         /\ Last(FeedsOf(E, s)) \in Seq(ByteSet(E))
         /\ Front(FeedsOf(E, s)) \in Seq(Seq(ByteSet(E)))
         /\ Front(FeedsOf(E, s)) \o <<Last(FeedsOf(E, s))>> = FeedsOf(E, s)
<1>. DEFINE B == ByteSet(E)  m == BytesFcn(E)  D == Seq(B)
<1>1. m \in [E -> Seq(B)]
  BY BytesFcnType
<1>. HIDE DEF B, m
<1>2. FlatMap(m, s) \in Seq(B)
  BY <1>1, FlatMapType
<1>3. Pieces(FlatMap(m, s), {"cut"}) \in Seq(Seq(B)) /\ Pieces(FlatMap(m, s), {"cut"}) # <<>>
  BY <1>2, PiecesType
<1>4. FeedsOf(E, s) \in Seq(D) /\ FeedsOf(E, s) # <<>>
  BY <1>3 DEF FeedsOf, m
<1>. HIDE DEF D
<1>5. /\ Last(FeedsOf(E, s)) \in D /\ Front(FeedsOf(E, s)) \in Seq(D)
      /\ Front(FeedsOf(E, s)) \o <<Last(FeedsOf(E, s))>> = FeedsOf(E, s)
  BY <1>4, FrontAndLast
<1>. QED
  BY <1>4, <1>5 DEF D, B

\* The feeds of a text with one character more.
LEMMA FeedsGoOn ==
  ASSUME NEW E, IsText(E), NEW s \in Seq(E), NEW e \in E
  PROVE  GoesOnAs(E, s, e)
<1>. DEFINE B == ByteSet(E)  m == BytesFcn(E)  t == FlatMap(m, s)  ls == FeedsOf(E, s)
            l == Last(ls)
<1>0. m \in [E -> Seq(B)] /\ m[e] = BytesOf(e) /\ e \in B
      /\ {"c1", "c2", "c3", "cut"} \subseteq B
  BY BytesFcnType DEF BytesFcn, ByteSet
<1>1. ls \in Seq(Seq(B)) /\ ls # <<>> /\ l \in Seq(B) /\ Front(ls) \in Seq(Seq(B))
      /\ Front(ls) \o <<l>> = ls
  BY FeedsType
<1>. HIDE DEF B, m
<1>2. t \in Seq(B)
  BY <1>0, FlatMapType
<1>3. FlatMap(m, Append(s, e)) = t \o m[e]
  BY <1>0, FlatMapAppend DEF MapsOn
<1>4. FeedsOf(E, Append(s, e)) = Front(ls) \o Cut(B, {"cut"}, l, BytesOf(e))
  <2>. DEFINE w == m[e]
  <2>1. w \in Seq(B) /\ ls = Pieces(t, {"cut"})
    BY <1>0 DEF FeedsOf, m
  <2>. HIDE DEF w, t
  <2>2. Extends(t, w, {"cut"}) /\ Pieces(Last(Pieces(t, {"cut"})) \o w, {"cut"})
                                    = Cut(B, {"cut"}, Last(Pieces(t, {"cut"})), w)
    BY <1>2, <2>1, PiecesGoOn
  <2>3. Pieces(t \o w, {"cut"}) = Front(ls) \o Cut(B, {"cut"}, l, w)
    BY <2>1, <2>2 DEF Extends
  <2>4. FeedsOf(E, Append(s, e)) = Pieces(t \o w, {"cut"})
    BY <1>3 DEF FeedsOf, m, w
  <2>. QED
    BY <1>0, <2>3, <2>4 DEF w
<1>. HIDE DEF ls, l
<1>5. "c1" \in B /\ "c2" \in B /\ "c3" \in B /\ "cut" \in B
  BY <1>0
<1>6. CASE e = "cut"
  <2>1. BytesOf(e) = <<"cut">>
    BY <1>6 DEF BytesOf, Bytes
  <2>2. Cut(B, {"cut"}, l, <<"cut">>) = <<l, <<>>>>
    <3>1. OneCut(B, {"cut"}, l, "cut")
      BY <1>1, <1>5, CutOne
    <3>. QED
      BY <3>1 DEF OneCut
  <2>3. Front(ls) \o <<l, <<>>>> = Append(ls, <<>>)
    <3>. DEFINE D == Seq(B)  f == Front(ls)  a == <<l>>  n == <<>>  z == <<n>>
    <3>1. f \in Seq(D) /\ a \in Seq(D) /\ z \in Seq(D) /\ f \o a = ls /\ <<l, n>> = a \o z
          /\ n \in D /\ ls \in Seq(D)
      BY SMTT(20), ZenonT(30), <1>1
    <3>. HIDE DEF D, n
    <3>2. Append(ls, n) = ls \o z
      BY <3>1, AppendIsConcat
    <3>5. f \in Seq(D) /\ a \in Seq(D) /\ z \in Seq(D)
      BY <3>1
    <3>. HIDE DEF f, a, z
    <3>3. (f \o a) \o z = f \o (a \o z)
      <4>1. Regroups(f, a, z)
        BY <3>5, ConcatRegroups
      <4>. QED
        BY <4>1, Zenon DEF Regroups
    <3>. QED
      BY <3>1, <3>2, <3>3 DEF f, a, z, n
  <2>. QED
    BY <1>4, <1>6, <2>1, <2>2, <2>3 DEF GoesOnAs, ls, l
<1>7. CASE e = "T"
  <2>1. BytesOf(e) = Cjk
    BY <1>7 DEF BytesOf, Bytes
  <2>2. Cut(B, {"cut"}, l, <<"c1", "c2", "c3">>) = <<l \o <<"c1", "c2", "c3">>>>
    <3>1. "c1" \notin {"cut"} /\ "c2" \notin {"cut"} /\ "c3" \notin {"cut"}
      OBVIOUS
    <3>2. ThreeCut(B, {"cut"}, l, "c1", "c2", "c3")
      BY <1>1, <1>5, <3>1, CutThree
    <3>. QED
      BY <3>2 DEF ThreeCut
  <2>. QED
    BY <1>4, <1>7, <2>1, <2>2 DEF GoesOnAs, ls, l, Cjk
<1>8. CASE e = "Tcut"
  <2>1. BytesOf(e) = <<"c1", "cut", "c2", "c3">>
    BY <1>8 DEF BytesOf
  <2>. DEFINE x == Append(l, "c1")
  <2>0. x \in Seq(B) /\ x = l \o <<"c1">>
    BY <1>1, <1>5, AppendProperties, AppendIsConcat
  <2>2. Cut(B, {"cut"}, l, <<"c1", "cut", "c2", "c3">>) = <<x, <<"c2", "c3">>>>
    <3>1. "c1" \notin {"cut"} /\ "cut" \in {"cut"} /\ "c2" \notin {"cut"} /\ "c3" \notin {"cut"}
      OBVIOUS
    <3>2. ApartCut(B, {"cut"}, l, "c1", "cut", "c2", "c3")
      BY <1>1, <1>5, <3>1, CutApart
    <3>. QED
      BY <3>2 DEF ApartCut
  <2>. HIDE DEF x
  <2>3. Front(ls) \o <<x, <<"c2", "c3">>>> = Append(Front(ls) \o <<x>>, <<"c2", "c3">>)
    <3>. DEFINE D == Seq(B)  f == Front(ls)  a == <<x>>  y == <<"c2", "c3">>  z == <<y>>
    <3>0. y \in D
      BY <1>5, TupleTypes
    <3>. HIDE DEF y
    <3>1. f \in Seq(D) /\ a \in Seq(D) /\ z \in Seq(D)
      BY <1>1, <2>0, <3>0
    <3>5. <<x, y>> = a \o z
      OBVIOUS
    <3>. HIDE DEF D, f, a
    <3>2. f \o a \in Seq(D)
      BY <3>1
    <3>3. Append(f \o a, y) = (f \o a) \o z
      BY <3>0, <3>1, <3>2, AppendIsConcat
    <3>. HIDE DEF z
    <3>4. (f \o a) \o z = f \o (a \o z)
      <4>1. Regroups(f, a, z)
        BY <3>1, ConcatRegroups
      <4>. QED
        BY <4>1, Zenon DEF Regroups
    <3>. QED
      BY <3>5, <3>3, <3>4 DEF f, a, y
  <2>. QED
    BY <1>4, <1>8, <2>0, <2>1, <2>2, <2>3 DEF GoesOnAs, ls, l
<1>9. CASE e \notin {"cut", "T", "Tcut"}
  <2>1. BytesOf(e) = <<e>>
    BY <1>9 DEF BytesOf, Bytes
  <2>2. Cut(B, {"cut"}, l, <<e>>) = <<Append(l, e)>>
    <3>1. e \notin {"cut"}
      BY <1>9
    <3>. QED
      <4>1. OneCut(B, {"cut"}, l, e)
        BY <1>0, <1>1, CutOne
      <4>. QED
        BY <3>1, <4>1 DEF OneCut
  <2>3. Append(l, e) = l \o <<e>>
    BY <1>0, <1>1, AppendIsConcat
  <2>. QED
    BY <1>4, <1>9, <2>1, <2>2, <2>3 DEF GoesOnAs, ls, l
<1>. QED
  BY <1>6, <1>7, <1>8, <1>9

-----------------------------------------------------------------------------
(* SentenceChunker: one more character *)

\* What a character does to the chunker, however its bytes are fed.
CharFed(c, e) ==
  IF e = "T" THEN OnTerminator(c, Cjk)
  ELSE IF e = "Tcut" THEN [c EXCEPT !.cur = @ \o Cjk, !.pending = FALSE]
  ELSE IF e = "cut" THEN c
  ELSE FeedPlain(c, e)

\* The chunker after the feeds of a text.
After(E, s) == Chunked(ByteSet(E), FeedsOf(E, s))

\* Two texts that end outside a terminator do so together.
LEMMA SettledGrows ==
  ASSUME NEW B, NEW l \in Seq(B), NEW w \in Seq(B), Settled(l), Settled(w)
  PROVE  Settled(l \o w)
<1>. DEFINE u == l \o w
<1>1. /\ u \in Seq(B) /\ Len(l) \in Nat /\ Len(w) \in Nat /\ Len(u) = Len(l) + Len(w)
      /\ \A i \in 1..(Len(l) + Len(w)) : u[i] = IF i <= Len(l) THEN l[i] ELSE w[i - Len(l)]
  BY ConcatProperties
<1>. HIDE DEF u
<1>2. ASSUME NEW i \in 1..Len(u), u[i] = "c1" PROVE i + 2 <= Len(u)
  <2>1. CASE i <= Len(l)
    <3>1. i \in 1..Len(l) /\ l[i] = "c1"
      BY <1>1, <1>2, <2>1
    <3>2. i + 2 <= Len(l)
      BY <3>1 DEF Settled
    <3>. QED
      BY <1>1, <3>1, <3>2
  <2>2. CASE ~(i <= Len(l))
    <3>. DEFINE j == i - Len(l)
    <3>1. j \in 1..Len(w) /\ w[j] = "c1" /\ i = Len(l) + j
      BY <1>1, <1>2, <2>2
    <3>. HIDE DEF j
    <3>2. j + 2 <= Len(w)
      BY <3>1 DEF Settled
    <3>. QED
      BY <1>1, <3>1, <3>2
  <2>. QED
    BY <2>1, <2>2
<1>3. Settled(u)
  BY <1>2 DEF Settled
<1>. QED
  BY <1>3 DEF u

\* A terminator, what follows a cut, and every other character end outside a terminator.
LEMMA SettledPieces ==
  /\ Settled(<<>>) /\ Settled(Cjk) /\ Settled(<<"c2", "c3">>) /\ Settled(<<"c2">>)
  /\ \A e : e # "c1" => Settled(<<e>>)
<1>1. Settled(<<>>)
  BY DEF Settled
<1>2. Settled(Cjk)
  <2>1. Len(Cjk) = 3 /\ Cjk[1] = "c1" /\ Cjk[2] = "c2" /\ Cjk[3] = "c3"
    BY DEF Cjk
  <2>. QED
    BY <2>1 DEF Settled
<1>3. \A e : e # "c1" => Settled(<<e>>)
  <2>1. \A e : Len(<<e>>) = 1 /\ <<e>>[1] = e
    OBVIOUS
  <2>. QED
    BY <2>1 DEF Settled
<1>4. Settled(<<"c2", "c3">>)
  <2>1. Len(<<"c2", "c3">>) = 2 /\ <<"c2", "c3">>[1] = "c2" /\ <<"c2", "c3">>[2] = "c3"
    OBVIOUS
  <2>. QED
    BY <2>1 DEF Settled
<1>5. Settled(<<"c2">>)
  BY <1>3
<1>. QED
  BY <1>1, <1>2, <1>3, <1>4, <1>5

\* The last of a sequence that was made longer.
LEMMA LastOfAppend ==
  ASSUME NEW D, NEW f \in Seq(D), NEW x \in D
  PROVE  Last(Append(f, x)) = x /\ Last(f \o <<x>>) = x
<1>1. /\ Append(f, x) \in Seq(D) /\ Len(Append(f, x)) = Len(f) + 1
      /\ Append(f, x)[Len(f) + 1] = x
  BY AppendProperties
<1>2. Append(f, x) = f \o <<x>>
  BY AppendIsConcat
<1>. QED
  BY <1>1, <1>2 DEF Last

\* The three bytes of a terminator, the first fed apart: they are content.
FedApart(c) == ChunkerFeed(ChunkerFeed(c, <<"c1">>), <<"c2", "c3">>)

\* A terminator whose bytes come in two tokens is content, and ends no sentence.
LEMMA ApartIsContent ==
  ASSUME NEW B, HasMarks(B), NEW c \in Chunker(B), c.skip = 0
  PROVE  FedApart(c) = [c EXCEPT !.cur = @ \o Cjk, !.pending = FALSE]
<1>. DEFINE d1 == FeedPlain(c, "c1")  d2 == FeedPlain(d1, "c2")  d3 == FeedPlain(d2, "c3")
<1>0. "c1" \in B /\ "c2" \in B /\ "c3" \in B
  BY DEF HasMarks
<1>1. ChunkerFeed(c, <<"c1">>) = d1
  BY <1>0, FeedOnePlain
<1>2. d1 = [c EXCEPT !.cur = Append(@, "c1"), !.pending = FALSE]
  BY DEF FeedPlain
<1>3. d1 \in Chunker(B) /\ d1.skip = 0 /\ d1.cur = Append(c.cur, "c1")
  <2>1. Append(c.cur, "c1") \in Seq(B)
    BY <1>0 DEF Chunker
  <2>. QED
    BY <1>2, <2>1 DEF Chunker
<1>4. d2 = [d1 EXCEPT !.cur = Append(@, "c2"), !.pending = FALSE]
  BY DEF FeedPlain
<1>. HIDE DEF d1
<1>5. d2 \in Chunker(B) /\ d2.skip = 0 /\ d2.cur = Append(d1.cur, "c2")
  <2>1. Append(d1.cur, "c2") \in Seq(B)
    BY <1>0, <1>3 DEF Chunker
  <2>. QED
    BY <1>3, <1>4, <2>1 DEF Chunker
<1>6. d3 = [d2 EXCEPT !.cur = Append(@, "c3"), !.pending = FALSE]
  BY DEF FeedPlain
<1>7. ChunkerFeed(d1, <<"c2">>) = d2
  BY <1>0, <1>3, FeedOnePlain
<1>. HIDE DEF d2
<1>8. ChunkerFeed(d2, <<"c3">>) = d3
  BY <1>0, <1>5, FeedOnePlain
<1>9. <<"c2", "c3">> = <<"c2">> \o <<"c3">> /\ <<"c2">> \in Seq(B) /\ <<"c3">> \in Seq(B)
  BY <1>0
<1>10. FeedsOn(d1, <<"c2">>, <<"c3">>)
  BY <1>3, <1>9, SettledPieces, FeedConcat
<1>11. ChunkerFeed(d1, <<"c2", "c3">>) = d3
  BY <1>7, <1>8, <1>9, <1>10 DEF FeedsOn
<1>. HIDE DEF d3
<1>12. d3 = [c EXCEPT !.cur = Append(Append(Append(c.cur, "c1"), "c2"), "c3"), !.pending = FALSE]
  BY <1>2, <1>3, <1>4, <1>5, <1>6 DEF Chunker
<1>13. Append(Append(Append(c.cur, "c1"), "c2"), "c3") = c.cur \o Cjk
  <2>. DEFINE l == c.cur
  <2>1. l \in Seq(B)
    BY DEF Chunker
  <2>. HIDE DEF l
  <2>2. \A x \in B, y \in B, z \in B : Append(Append(Append(l, x), y), z) = l \o <<x, y, z>>
    BY <2>1
  <2>. QED
    BY <1>0, <2>2 DEF l, Cjk
<1>. QED
  BY <1>1, <1>11, <1>12, <1>13 DEF FedApart

\* One more character: its effect, and that no terminator is left begun.
Advances(E, s, e) == After(E, Append(s, e)) = CharFed(After(E, s), e)

\* A character more, in the feeds of a text: the chunker does with it what it is.
LEMMA CharStep ==
  ASSUME NEW E, IsText(E), NEW s \in Seq(E), NEW e \in E,
         Settled(Last(FeedsOf(E, s))), After(E, s).skip = 0
  PROVE  Advances(E, s, e) /\ Settled(Last(FeedsOf(E, Append(s, e))))
<1>. DEFINE B == ByteSet(E)  ls == FeedsOf(E, s)  l == Last(ls)  f == Front(ls)
            more == FeedsOf(E, Append(s, e))  c == Chunked(B, ls)  D == Seq(B)
<1>0. HasMarks(B) /\ e \in B /\ "c1" \in B /\ "c2" \in B /\ "c3" \in B
  BY BytesFcnType DEF ByteSet
<1>1. ls \in Seq(D) /\ ls # <<>> /\ l \in Seq(B) /\ f \in Seq(D) /\ f \o <<l>> = ls
  BY FeedsType
<1>2. GoesOnAs(E, s, e)
  BY FeedsGoOn
<1>3. c \in Chunker(B) /\ c.skip = 0 /\ c = After(E, s)
  BY <1>0, <1>1, ChunkedType DEF After
<1>0a. f \in Seq(D)
  BY <1>1
<1>4. Settled(l)
  OBVIOUS
<1>5. After(E, Append(s, e)) = Chunked(B, more)
  BY DEF After
<1>6. \A w \in Seq(B) : Chunked(B, f \o <<l \o w>>) = ChunkerFeed(c, w)
  <2>1. ASSUME NEW w \in Seq(B) PROVE Chunked(B, f \o <<l \o w>>) = ChunkerFeed(c, w)
    <3>. HIDE DEF B
    <3>1. ls \in Seq(Seq(B)) /\ ls # <<>> /\ Settled(Last(ls))
      BY <1>1, <1>4
    <3>. HIDE DEF ls
    <3>2. GrowsBy(B, ls, w)
      BY <1>0, <3>1, LastFeedGrows
    <3>. QED
      BY <3>2 DEF GrowsBy
  <2>. QED
    BY <2>1
<1>7. CASE e = "cut"
  <2>1. more = Append(ls, <<>>)
    BY <1>2, <1>7 DEF GoesOnAs
  <2>. HIDE DEF B, ls
  <2>2. <<>> \in Seq(B)
    OBVIOUS
  <2>3. Chunked(B, Append(ls, <<>>)) = ChunkerFeed(c, <<>>)
    BY <1>0, <1>1, <2>2, ChunkedAppend
  <2>4. ChunkerFeed(c, <<>>) = c
    BY <1>0, <1>3, FeedNothing
  <2>5. Last(Append(ls, <<>>)) = <<>>
    <3>. DEFINE z == <<>>
    <3>1. z \in D
      BY <2>2
    <3>. HIDE DEF z, D
    <3>2. Last(Append(ls, z)) = z
      BY <1>1, <3>1, LastOfAppend
    <3>. QED
      BY <3>2 DEF z
  <2>6. CharFed(c, e) = c
    BY <1>7 DEF CharFed
  <2>. HIDE DEF c, more
  <2>. QED
    BY <1>3, <1>5, <2>1, <2>3, <2>4, <2>5, <2>6, SettledPieces DEF Advances, more
<1>8. CASE e = "T"
  <2>1. more = f \o <<l \o Cjk>>
    BY <1>2, <1>8 DEF GoesOnAs
  <2>2. Cjk \in Seq(B)
    BY <1>0 DEF Cjk
  <2>3. Chunked(B, f \o <<l \o Cjk>>) = ChunkerFeed(c, Cjk)
    BY <1>6, <2>2
  <2>4. ChunkerFeed(c, Cjk) = OnTerminator(c, Cjk)
    <3>. HIDE DEF B, c
    <3>. QED
      BY <1>0, <1>3, FeedCjk
  <2>5. Last(f \o <<l \o Cjk>>) = l \o Cjk
    <3>. DEFINE x == l \o Cjk
    <3>1. x \in D
      BY <1>1, <2>2
    <3>. HIDE DEF D, x, f
    <3>2. Last(f \o <<x>>) = x
      BY <1>0a, <3>1, LastOfAppend
    <3>. QED
      BY <3>2 DEF x
  <2>6. Settled(l \o Cjk)
    <3>. HIDE DEF B, l
    <3>. QED
      BY <1>1, <1>4, <2>2, SettledPieces, SettledGrows
  <2>7. CharFed(c, e) = OnTerminator(c, Cjk)
    BY <1>8 DEF CharFed
  <2>. HIDE DEF c, more, l, f, B
  <2>. QED
    BY <1>3, <1>5, <2>1, <2>3, <2>4, <2>5, <2>6, <2>7 DEF Advances, more
<1>9. CASE e = "Tcut"
  <2>. DEFINE a == f \o <<l \o <<"c1">>>>  y == <<"c2", "c3">>
  <2>1. more = Append(a, y)
    BY <1>2, <1>9 DEF GoesOnAs
  <2>2. <<"c1">> \in Seq(B) /\ y \in Seq(B)
    BY <1>0, TupleTypes
  <2>3. Chunked(B, a) = ChunkerFeed(c, <<"c1">>)
    BY <1>6, <2>2
  <2>4. a \in Seq(D)
    <3>. DEFINE x == l \o <<"c1">>
    <3>1. x \in D
      BY <1>1, <2>2
    <3>. HIDE DEF D, x, f
    <3>2. f \o <<x>> \in Seq(D)
      BY <1>0a, <3>1
    <3>. QED
      BY <3>2 DEF x
  <2>. HIDE DEF a, y
  <2>5. Chunked(B, Append(a, y)) = ChunkerFeed(Chunked(B, a), y)
    <3>. HIDE DEF B
    <3>. QED
      BY <1>0, <2>2, <2>4, ChunkedAppend
  <2>6. FedApart(c) = [c EXCEPT !.cur = @ \o Cjk, !.pending = FALSE]
    <3>. HIDE DEF B, c
    <3>. QED
      BY <1>0, <1>3, ApartIsContent
  <2>7. Last(Append(a, y)) = y
    <3>1. y \in D
      BY <2>2
    <3>. HIDE DEF D
    <3>. QED
      BY <2>4, <3>1, LastOfAppend
  <2>8. Settled(y)
    BY SettledPieces DEF y
  <2>9. CharFed(c, e) = [c EXCEPT !.cur = @ \o Cjk, !.pending = FALSE]
    BY <1>9 DEF CharFed
  <2>. HIDE DEF c, more, B
  <2>. QED
    BY <1>3, <1>5, <2>1, <2>3, <2>5, <2>6, <2>7, <2>8, <2>9 DEF Advances, more, FedApart, y
<1>10. CASE e \notin {"cut", "T", "Tcut"}
  <2>1. more = f \o <<l \o <<e>>>>
    BY <1>2, <1>10 DEF GoesOnAs
  <2>2. <<e>> \in Seq(B)
    BY <1>0
  <2>3. Chunked(B, f \o <<l \o <<e>>>>) = ChunkerFeed(c, <<e>>)
    BY <1>6, <2>2
  <2>4. ChunkerFeed(c, <<e>>) = FeedPlain(c, e)
    <3>. HIDE DEF B, c
    <3>. QED
      BY <1>0, <1>3, FeedOnePlain
  <2>5. Last(f \o <<l \o <<e>>>>) = l \o <<e>>
    <3>. DEFINE x == l \o <<e>>
    <3>1. x \in D
      BY <1>1, <2>2
    <3>. HIDE DEF D, x, f
    <3>2. Last(f \o <<x>>) = x
      BY <1>0a, <3>1, LastOfAppend
    <3>. QED
      BY <3>2 DEF x
  <2>6. Settled(l \o <<e>>)
    <3>1. e # "c1"
      BY DEF IsText
    <3>. HIDE DEF B, l
    <3>. QED
      BY <1>1, <1>4, <2>2, <3>1, SettledPieces, SettledGrows
  <2>7. CharFed(c, e) = FeedPlain(c, e)
    BY <1>10 DEF CharFed
  <2>. HIDE DEF c, more, l, f, B
  <2>. QED
    BY <1>3, <1>5, <2>1, <2>3, <2>4, <2>5, <2>6, <2>7 DEF Advances, more
<1>. QED
  BY <1>7, <1>8, <1>9, <1>10

-----------------------------------------------------------------------------
(* The sentences of a text: what each character contributes *)

\* The text and the terminators of characters, as what each contributes.
TextFcn(E) == [e \in E |-> IF e \in {"r", "cut"} THEN <<>> ELSE Bytes(e)]
MarkFcn(E) == [e \in E |-> IF e \in Terminators THEN <<e>> ELSE <<>>]

TextIs(E, x) == TextOf(x) = FlatMap(TextFcn(E), x)
MarksAre(E, x) == TerminatorsIn(x) = FlatMap(MarkFcn(E), x)

\* What a character contributes to a text, and to its terminators.
LEMMA TextFcnType ==
  ASSUME NEW E
  PROVE  TextFcn(E) \in [E -> Seq(ByteSet(E))] /\ MarkFcn(E) \in [E -> Seq(Terminators)]
<1>1. ASSUME NEW e \in E PROVE Bytes(e) \in Seq(ByteSet(E))
  <2>1. Cjk \in Seq(ByteSet(E))
    BY DEF Cjk, ByteSet
  <2>2. <<e>> \in Seq(ByteSet(E))
    <3>1. e \in ByteSet(E)
      BY DEF ByteSet
    <3>. QED
      BY <3>1
  <2>. QED
    BY <2>1, <2>2 DEF Bytes
<1>2. <<>> \in Seq(ByteSet(E)) /\ <<>> \in Seq(Terminators)
  OBVIOUS
<1>3. \A e \in Terminators : <<e>> \in Seq(Terminators)
  OBVIOUS
<1>4. TextFcn(E) \in [E -> Seq(ByteSet(E))]
  BY <1>1, <1>2 DEF TextFcn
<1>5. MarkFcn(E) \in [E -> Seq(Terminators)]
  BY <1>2, <1>3 DEF MarkFcn
<1>. QED
  BY <1>4, <1>5

\* A text and its terminators are what the characters contribute.
LEMMA TextOfIs ==
  ASSUME NEW E, NEW x \in Seq(E)
  PROVE  TextIs(E, x) /\ MarksAre(E, x)
<1>1. \A i \in DOMAIN x : x[i] \in E
  OBVIOUS
<1>2. [i \in DOMAIN x |-> IF x[i] \in {"r", "cut"} THEN <<>> ELSE Bytes(x[i])]
         = Mapped(TextFcn(E), x)
  BY <1>1 DEF Mapped, TextFcn
<1>3. [i \in DOMAIN x |-> IF x[i] \in Terminators THEN <<x[i]>> ELSE <<>>] = Mapped(MarkFcn(E), x)
  BY <1>1 DEF Mapped, MarkFcn
<1>4. TextIs(E, x)
  BY <1>2 DEF TextIs, TextOf, FlatMap
<1>5. MarksAre(E, x)
  BY <1>3 DEF MarksAre, TerminatorsIn, FlatMap
<1>. QED
  BY <1>4, <1>5

TextGrows(s, e) ==
  TextOf(Append(s, e)) = TextOf(s) \o (IF e \in {"r", "cut"} THEN <<>> ELSE Bytes(e))
MarksGrow(s, e) ==
  TerminatorsIn(Append(s, e)) = TerminatorsIn(s) \o (IF e \in Terminators THEN <<e>> ELSE <<>>)

\* With a character more, the text and the terminators grow by what it contributes.
LEMMA TextAppend ==
  ASSUME NEW E, NEW s \in Seq(E), NEW e \in E
  PROVE  /\ TextOf(s) \in Seq(ByteSet(E)) /\ TerminatorsIn(s) \in Seq(Terminators)
         /\ TextGrows(s, e) /\ MarksGrow(s, e)
<1>. DEFINE u == Append(s, e)  t == TextFcn(E)  m == MarkFcn(E)  B == ByteSet(E)
<1>1. u \in Seq(E)
  OBVIOUS
<1>2. TextIs(E, s) /\ MarksAre(E, s)
  BY TextOfIs
<1>3. TextIs(E, u) /\ MarksAre(E, u)
  <2>. HIDE DEF u
  <2>. QED
    BY <1>1, TextOfIs
<1>4. t \in [E -> Seq(B)] /\ m \in [E -> Seq(Terminators)]
  BY TextFcnType
<1>5. t[e] = (IF e \in {"r", "cut"} THEN <<>> ELSE Bytes(e))
  BY DEF TextFcn
<1>6. m[e] = (IF e \in Terminators THEN <<e>> ELSE <<>>)
  BY DEF MarkFcn
<1>. HIDE DEF t, m, B
<1>7. FlatMap(t, s) \in Seq(B) /\ FlatMap(m, s) \in Seq(Terminators)
  BY <1>4, FlatMapType
<1>8. MapsOn(t, s, e)
  BY <1>4, FlatMapAppend
<1>9. MapsOn(m, s, e)
  BY <1>4, FlatMapAppend
<1>10. TextGrows(s, e)
  BY <1>2, <1>3, <1>5, <1>8 DEF TextGrows, TextIs, MapsOn, t, u
<1>11. MarksGrow(s, e)
  BY <1>2, <1>3, <1>6, <1>9 DEF MarksGrow, MarksAre, MapsOn, m, u
<1>12. TextOf(s) \in Seq(ByteSet(E)) /\ TerminatorsIn(s) \in Seq(Terminators)
  BY <1>2, <1>7 DEF TextIs, MarksAre, t, m, B
<1>. QED
  BY <1>10, <1>11, <1>12

\* No characters, no text.
LEMMA TextEmpty == TextOf(<<>>) = <<>> /\ TerminatorsIn(<<>>) = <<>>
<1>1. <<>> \in Seq({})
  OBVIOUS
<1>2. TextIs({}, <<>>) /\ MarksAre({}, <<>>)
  BY <1>1, TextOfIs
<1>. QED
  BY <1>2, FlatMapEmpty DEF TextIs, MarksAre

\* What is said between two terminators.
LEMMA SentenceType ==
  ASSUME NEW E, NEW x \in Seq(E), NEW y \in Terminators
  PROVE  Sentence(x, y) \in Seq(Seq(ByteSet(E)))
<1>. DEFINE B == ByteSet(E)  t == TextOf(x)  b == IF y = "n" THEN <<>> ELSE Bytes(y)
<1>1. t \in Seq(B)
  <2>1. TextIs(E, x)
    BY TextOfIs
  <2>2. FlatMap(TextFcn(E), x) \in Seq(B)
    <3>1. TextFcn(E) \in [E -> Seq(B)]
      BY TextFcnType
    <3>. HIDE DEF B
    <3>. QED
      BY <3>1, FlatMapType
  <2>. QED
    BY <2>1, <2>2 DEF TextIs
<1>2. b \in Seq(B)
  <2>1. HasMarks(B)
    BY BytesFcnType
  <2>2. Cjk \in Seq(B) /\ <<"!">> \in Seq(B) /\ <<>> \in Seq(B)
    BY <2>1 DEF Cjk, HasMarks, ByteSet
  <2>. QED
    BY <2>2 DEF Bytes, Terminators
<1>3. Sentence(x, y) = IF t = <<>> THEN <<>> ELSE <<t \o b>>
  BY DEF Sentence
<1>. HIDE DEF t, b, B
<1>4. t \o b \in Seq(B)
  BY <1>1, <1>2
<1>5. <<>> \in Seq(Seq(B)) /\ <<t \o b>> \in Seq(Seq(B))
  BY <1>4
<1>. QED
  BY <1>3, <1>5 DEF B

SaidOf(p, m) == [k \in DOMAIN p |-> Sentence(p[k], m[k])]

SaidOn(p, m, x, y) == SaidOf(Append(p, x), Append(m, y)) = Append(SaidOf(p, m), Sentence(x, y))

\* A piece more with its terminator is a sentence more.
LEMMA SaidAppend ==
  ASSUME NEW E, NEW p \in Seq(Seq(E)), NEW m \in Seq(Terminators), Len(p) = Len(m),
         NEW x \in Seq(E), NEW y \in Terminators
  PROVE  /\ SaidOf(p, m) \in Seq(Seq(Seq(ByteSet(E)))) /\ SaidOn(p, m, x, y)
<1>. DEFINE D == Seq(Seq(ByteSet(E)))  C == Seq(E)  n == Len(p)
            q == Append(p, x)  w == Append(m, y)
            a == SaidOf(p, m)  b == SaidOf(q, w)  z == Sentence(x, y)
<1>0. p \in Seq(C) /\ x \in C
  OBVIOUS
<1>1. \A l \in C, t \in Terminators : Sentence(l, t) \in D
  BY SentenceType
<1>. HIDE DEF D, C
<1>2. /\ n \in Nat /\ DOMAIN p = 1..n /\ \A i \in 1..n : p[i] \in C /\ m[i] \in Terminators
      /\ q \in Seq(C) /\ DOMAIN q = 1..(n + 1) /\ w \in Seq(Terminators)
      /\ \A i \in 1..n : q[i] = p[i] /\ w[i] = m[i]
      /\ q[n + 1] = x /\ w[n + 1] = y
  BY <1>0
<1>3. \A i \in 1..n : Sentence(p[i], m[i]) \in D
  BY <1>1, <1>2
<1>4. z \in D
  BY <1>0, <1>1
<1>5. a = [i \in 1..n |-> Sentence(p[i], m[i])] /\ b = [i \in 1..(n + 1) |-> Sentence(q[i], w[i])]
  BY <1>2 DEF SaidOf
<1>. HIDE DEF n, q, w, z, a, b
<1>6. a \in Seq(D) /\ Len(a) = n
  BY <1>2, <1>3, <1>5
<1>7. \A i \in 1..n : b[i] = a[i]
  <2>1. ASSUME NEW i \in 1..n PROVE b[i] = a[i]
    <3>1. i \in 1..(n + 1)
      BY <1>2
    <3>. QED
      BY <1>2, <1>5, <3>1
  <2>. QED
    BY <2>1
<1>8. b[n + 1] = z
  <2>1. n + 1 \in 1..(n + 1)
    BY <1>2
  <2>. QED
    BY <1>2, <1>5, <2>1 DEF z
<1>9. \A i \in 1..(n + 1) : b[i] \in D
  <2>1. ASSUME NEW i \in 1..(n + 1) PROVE b[i] \in D
    <3>1. i \in 1..n \/ i = n + 1
      BY <1>2
    <3>2. i \in 1..n => a[i] \in D
      BY <1>6
    <3>. QED
      BY <1>4, <1>7, <1>8, <3>1, <3>2
  <2>. QED
    BY <2>1
<1>10. b \in Seq(D) /\ Len(b) = n + 1
  <2>. DEFINE k == n + 1
  <2>1. k \in Nat /\ \A i \in 1..k : b[i] \in D
    BY <1>2, <1>9
  <2>2. b = [i \in 1..k |-> b[i]]
    BY <1>5
  <2>. HIDE DEF k
  <2>3. [i \in 1..k |-> b[i]] \in Seq(D) /\ Len([i \in 1..k |-> b[i]]) = k
    BY <2>1
  <2>. QED
    BY <2>2, <2>3 DEF k
<1>11. /\ Append(a, z) \in Seq(D) /\ Len(Append(a, z)) = n + 1
       /\ \A i \in 1..n : Append(a, z)[i] = a[i]
       /\ Append(a, z)[n + 1] = z
  BY <1>4, <1>6
<1>12. b = Append(a, z)
  <2>. DEFINE c == Append(a, z)
  <2>1. \A i \in 1..(n + 1) : b[i] = c[i]
    <3>1. ASSUME NEW i \in 1..(n + 1) PROVE b[i] = c[i]
      <4>1. i \in 1..n \/ i = n + 1
        BY <1>2
      <4>. HIDE DEF c
      <4>. QED
        BY <1>7, <1>8, <1>11, <4>1 DEF c
    <3>. QED
      BY <3>1
  <2>2. c \in Seq(D) /\ Len(c) = Len(b)
    BY <1>10, <1>11
  <2>3. b \in Seq(D) /\ \A i \in 1..Len(b) : b[i] = c[i]
    BY <1>10, <2>1
  <2>. HIDE DEF c
  <2>4. b = c
    BY <2>2, <2>3, SeqEqual
  <2>. QED
    BY <2>4 DEF c
<1>13. a \in Seq(Seq(Seq(ByteSet(E))))
  BY <1>6 DEF D
<1>14. SaidOn(p, m, x, y)
  BY <1>12 DEF SaidOn, a, b, q, w, z
<1>. QED
  BY <1>13, <1>14 DEF a

-----------------------------------------------------------------------------
(* The sentences of a text: with one more character *)

\* One more element: the last piece grows, or is complete.
SplitsOn(Seps, s, e) ==
  LET p == Pieces(s, Seps)
      q == Pieces(Append(s, e), Seps)
  IN IF e \in Seps THEN Front(q) = p /\ Last(q) = <<>> /\ Len(q) = Len(p) + 1
     ELSE Front(q) = Front(p) /\ Last(q) = Append(Last(p), e) /\ Len(q) = Len(p)

\* A character more: the last piece grows, or is complete and an empty one begins.
LEMMA PieceSplits ==
  ASSUME NEW E, NEW Seps, NEW s \in Seq(E), NEW e \in E
  PROVE  SplitsOn(Seps, s, e)
<1>. DEFINE p == Pieces(s, Seps)  q == Pieces(Append(s, e), Seps)  D == Seq(E)
<1>0. <<>> \in Seq(E) /\ Append(s, e) \in Seq(E)
  OBVIOUS
<1>1. p \in Seq(Seq(E)) /\ p # <<>> /\ q \in Seq(Seq(E)) /\ q # <<>>
  BY <1>0, PiecesType
<1>2. q = PieceStep(p, e, Seps)
  <2>1. p = Cut(E, Seps, <<>>, s) /\ q = Cut(E, Seps, <<>>, Append(s, e))
    BY <1>0, PiecesIsCut
  <2>2. CutGrows(E, Seps, <<>>, s, e)
    BY <1>0, CutNext
  <2>. QED
    BY <2>1, <2>2 DEF CutGrows
<1>3. p \in Seq(D) /\ q \in Seq(D) /\ <<>> \in D
  BY <1>0, <1>1
<1>4. Append(Last(p), e) \in D
  <2>1. Last(p) \in D
    <3>. HIDE DEF p, q, D
    <3>. QED
      BY <1>1, <1>3, FrontAndLast
  <2>. QED
    BY <2>1
<1>. HIDE DEF p, q
<1>5. CASE e \in Seps
  <2>. DEFINE z == <<>>
  <2>1. z \in D /\ q = Append(p, z)
    BY <1>2, <1>5 DEF PieceStep
  <2>. HIDE DEF z, D
  <2>2. Front(q) = p /\ Last(q) = z /\ Len(q) = Len(p) + 1
    <3>1. /\ Len(q) = Len(p) + 1 /\ q[Len(p) + 1] = z /\ Len(p) \in Nat
          /\ \A i \in 1..Len(p) : q[i] = p[i]
      BY <1>3, <2>1, AppendProperties
    <3>2. Front(q) \in Seq(D) /\ Len(Front(q)) = Len(p) /\ \A i \in 1..Len(p) : Front(q)[i] = q[i]
      <4>1. /\ Front(q) \in Seq(D) /\ Len(Front(q)) = Len(q) - 1
            /\ \A i \in 1..(Len(q) - 1) : Front(q)[i] = q[i]
        BY <1>1, <1>3, FrontAndLast
      <4>. QED
        BY <3>1, <4>1
    <3>. DEFINE f == Front(q)
    <3>3. f \in Seq(D) /\ Len(f) = Len(p) /\ \A i \in 1..Len(p) : f[i] = p[i]
      BY <3>1, <3>2
    <3>. HIDE DEF f
    <3>4. f = p
      BY <1>3, <3>3, SeqEqual
    <3>. QED
      BY <3>1, <3>4 DEF f, Last
  <2>. QED
    BY <1>5, <2>2 DEF SplitsOn, p, q, z
<1>6. CASE e \notin Seps
  <2>. DEFINE x == Append(Last(p), e)
  <2>1. x \in D /\ q = [p EXCEPT ![Len(p)] = x]
    BY <1>2, <1>4, <1>6 DEF PieceStep, Last
  <2>. HIDE DEF x, D
  <2>2. Front(q) = Front(p) /\ Last(q) = x /\ Len(q) = Len(p)
    <3>1. /\ Len(p) \in Nat \ {0} /\ Len(q) = Len(p) /\ q[Len(p)] = x
          /\ \A i \in 1..(Len(p) - 1) : q[i] = p[i]
      BY <1>1, <1>3, <2>1
    <3>2. /\ Front(q) \in Seq(D) /\ Len(Front(q)) = Len(p) - 1
          /\ \A i \in 1..(Len(p) - 1) : Front(q)[i] = q[i]
      <4>1. /\ Front(q) \in Seq(D) /\ Len(Front(q)) = Len(q) - 1
            /\ \A i \in 1..(Len(q) - 1) : Front(q)[i] = q[i]
        BY <1>1, <1>3, FrontAndLast
      <4>. QED
        BY <3>1, <4>1
    <3>3. /\ Front(p) \in Seq(D) /\ Len(Front(p)) = Len(p) - 1
          /\ \A i \in 1..(Len(p) - 1) : Front(p)[i] = p[i]
      BY <1>1, <1>3, FrontAndLast
    <3>. DEFINE f == Front(q)  g == Front(p)
    <3>4. f \in Seq(D) /\ g \in Seq(D) /\ Len(f) = Len(g) /\ \A i \in 1..Len(g) : f[i] = g[i]
      BY <3>1, <3>2, <3>3
    <3>. HIDE DEF f, g
    <3>5. f = g
      BY <3>4, SeqEqual
    <3>. QED
      BY <3>1, <3>5 DEF f, g, Last
  <2>. QED
    BY <1>6, <2>2 DEF SplitsOn, p, q, x
<1>. QED
  BY <1>5, <1>6

\* The sentences of a text that have their terminator.
Said(s) == FlattenSeq(SaidOf(Front(Pieces(s, Terminators)), TerminatorsIn(s)))
Unsaid(s) == Last(Pieces(s, Terminators))

Matched(s) == Len(Pieces(s, Terminators)) = Len(TerminatorsIn(s)) + 1

SaidGrows(s, e) ==
  IF e \in Terminators
    THEN Said(Append(s, e)) = Said(s) \o Sentence(Unsaid(s), e) /\ Unsaid(Append(s, e)) = <<>>
    ELSE Said(Append(s, e)) = Said(s) /\ Unsaid(Append(s, e)) = Append(Unsaid(s), e)

SaidThen(s, y) ==
  FlattenSeq(SaidOf(Pieces(s, Terminators), Append(TerminatorsIn(s), y)))
     = Said(s) \o Sentence(Unsaid(s), y)

\* The sentences that have their terminator, and the one that a terminator would end now.
LEMMA SaidAnd ==
  ASSUME NEW E, NEW s \in Seq(E), Matched(s), NEW y \in Terminators
  PROVE  SaidThen(s, y) /\ Unsaid(s) \in Seq(E) /\ Said(s) \in Seq(Seq(ByteSet(E)))
<1>. DEFINE p == Pieces(s, Terminators)  m == TerminatorsIn(s)  f == Front(p)  l == Last(p)
            C == Seq(E)  D == Seq(Seq(ByteSet(E)))  z == Sentence(l, y)  a == SaidOf(f, m)
<1>1. p \in Seq(C) /\ p # <<>>
  BY PiecesType
<1>2. m \in Seq(Terminators)
  <2>1. MarksAre(E, s)
    BY TextOfIs
  <2>2. MarkFcn(E) \in [E -> Seq(Terminators)]
    BY TextFcnType
  <2>3. FlatMap(MarkFcn(E), s) \in Seq(Terminators)
    BY <2>2, FlatMapType
  <2>. QED
    BY <2>1, <2>3 DEF MarksAre
<1>. HIDE DEF p, m, C
<1>3. /\ f \in Seq(C) /\ l \in C /\ Len(p) \in Nat \ {0} /\ Len(f) = Len(p) - 1
      /\ f \o <<l>> = p
  BY <1>1, FrontAndLast
<1>4. Append(f, l) = p
  <2>1. f \in Seq(C) /\ l \in C
    BY <1>3
  <2>. HIDE DEF f, l
  <2>2. Append(f, l) = f \o <<l>>
    BY <2>1, AppendIsConcat
  <2>. QED
    BY <1>3, <2>2
<1>5. Len(f) = Len(m)
  <2>1. Len(p) = Len(m) + 1 /\ Len(m) \in Nat
    BY <1>2 DEF Matched, p, m
  <2>. QED
    BY <1>3, <2>1
<1>6. f \in Seq(Seq(E)) /\ l \in Seq(E)
  BY <1>3 DEF C
<1>. HIDE DEF f, l
<1>7. a \in Seq(D) /\ SaidOn(f, m, l, y)
  BY <1>2, <1>5, <1>6, SaidAppend
<1>8. z \in D
  BY <1>6, SentenceType
<1>9. FlattenSeq(Append(a, z)) = FlattenSeq(a) \o z
  <2>. HIDE DEF a, z
  <2>. QED
    BY <1>7, <1>8, FlattenAppend
<1>10. SaidOf(p, Append(m, y)) = Append(a, z)
  BY <1>4, <1>7 DEF SaidOn
<1>11. Said(s) = FlattenSeq(a) /\ Unsaid(s) = l
  BY DEF Said, Unsaid, p, m, f, l
<1>12. FlattenSeq(a) \in D
  <2>. HIDE DEF a
  <2>. QED
    BY <1>7, FlattenType
<1>13. SaidThen(s, y)
  BY <1>9, <1>10, <1>11 DEF SaidThen, p, m
<1>. QED
  BY <1>6, <1>11, <1>12, <1>13

\* With a character more, there is a terminator for every complete piece, and the sentences
\* grow by at most the one it ends.
LEMMA SaidNext ==
  ASSUME NEW E, NEW s \in Seq(E), Matched(s), NEW e \in E
  PROVE  Matched(Append(s, e)) /\ SaidGrows(s, e)
<1>. DEFINE u == Append(s, e)  p == Pieces(s, Terminators)  q == Pieces(u, Terminators)
            m == TerminatorsIn(s)  w == TerminatorsIn(u)
<1>1. SplitsOn(Terminators, s, e)
  BY PieceSplits
<1>2. m \in Seq(Terminators) /\ MarksGrow(s, e)
  BY TextAppend
<1>3. p \in Seq(Seq(E)) /\ Len(p) \in Nat /\ Len(p) = Len(m) + 1 /\ Len(m) \in Nat
  BY <1>2, PiecesType DEF Matched
<1>4. CASE e \in Terminators
  <2>1. Front(q) = p /\ Last(q) = <<>> /\ Len(q) = Len(p) + 1
    BY <1>1, <1>4 DEF SplitsOn
  <2>2. w = Append(m, e)
    <3>1. w = m \o <<e>>
      BY <1>2, <1>4 DEF MarksGrow
    <3>2. Append(m, e) = m \o <<e>>
      BY <1>2, <1>4, AppendIsConcat
    <3>. QED
      BY <3>1, <3>2
  <2>. HIDE DEF q, w, p, m, u
  <2>3. Len(q) = Len(w) + 1
    BY <1>2, <1>3, <1>4, <2>1, <2>2
  <2>4. SaidThen(s, e)
    BY <1>4, SaidAnd
  <2>5. Said(u) = Said(s) \o Sentence(Unsaid(s), e) /\ Unsaid(u) = <<>>
    BY <2>1, <2>2, <2>4 DEF SaidThen, Said, Unsaid, p, q, w, m
  <2>. QED
    BY <1>4, <2>3, <2>5 DEF Matched, SaidGrows, q, w, u
<1>5. CASE e \notin Terminators
  <2>1. Front(q) = Front(p) /\ Last(q) = Append(Last(p), e) /\ Len(q) = Len(p)
    BY <1>1, <1>5 DEF SplitsOn
  <2>2. w = m
    <3>1. w = m \o <<>>
      BY <1>2, <1>5 DEF MarksGrow
    <3>2. m \o <<>> = m
      BY <1>2
    <3>. QED
      BY <3>1, <3>2
  <2>. HIDE DEF q, w, p, m, u
  <2>3. Len(q) = Len(w) + 1
    BY <1>3, <2>1, <2>2
  <2>4. Said(u) = Said(s) /\ Unsaid(u) = Append(Unsaid(s), e)
    BY <2>1, <2>2 DEF Said, Unsaid, p, q, w, m
  <2>. QED
    BY <1>5, <2>3, <2>4 DEF Matched, SaidGrows, q, w, u
<1>. QED
  BY <1>4, <1>5

-----------------------------------------------------------------------------
(* SentenceChunker: every text, however its tokens end *)

\* The chunker after the feeds of a text: every sentence that has its terminator is out, what
\* follows is kept, and no terminator of three bytes is begun at the end of the last feed.
Heard(E, s) ==
  LET c == After(E, s)
  IN /\ c.skip = 0 /\ c.out = Said(s) /\ c.cur = TextOf(Unsaid(s))
     /\ c.pending => c.cur = <<>>
     /\ Matched(s) /\ Settled(Last(FeedsOf(E, s)))

\* A terminator completes what was said, if anything was.
Completes(c, d, l, e) ==
  /\ d.out = c.out \o Sentence(l, e) /\ d.cur = <<>> /\ d.skip = c.skip

\* on_terminator(): the sentence said so far, with its terminator; nothing, if nothing was
\* said since the last.
LEMMA TerminatorCompletes ==
  ASSUME NEW E, NEW c \in Chunker(ByteSet(E)), c.pending => c.cur = <<>>,
         NEW l \in Seq(E), c.cur = TextOf(l), NEW e \in Terminators
  PROVE  Completes(c, OnTerminator(c, IF e = "n" THEN <<>> ELSE Bytes(e)), l, e)
<1>. DEFINE p == IF e = "n" THEN <<>> ELSE Bytes(e)  D == Seq(ByteSet(E))
<1>1. c.out \in Seq(D)
  BY DEF Chunker
<1>2. Sentence(l, e) = IF c.cur = <<>> THEN <<>> ELSE <<c.cur \o p>>
  BY DEF Sentence
<1>3. Sentence(l, e) \in Seq(D)
  BY SentenceType
<1>. HIDE DEF p, D
<1>4. CASE c.cur = <<>>
  <2>1. c.out \o <<>> = c.out
    BY <1>1
  <2>. QED
    BY <1>2, <1>4, <2>1 DEF OnTerminator, Completes, p
<1>5. CASE c.cur # <<>>
  <2>. DEFINE x == c.cur \o p  o == c.out  d == OnTerminator(c, p)
  <2>1. Sentence(l, e) = <<x>>
    BY <1>2, <1>5
  <2>2. d = [c EXCEPT !.out = Append(@, x), !.cur = <<>>, !.pending = TRUE]
    BY <1>5 DEF OnTerminator
  <2>3. x \in D
    <3>1. <<x>> \in Seq(D)
      BY <1>3, <2>1
    <3>. HIDE DEF x
    <3>2. <<x>>[1] = x /\ 1 \in 1..Len(<<x>>)
      OBVIOUS
    <3>. QED
      BY <3>1, <3>2
  <2>4. o \in Seq(D)
    BY <1>1
  <2>. HIDE DEF x, d
  <2>5. d.out = Append(o, x) /\ d.cur = <<>> /\ d.skip = c.skip
    BY <2>2 DEF Chunker
  <2>. HIDE DEF o
  <2>6. Append(o, x) = o \o <<x>>
    BY <2>3, <2>4, AppendIsConcat
  <2>. QED
    BY <2>1, <2>5, <2>6 DEF Completes, d, p, o
<1>. QED
  BY <1>4, <1>5

\* A new chunker has heard nothing.
LEMMA HeardNothing ==
  ASSUME NEW E, IsText(E)
  PROVE  Heard(E, <<>>)
<1>. DEFINE B == ByteSet(E)  z == <<>>
<1>0. z \in Seq(E) /\ z \in Seq(B) /\ HasMarks(B)
  BY BytesFcnType
<1>1. \A X, S : z \in Seq(X) /\ Pieces(z, S) = <<z>>
  <2>1. ASSUME NEW X, NEW S PROVE z \in Seq(X) /\ Pieces(z, S) = <<z>>
    <3>1. z \in Seq(X)
      OBVIOUS
    <3>2. Pieces(z, S) = Cut(X, S, <<>>, z)
      BY <3>1, PiecesIsCut
    <3>3. Cut(X, S, <<>>, z) = << <<>> >>
      BY <3>1, CutEmpty
    <3>. QED
      BY <3>1, <3>2, <3>3
  <2>. QED
    BY <2>1
<1>2. FeedsOf(E, z) = <<z>>
  BY <1>1, FlatMapEmpty DEF FeedsOf
<1>3. Last(<<z>>) = z /\ Front(<<z>>) = <<>> /\ Len(<<z>>) = 1
  <2>. HIDE DEF z
  <2>1. Len(<<z>>) = 1 /\ <<z>>[1] = z
    OBVIOUS
  <2>2. Front(<<z>>) = <<>>
    BY <2>1 DEF Front
  <2>. QED
    BY <2>1, <2>2 DEF Last
<1>4. After(E, z) = NewChunker
  <2>. DEFINE D == Seq(B)  n == <<>>
  <2>1. n \in Seq(D) /\ Append(n, z) = <<z>> /\ z \in D
    BY <1>0
  <2>2. Chunked(B, n) = NewChunker
    BY <1>0, ChunkedEmpty
  <2>3. NewChunker \in Chunker(B)
    BY <1>0, ChunkFcnType
  <2>4. ChunkerFeed(NewChunker, z) = NewChunker
    BY <1>0, <2>3, FeedNothing
  <2>5. Chunked(B, Append(n, z)) = ChunkerFeed(Chunked(B, n), z)
    <3>. HIDE DEF B, n, z
    <3>. QED
      BY <1>0, <2>1, ChunkedAppend DEF D
  <2>. QED
    BY <1>2, <2>1, <2>2, <2>4, <2>5 DEF After
<1>5. Pieces(z, Terminators) = <<z>> /\ TerminatorsIn(z) = z /\ TextOf(z) = z /\ Len(z) = 0
  BY <1>1, TextEmpty
<1>6. Said(z) = z /\ Unsaid(z) = z /\ Matched(z)
  <2>1. SaidOf(<<>>, z) = <<>>
    BY DEF SaidOf
  <2>2. FlattenSeq(<<>>) = <<>>
    BY FlattenEmpty
  <2>3. Front(<<z>>) = z /\ FlattenSeq(SaidOf(z, z)) = z
    BY <1>3, <2>1, <2>2
  <2>. HIDE DEF z
  <2>4. Said(z) = z
    BY <1>5, <2>3 DEF Said
  <2>5. Unsaid(z) = z
    BY <1>3, <1>5 DEF Unsaid
  <2>6. Matched(z)
    BY <1>3, <1>5 DEF Matched
  <2>. QED
    BY <2>4, <2>5, <2>6
<1>7. /\ NewChunker.skip = 0 /\ NewChunker.out = z /\ NewChunker.cur = z /\ ~NewChunker.pending
  BY DEF NewChunker
<1>8. Settled(z)
  BY SettledPieces
<1>. QED
  BY <1>2, <1>3, <1>4, <1>5, <1>6, <1>7, <1>8 DEF Heard

\* The invariant of the chunker, with one character more in whatever feed.
LEMMA HeardNext ==
  ASSUME NEW E, IsText(E), NEW s \in Seq(E), Heard(E, s), NEW e \in E
  PROVE  Heard(E, Append(s, e))
<1>. DEFINE u == Append(s, e)  c == After(E, s)  d == After(E, u)  B == ByteSet(E)  l == Unsaid(s)
<1>1. /\ c.skip = 0 /\ c.out = Said(s) /\ c.cur = TextOf(l) /\ (c.pending => c.cur = <<>>)
      /\ Matched(s) /\ Settled(Last(FeedsOf(E, s)))
  BY DEF Heard
<1>2. d = CharFed(c, e) /\ Settled(Last(FeedsOf(E, u)))
  BY <1>1, CharStep DEF Advances
<1>3. Matched(u) /\ SaidGrows(s, e)
  BY <1>1, SaidNext
<1>4. l \in Seq(E) /\ Said(s) \in Seq(Seq(B))
  <2>1. "n" \in Terminators
    BY DEF Terminators
  <2>. QED
    BY <1>1, <2>1, SaidAnd
<1>5. c \in Chunker(B)
  <2>1. HasMarks(B) /\ FeedsOf(E, s) \in Seq(Seq(B))
    BY BytesFcnType, FeedsType
  <2>. QED
    BY <2>1, ChunkedType DEF After
<1>6. TextGrows(l, e)
  BY <1>4, TextAppend
<1>7. d.skip = 0 /\ d.out = Said(u) /\ d.cur = TextOf(Unsaid(u)) /\ (d.pending => d.cur = <<>>)
  <2>1. CASE e \in Terminators
    <3>1. d = OnTerminator(c, IF e = "n" THEN <<>> ELSE Bytes(e))
      <4>. HIDE DEF c, d
      <4>1. Bytes("T") = Cjk /\ Bytes("!") = <<"!">>
        BY DEF Bytes
      <4>2. CharFed(c, "T") = OnTerminator(c, Cjk) /\ CharFed(c, "!") = OnTerminator(c, <<"!">>)
            /\ CharFed(c, "n") = OnTerminator(c, <<>>)
        BY DEF CharFed, FeedPlain
      <4>. QED
        BY <1>2, <2>1, <4>1, <4>2 DEF Terminators
    <3>2. Completes(c, d, l, e)
      <4>. HIDE DEF c, d, l, B
      <4>1. c \in Chunker(ByteSet(E))
        BY <1>5 DEF B
      <4>. QED
        BY <1>1, <1>4, <2>1, <3>1, <4>1, TerminatorCompletes
    <3>3. Said(u) = Said(s) \o Sentence(l, e) /\ Unsaid(u) = <<>>
      BY <1>3, <2>1 DEF SaidGrows
    <3>. HIDE DEF c, d, l, u
    <3>. QED
      BY <1>1, <3>2, <3>3, TextEmpty DEF Completes
  <2>2. CASE e \notin Terminators
    <3>1. Said(u) = Said(s) /\ Unsaid(u) = Append(l, e)
      BY <1>3, <2>2 DEF SaidGrows
    <3>2. TextOf(Unsaid(u)) = c.cur \o (IF e \in {"r", "cut"} THEN <<>> ELSE Bytes(e))
      BY <1>1, <1>6, <3>1 DEF TextGrows
    <3>3. c.cur \in Seq(B)
      BY <1>5 DEF Chunker
    <3>. HIDE DEF c, d, l, u, B
    <3>4. CASE e \in {"r", "cut"}
      <4>1. d = c
        BY <1>2, <3>4 DEF CharFed, FeedPlain
      <4>2. c.cur \o <<>> = c.cur
        BY <3>3
      <4>. QED
        BY <1>1, <3>1, <3>2, <3>4, <4>1, <4>2
    <3>5. CASE e = "Tcut"
      <4>1. d = [c EXCEPT !.cur = @ \o Cjk, !.pending = FALSE]
        BY <1>2, <3>5 DEF CharFed
      <4>2. Bytes(e) = Cjk
        BY <3>5 DEF Bytes
      <4>3. TextOf(Unsaid(u)) = c.cur \o Cjk
        BY <3>2, <3>5, <4>2
      <4>4. d.cur = c.cur \o Cjk /\ d.skip = c.skip /\ d.out = c.out /\ ~d.pending
        BY <1>5, <4>1 DEF Chunker
      <4>. QED
        BY <1>1, <3>1, <4>3, <4>4
    <3>6. CASE e \notin {"r", "cut", "Tcut"}
      <4>1. d = [c EXCEPT !.cur = Append(@, e), !.pending = FALSE]
        BY <1>2, <2>2, <3>6 DEF CharFed, FeedPlain, Terminators
      <4>2. Bytes(e) = <<e>>
        BY <2>2, <3>6 DEF Bytes, Terminators
      <4>3. TextOf(Unsaid(u)) = c.cur \o <<e>>
        BY <3>2, <3>6, <4>2
      <4>4. d.cur = Append(c.cur, e) /\ d.skip = c.skip /\ d.out = c.out /\ ~d.pending
        BY <1>5, <4>1 DEF Chunker
      <4>5. Append(c.cur, e) = c.cur \o <<e>>
        <5>. DEFINE x == c.cur
        <5>1. x \in Seq(B) /\ e \in B
          BY <3>3 DEF B, ByteSet
        <5>. HIDE DEF x
        <5>. QED
          BY <5>1, AppendIsConcat DEF x
      <4>. QED
        BY <1>1, <3>1, <4>3, <4>4, <4>5
    <3>. QED
      BY <3>4, <3>5, <3>6
  <2>. QED
    BY <2>1, <2>2
<1>. QED
  BY <1>2, <1>3, <1>7 DEF Heard

Complete(E, s) == ChunkerFlush(FoldLeft(ChunkerFeed, NewChunker, FeedsOf(E, s))) = SentencesOf(s)

\* SentenceChunker, for every text over any alphabet of characters and every way its tokens end:
\* after flush() the sentences are those of the text, a cut terminator being content.
THEOREM SentencesOfEveryText ==
  ASSUME NEW E, IsText(E), NEW s \in Seq(E)
  PROVE  Complete(E, s)
<1>. DEFINE T == {u \in Seq(E) : Heard(E, u)}
<1>1. <<>> \in T
  BY HeardNothing
<1>2. ASSUME NEW u \in T, NEW e \in E PROVE Append(u, e) \in T
  <2>1. Append(u, e) \in Seq(E)
    OBVIOUS
  <2>2. Heard(E, Append(u, e))
    BY HeardNext
  <2>. QED
    BY <2>1, <2>2
<1>3. T = Seq(E)
  <2>1. T \subseteq Seq(E)
    OBVIOUS
  <2>. HIDE DEF T
  <2>. QED
    BY <1>1, <1>2, <2>1, SeqInduct
<1>4. Heard(E, s)
  BY <1>3
<1>. DEFINE c == After(E, s)  l == Unsaid(s)  B == ByteSet(E)
<1>5. FoldLeft(ChunkerFeed, NewChunker, FeedsOf(E, s)) = c /\ c \in Chunker(B)
  <2>1. HasMarks(B) /\ FeedsOf(E, s) \in Seq(Seq(B))
    BY BytesFcnType, FeedsType
  <2>. QED
    BY <2>1, ChunkedIsFold, ChunkedType DEF After
<1>6. /\ c.out = Said(s) /\ c.cur = TextOf(l) /\ (c.pending => c.cur = <<>>) /\ Matched(s)
  BY <1>4 DEF Heard
<1>7. "n" \in Terminators
  BY DEF Terminators
<1>8. SaidThen(s, "n")
  BY <1>6, <1>7, SaidAnd
<1>9. SentencesOf(s) = Said(s) \o Sentence(l, "n")
  BY <1>8 DEF SentencesOf, SaidThen, SaidOf
<1>10. Sentence(l, "n") = IF c.cur = <<>> THEN <<>> ELSE <<c.cur \o <<>>>>
  BY <1>6 DEF Sentence
<1>11. c.cur \o <<>> = c.cur /\ c.out \o <<>> = c.out /\ Append(c.out, c.cur) = c.out \o <<c.cur>>
  <2>. DEFINE x == c.cur  o == c.out  D == Seq(B)
  <2>1. x \in D /\ o \in Seq(D)
    BY <1>5 DEF Chunker
  <2>2. x \o <<>> = x
    BY <2>1
  <2>. HIDE DEF x, o, D
  <2>3. o \o <<>> = o /\ Append(o, x) = o \o <<x>>
    BY <2>1, AppendIsConcat
  <2>. QED
    BY <2>2, <2>3 DEF x, o
<1>12. ChunkerFlush(c) = SentencesOf(s)
  <2>. HIDE DEF c, l
  <2>1. CASE c.cur = <<>>
    BY <1>6, <1>9, <1>10, <1>11, <2>1 DEF ChunkerFlush
  <2>2. CASE c.cur # <<>>
    BY <1>6, <1>9, <1>10, <1>11, <2>2 DEF ChunkerFlush
  <2>. QED
    BY <2>1, <2>2
<1>. QED
  BY <1>5, <1>12 DEF Complete

-----------------------------------------------------------------------------
(* CutsDoNotMatter, for every input *)

\* An input is a sequence of elements of its kind's alphabet.
TypeOK == kind \in DOMAIN Alphabet /\ input \in Seq(Alphabet[kind])

\* The inputs of a kind are sequences over its alphabet.
LEMMA InputType == Spec => []TypeOK
<1>1. Init => TypeOK
  BY DEF Init, TypeOK
<1>2. TypeOK /\ [Next]_vars => TypeOK'
  <2>. SUFFICES ASSUME TypeOK, [Next]_vars PROVE TypeOK'
    OBVIOUS
  <2>1. CASE Next
    <3>1. PICK e \in Alphabet[kind] : input' = Append(input, e)
      BY <2>1 DEF Next
    <3>2. kind' = kind /\ input \in Seq(Alphabet[kind])
      BY <2>1 DEF Next, TypeOK
    <3>3. Append(input, e) \in Seq(Alphabet[kind])
      BY <3>2
    <3>. QED
      BY <3>1, <3>2, <3>3 DEF TypeOK
  <2>2. CASE UNCHANGED vars
    BY <2>2 DEF TypeOK, vars
  <2>. QED
    BY <2>1, <2>2
<1>. QED
  BY <1>1, <1>2, PTL DEF Spec

\* What the run feeds is the feeds of its input.
LEMMA ChunksAreFeeds == TypeOK => Chunks = FeedsOf(Alphabet[kind], input)
<1>. SUFFICES ASSUME TypeOK PROVE Chunks = FeedsOf(Alphabet[kind], input)
  OBVIOUS
<1>. DEFINE E == Alphabet[kind]
<1>1. input \in Seq(E)
  BY DEF TypeOK
<1>. HIDE DEF E
<1>2. \A i \in DOMAIN input : input[i] \in E
  BY <1>1
<1>3. [i \in DOMAIN input |-> BytesOf(input[i])] = Mapped(BytesFcn(E), input)
  BY <1>2 DEF Mapped, BytesFcn
<1>. QED
  BY <1>3 DEF Chunks, FeedsOf, FlatMap, E

\* Both decoders do with every input what they do with the whole of it.
LEMMA CutsDoNotMatterEver == TypeOK => CutsDoNotMatter
<1>. SUFFICES ASSUME TypeOK PROVE CutsDoNotMatter
  OBVIOUS
<1>. DEFINE E == Alphabet[kind]  B == ByteSet(E)
<1>1. input \in Seq(E) /\ kind \in DOMAIN Alphabet /\ Chunks = FeedsOf(E, input)
  BY ChunksAreFeeds DEF TypeOK
<1>2. FramesSurviveCuts
  <2>1. FeedsOf(E, input) \in Seq(Seq(B))
    BY <1>1, FeedsType
  <2>2. Chunks \in Seq(Seq(B))
    BY <1>1, <2>1
  <2>. HIDE DEF B
  <2>3. FramesOfTheStream(Chunks)
    BY <2>2, FramesOfEveryStream
  <2>. QED
    BY <2>3 DEF FramesSurviveCuts
<1>3. SentencesSurviveCuts
  <2>1. SUFFICES ASSUME kind = "sentences"
                 PROVE  ChunkerFlush(FoldLeft(ChunkerFeed, NewChunker, Chunks)) = SentencesOf(input)
    BY DEF SentencesSurviveCuts
  <2>2. IsText(E)
    BY <1>1, <2>1, CharactersAssumption DEF IsText
  <2>. HIDE DEF E
  <2>3. Complete(E, input)
    BY <1>1, <2>2, SentencesOfEveryText
  <2>. QED
    BY <1>1, <2>3 DEF Complete
<1>. QED
  BY <1>2, <1>3 DEF CutsDoNotMatter

\* CutsDoNotMatter, for every alphabet of bytes and characters, every limit on a frame and
\* inputs of any length: where the reads of a connection or the tokens of a model end makes no
\* difference to the frames or the sentences.
THEOREM CutsNeverMatter == Spec => []CutsDoNotMatter
BY InputType, CutsDoNotMatterEver, PTL

-----------------------------------------------------------------------------
(* Base64: one character, in an accumulator that wraps around *)

\* The states of a decoder.
Decoding == [accum : Nat, bits : {0, 2, 4, 6}, out : Seq(0..255), ok : BOOLEAN, end : BOOLEAN]

\* How many values an accumulator has.
IntRange == 2^IntBits

\* The accumulator holds a multiple of 4096 values: it keeps twelve bits at least.
LEMMA RangeType == IntRange \in Nat \ {0} /\ \E m \in Nat : IntRange = 4096 * m
<1>1. CASE IntBits = 16
  <2>1. IntRange = 65536
    BY <1>1 DEF IntRange
  <2>. QED
    BY <2>1
<1>2. CASE IntBits = 32
  <2>1. IntRange = 4294967296
    BY <1>2 DEF IntRange
  <2>2. 4294967296 = 4096 * 1048576
    OBVIOUS
  <2>. QED
    BY <2>1, <2>2
<1>. QED
  BY <1>1, <1>2, WireFormatsAssumption

Wrapped(x, c) == ((x * 64 + c) % IntRange) % 4096 = (x % 64) * 64 + c

\* What overflows is lost above the last twelve bits.
LEMMA WrapAround ==
  ASSUME NEW x \in Nat, NEW c \in 0..63
  PROVE  (x * 64 + c) % IntRange \in Nat /\ Wrapped(x, c)
<1>. DEFINE y == x * 64 + c  M == IntRange  q == y \div M
<1>1. PICK m \in Nat : M = 4096 * m
  BY RangeType
<1>2. M \in Nat \ {0} /\ y \in Nat
  BY RangeType
<1>3. y % 4096 = (x % 64) * 64 + c
  OBVIOUS
<1>. HIDE DEF y, M
<1>4. y = (M * (y \div M)) + (y % M) /\ y % M \in 0..(M - 1) /\ y \div M \in Int
  BY <1>2
<1>. HIDE DEF q
<1>5. q \in Int /\ y % M \in Nat /\ y = (4096 * m) * q + (y % M)
  BY <1>1, <1>2, <1>4 DEF q
<1>. DEFINE p == m * q
<1>6. p \in Int /\ (4096 * m) * q = 4096 * p
  BY <1>5
<1>. DEFINE r == y % M
<1>7. r \in Nat /\ y = 4096 * p + r
  BY <1>5, <1>6
<1>. HIDE DEF p, r
<1>8. r % 4096 = y % 4096
  BY <1>2, <1>6, <1>7
<1>. QED
  BY <1>3, <1>7, <1>8 DEF Wrapped, r, y, M

LowBits(a, low) ==
  /\ a % 64 = low % 64
  /\ (a \div 16) % 256 = (low \div 16) % 256
  /\ (a \div 4) % 256 = (low \div 4) % 256
  /\ a % 256 = low % 256

\* The byte that is read lies in the last twelve bits.
LEMMA LowBitsRead ==
  ASSUME NEW a \in Nat, NEW low \in Nat, a % 4096 = low
  PROVE  LowBits(a, low)
<1>1. PICK q \in Nat : a = 4096 * q + low
  <2>1. a = (4096 * (a \div 4096)) + (a % 4096) /\ a \div 4096 \in Nat
    OBVIOUS
  <2>. QED
    BY <2>1
<1>2. low \in 0..4095
  OBVIOUS
<1>3. a % 64 = low % 64
  BY <1>1, <1>2
<1>4. a % 256 = low % 256
  BY <1>1, <1>2
<1>5. (a \div 16) % 256 = (low \div 16) % 256
  <2>1. a \div 16 = 256 * q + (low \div 16)
    BY <1>1, <1>2
  <2>2. low \div 16 \in Nat
    BY <1>2
  <2>. QED
    BY <1>1, <2>1, <2>2
<1>6. (a \div 4) % 256 = (low \div 4) % 256
  <2>1. a \div 4 = 1024 * q + (low \div 4)
    BY <1>1, <1>2
  <2>2. low \div 4 \in Nat
    BY <1>2
  <2>. QED
    BY <1>1, <2>1, <2>2
<1>. QED
  BY <1>3, <1>4, <1>5, <1>6 DEF LowBits

\* A character that is a value: what it leaves, of the six bits kept before it.
Taken(st, c, n, bits, out) ==
  /\ n \in Decoding /\ ~n.end /\ n.ok = st.ok /\ n.accum % 64 = c
  /\ n.bits = bits /\ n.out = out

CharTaken(st, c, n) ==
  LET low == (st.accum % 64) * 64 + c
  IN /\ st.bits = 0 => Taken(st, c, n, 6, st.out)
     /\ st.bits = 6 => Taken(st, c, n, 4, Append(st.out, (low \div 16) % 256))
     /\ st.bits = 4 => Taken(st, c, n, 2, Append(st.out, (low \div 4) % 256))
     /\ st.bits = 2 => Taken(st, c, n, 0, Append(st.out, low % 256))

\* A character that is taken leaves a decoder a decoder.
LEMMA TakenIs ==
  ASSUME NEW st \in Decoding, NEW c, NEW a \in Nat, a % 64 = c, ~st.end,
         NEW bits \in {0, 2, 4, 6}, NEW out \in Seq(0..255)
  PROVE  Taken(st, c, [st EXCEPT !.accum = a, !.bits = bits, !.out = out], bits, out)
BY DEF Taken, Decoding

\* A character that has a value: the accumulator ends in its six bits, and unless it is the first
\* of a group it completes a byte with the bits of those before it.
LEMMA CharIsTaken ==
  ASSUME NEW st \in Decoding, ~st.end, NEW c \in 0..63
  PROVE  CharTaken(st, c, DecodeChar(st, c))
<1>. DEFINE x == st.accum
            a == (x * 64 + c) % IntRange
            low == (x % 64) * 64 + c
            n == DecodeChar(st, c)
            b == st.bits
            o == st.out
<1>0. x \in Nat /\ b \in {0, 2, 4, 6} /\ o \in Seq(0..255)
  BY DEF Decoding
<1>1. n = IF b + 6 >= 8
            THEN [st EXCEPT !.accum = a, !.bits = b - 2, !.out = Append(o, (a \div 2^(b - 2)) % 256)]
            ELSE [st EXCEPT !.accum = a, !.bits = b + 6]
  <2>1. c # Pad /\ ~(c > Pad)
    BY DEF Pad
  <2>. QED
    BY <2>1, Zenon DEF DecodeChar, IntRange
<1>2. st = [st EXCEPT !.out = o]
  BY DEF Decoding
<1>. HIDE DEF n, b, o, x
<1>3. x % 64 \in 0..63
  BY <1>0
<1>4. low \in Nat /\ low % 64 = c
  BY <1>3
<1>5. a \in Nat /\ Wrapped(x, c)
  BY <1>0, WrapAround
<1>6. a % 4096 = low
  BY <1>5 DEF Wrapped
<1>. HIDE DEF a
<1>7. a % 64 = c
  <2>. HIDE DEF low
  <2>. QED
    BY <1>4, <1>5, <1>6, LowBitsRead DEF LowBits
<1>. DEFINE h == (low \div 16) % 256  g == (low \div 4) % 256  l == low % 256
<1>8. (a \div 16) % 256 = h /\ (a \div 4) % 256 = g /\ a % 256 = l
  <2>. HIDE DEF low
  <2>. QED
    BY <1>4, <1>5, <1>6, LowBitsRead DEF LowBits
<1>9. h \in 0..255 /\ g \in 0..255 /\ l \in 0..255
  <2>. HIDE DEF low
  <2>1. low \div 16 \in Nat /\ low \div 4 \in Nat
    BY <1>4
  <2>. QED
    BY <1>4, <2>1
<1>. HIDE DEF h, g, l
<1>10. CASE b = 0
  <2>1. n = [st EXCEPT !.accum = a, !.bits = 6]
    BY <1>1, <1>10
  <2>2. n = [st EXCEPT !.accum = a, !.bits = 6, !.out = o]
    BY <1>2, <2>1 DEF o
  <2>3. Taken(st, c, n, 6, o)
    BY ZenonT(30), <1>0, <1>5, <1>7, <2>2, TakenIs
  <2>. QED
    BY <1>10, <2>3 DEF CharTaken, n, b, o
<1>11. CASE b = 6
  <2>1. b + 6 >= 8 /\ b - 2 = 4 /\ 2^4 = 16
    BY <1>11
  <2>2. n = [st EXCEPT !.accum = a, !.bits = 4, !.out = Append(o, h)]
    BY <1>1, <1>8, <2>1
  <2>3. Append(o, h) \in Seq(0..255)
    BY <1>0, <1>9
  <2>4. Taken(st, c, n, 4, Append(o, h))
    BY ZenonT(30), <1>5, <1>7, <2>2, <2>3, TakenIs
  <2>. QED
    BY <1>11, <2>4 DEF CharTaken, n, b, o, h, x
<1>12. CASE b = 4
  <2>1. b + 6 >= 8 /\ b - 2 = 2 /\ 2^2 = 4
    BY <1>12
  <2>2. n = [st EXCEPT !.accum = a, !.bits = 2, !.out = Append(o, g)]
    BY <1>1, <1>8, <2>1
  <2>3. Append(o, g) \in Seq(0..255)
    BY <1>0, <1>9
  <2>4. Taken(st, c, n, 2, Append(o, g))
    BY ZenonT(30), <1>5, <1>7, <2>2, <2>3, TakenIs
  <2>. QED
    BY <1>12, <2>4 DEF CharTaken, n, b, o, g, x
<1>13. CASE b = 2
  <2>1. b + 6 >= 8 /\ b - 2 = 0 /\ 2^0 = 1 /\ a \div 1 = a
    BY <1>5, <1>13
  <2>2. n = [st EXCEPT !.accum = a, !.bits = 0, !.out = Append(o, l)]
    BY <1>1, <1>8, <2>1
  <2>3. Append(o, l) \in Seq(0..255)
    BY <1>0, <1>9
  <2>4. Taken(st, c, n, 0, Append(o, l))
    BY ZenonT(30), <1>5, <1>7, <2>2, <2>3, TakenIs
  <2>. QED
    BY <1>13, <2>4 DEF CharTaken, n, b, o, l, x
<1>. QED
  BY <1>0, <1>10, <1>11, <1>12, <1>13

-----------------------------------------------------------------------------
(* Base64: a group of four characters *)

\* The four values that three bytes are written as.
V1(x) == x \div 4
V2(x, y) == (x % 4) * 16 + y \div 16
V3(y, z) == (y % 16) * 4 + z \div 64
V4(z) == z % 64

AreValues(x, y, z) == V1(x) \in 0..63 /\ V2(x, y) \in 0..63 /\ V3(y, z) \in 0..63 /\ V4(z) \in 0..63

\* A base64 character has six bits.
LEMMA ValuesType ==
  ASSUME NEW x \in 0..255, NEW y \in 0..255, NEW z \in 0..255
  PROVE  AreValues(x, y, z)
<1>1. x \div 4 \in 0..63 /\ x % 4 \in 0..3 /\ y \div 16 \in 0..15 /\ y % 16 \in 0..15
      /\ z \div 64 \in 0..3 /\ z % 64 \in 0..63
  OBVIOUS
<1>2. (x % 4) * 16 + y \div 16 \in 0..63
  BY <1>1
<1>3. (y % 16) * 4 + z \div 64 \in 0..63
  BY <1>1
<1>. QED
  BY <1>1, <1>2, <1>3 DEF AreValues, V1, V2, V3, V4

First(x, y) == ((V1(x) * 64 + V2(x, y)) \div 16) % 256
Second(x, y, z) == ((V2(x, y) * 64 + V3(y, z)) \div 4) % 256
Third(y, z) == (V3(y, z) * 64 + V4(z)) % 256

\* Four characters give back the three bytes they were made of.
LEMMA ValuesGive ==
  ASSUME NEW x \in 0..255, NEW y \in 0..255, NEW z \in 0..255
  PROVE  First(x, y) = x /\ Second(x, y, z) = y /\ Third(y, z) = z
<1>1. First(x, y) = x
  <2>. DEFINE p == x \div 4  q == x % 4  r == y \div 16
  <2>1. p \in 0..63 /\ q \in 0..3 /\ r \in 0..15 /\ x = 4 * p + q
    OBVIOUS
  <2>. HIDE DEF p, q, r
  <2>2. p * 64 + (q * 16 + r) = 16 * x + r
    BY <2>1
  <2>3. (16 * x + r) \div 16 = x
    BY <2>1
  <2>. QED
    BY <2>2, <2>3 DEF First, V1, V2, p, q, r
<1>2. Second(x, y, z) = y
  <2>. DEFINE q == x % 4  r == y \div 16  s == y % 16  t == z \div 64
  <2>1. q \in 0..3 /\ r \in 0..15 /\ s \in 0..15 /\ t \in 0..3 /\ y = 16 * r + s
    OBVIOUS
  <2>. HIDE DEF q, r, s, t
  <2>2. (q * 16 + r) * 64 + (s * 4 + t) = 4 * (256 * q + y) + t
    BY <2>1
  <2>3. (4 * (256 * q + y) + t) \div 4 = 256 * q + y
    BY <2>1
  <2>4. (256 * q + y) % 256 = y
    BY <2>1
  <2>. QED
    BY <2>2, <2>3, <2>4 DEF Second, V2, V3, q, r, s, t
<1>3. Third(y, z) = z
  <2>. DEFINE s == y % 16  t == z \div 64  u == z % 64
  <2>1. s \in 0..15 /\ t \in 0..3 /\ u \in 0..63 /\ z = 64 * t + u
    OBVIOUS
  <2>. HIDE DEF s, t, u
  <2>2. (s * 4 + t) * 64 + u = 256 * s + z
    BY <2>1
  <2>3. (256 * s + z) % 256 = z
    BY <2>1
  <2>. QED
    BY <2>2, <2>3 DEF Third, V3, V4, s, t, u
<1>. QED
  BY <1>1, <1>2, <1>3

\* A decoder between two groups of four characters.
Fresh(st) == st \in Decoding /\ ~st.end /\ st.ok = TRUE /\ st.bits = 0

\* Between two characters of a group: the last value, and how many of its bits are kept.
Midway(st, c, bits, out) ==
  st \in Decoding /\ ~st.end /\ st.ok = TRUE /\ st.accum % 64 = c /\ st.bits = bits /\ st.out = out

\* The first character of a group.
LEMMA TakeFirst ==
  ASSUME NEW st, Fresh(st), NEW c \in 0..63
  PROVE  Midway(DecodeChar(st, c), c, 6, st.out)
<1>1. CharTaken(st, c, DecodeChar(st, c))
  BY CharIsTaken DEF Fresh
<1>. QED
  BY <1>1, Zenon DEF CharTaken, Taken, Fresh, Midway

\* The second character gives the first byte.
LEMMA TakeSecond ==
  ASSUME NEW st, NEW u, NEW out, Midway(st, u, 6, out), NEW c \in 0..63
  PROVE  Midway(DecodeChar(st, c), c, 4, Append(out, ((u * 64 + c) \div 16) % 256))
<1>1. CharTaken(st, c, DecodeChar(st, c))
  BY CharIsTaken DEF Midway
<1>. QED
  BY <1>1, Zenon DEF CharTaken, Taken, Midway

\* The third character gives the second byte.
LEMMA TakeThird ==
  ASSUME NEW st, NEW u, NEW out, Midway(st, u, 4, out), NEW c \in 0..63
  PROVE  Midway(DecodeChar(st, c), c, 2, Append(out, ((u * 64 + c) \div 4) % 256))
<1>1. CharTaken(st, c, DecodeChar(st, c))
  BY CharIsTaken DEF Midway
<1>. QED
  BY <1>1, Zenon DEF CharTaken, Taken, Midway

\* The fourth character gives the third byte.
LEMMA TakeFourth ==
  ASSUME NEW st, NEW u, NEW out, Midway(st, u, 2, out), NEW c \in 0..63
  PROVE  Midway(DecodeChar(st, c), c, 0, Append(out, (u * 64 + c) % 256))
<1>1. CharTaken(st, c, DecodeChar(st, c))
  BY CharIsTaken DEF Midway
<1>. QED
  BY <1>1, Zenon DEF CharTaken, Taken, Midway

\* Padding ends it.
Padded(st, n) == n \in Decoding /\ n.end = TRUE /\ n.ok = st.ok /\ n.out = st.out

\* Padding ends it.
LEMMA PadEnds ==
  ASSUME NEW st \in Decoding
  PROVE  Padded(st, DecodeChar(st, Pad))
<1>1. DecodeChar(st, Pad) = [st EXCEPT !.end = TRUE]
  BY DEF DecodeChar
<1>. QED
  BY ZenonT(30), <1>1 DEF Padded, Decoding

\* A group of four characters.
Four(st, a, b, c, d) == DecodeChar(DecodeChar(DecodeChar(DecodeChar(st, a), b), c), d)

\* What a group leaves: a fresh decoder, or one that is done, with its bytes.
Gave(st, n, w) == n \in Decoding /\ n.ok = TRUE /\ n.out = st.out \o w

\* A group without padding gives three bytes, and another group may follow.
LEMMA WholeGroup ==
  ASSUME NEW st, Fresh(st), NEW x \in 0..255, NEW y \in 0..255, NEW z \in 0..255
  PROVE  /\ Fresh(Four(st, V1(x), V2(x, y), V3(y, z), V4(z)))
         /\ Gave(st, Four(st, V1(x), V2(x, y), V3(y, z), V4(z)), <<x, y, z>>)
<1>. DEFINE n1 == DecodeChar(st, V1(x))
            n2 == DecodeChar(n1, V2(x, y))
            n3 == DecodeChar(n2, V3(y, z))
            n4 == DecodeChar(n3, V4(z))
            o == st.out
<1>a. AreValues(x, y, z)
  BY ZenonT(30), ValuesType
<1>1. V1(x) \in 0..63 /\ V2(x, y) \in 0..63 /\ V3(y, z) \in 0..63 /\ V4(z) \in 0..63
  BY <1>a DEF AreValues
<1>2. First(x, y) = x /\ Second(x, y, z) = y /\ Third(y, z) = z
  BY ZenonT(30), ValuesGive
<1>3. o \in Seq(0..255)
  BY DEF Fresh, Decoding
<1>4. Midway(n1, V1(x), 6, o)
  BY <1>1, TakeFirst
<1>. HIDE DEF n1, o
<1>5. Midway(n2, V2(x, y), 4, Append(o, x))
  BY <1>1, <1>2, <1>4, TakeSecond DEF First
<1>. HIDE DEF n2
<1>6. Midway(n3, V3(y, z), 2, Append(Append(o, x), y))
  BY <1>1, <1>2, <1>5, TakeThird DEF Second
<1>. HIDE DEF n3
<1>7. Midway(n4, V4(z), 0, Append(Append(Append(o, x), y), z))
  BY <1>1, <1>2, <1>6, TakeFourth DEF Third
<1>. HIDE DEF n4
<1>8. Append(Append(Append(o, x), y), z) = o \o <<x, y, z>>
  BY <1>3
<1>9. Four(st, V1(x), V2(x, y), V3(y, z), V4(z)) = n4
  BY DEF Four, n1, n2, n3, n4
<1>10. Fresh(n4)
  BY <1>7 DEF Midway, Fresh
<1>11. Gave(st, n4, <<x, y, z>>)
  BY <1>7, <1>8 DEF Midway, Gave, o
<1>. QED
  BY <1>9, <1>10, <1>11

\* A group with one padding character gives two bytes.
LEMMA GroupOfTwo ==
  ASSUME NEW st, Fresh(st), NEW x \in 0..255, NEW y \in 0..255
  PROVE  Gave(st, Four(st, V1(x), V2(x, y), V3(y, 0), Pad), <<x, y>>)
<1>. DEFINE n1 == DecodeChar(st, V1(x))
            n2 == DecodeChar(n1, V2(x, y))
            n3 == DecodeChar(n2, V3(y, 0))
            n4 == DecodeChar(n3, Pad)
            o == st.out
<1>0. 0 \in 0..255
  OBVIOUS
<1>a. AreValues(x, y, 0)
  BY ZenonT(30), <1>0, ValuesType
<1>1. V1(x) \in 0..63 /\ V2(x, y) \in 0..63 /\ V3(y, 0) \in 0..63
  BY <1>a DEF AreValues
<1>2. First(x, y) = x /\ Second(x, y, 0) = y
  BY ZenonT(30), <1>0, ValuesGive
<1>3. o \in Seq(0..255)
  BY DEF Fresh, Decoding
<1>4. Midway(n1, V1(x), 6, o)
  BY <1>1, TakeFirst
<1>. HIDE DEF n1, o
<1>5. Midway(n2, V2(x, y), 4, Append(o, x))
  BY <1>1, <1>2, <1>4, TakeSecond DEF First
<1>. HIDE DEF n2
<1>6. Midway(n3, V3(y, 0), 2, Append(Append(o, x), y))
  BY <1>1, <1>2, <1>5, TakeThird DEF Second
<1>. HIDE DEF n3
<1>7. Padded(n3, n4)
  BY <1>6, PadEnds DEF Midway
<1>. HIDE DEF n4
<1>8. Append(Append(o, x), y) = o \o <<x, y>>
  BY <1>3
<1>9. Four(st, V1(x), V2(x, y), V3(y, 0), Pad) = n4
  BY DEF Four, n1, n2, n3, n4
<1>10. Gave(st, n4, <<x, y>>)
  BY <1>6, <1>7, <1>8 DEF Midway, Padded, Gave, o
<1>. QED
  BY <1>9, <1>10

\* A group with two padding characters gives one byte.
LEMMA GroupOfOne ==
  ASSUME NEW st, Fresh(st), NEW x \in 0..255
  PROVE  Gave(st, Four(st, V1(x), V2(x, 0), Pad, Pad), <<x>>)
<1>. DEFINE n1 == DecodeChar(st, V1(x))
            n2 == DecodeChar(n1, V2(x, 0))
            n3 == DecodeChar(n2, Pad)
            n4 == DecodeChar(n3, Pad)
            o == st.out
<1>0. 0 \in 0..255
  OBVIOUS
<1>a. AreValues(x, 0, 0)
  BY ZenonT(30), <1>0, ValuesType
<1>1. V1(x) \in 0..63 /\ V2(x, 0) \in 0..63
  BY <1>a DEF AreValues
<1>2. First(x, 0) = x
  BY ZenonT(30), <1>0, ValuesGive
<1>3. o \in Seq(0..255)
  BY DEF Fresh, Decoding
<1>4. Midway(n1, V1(x), 6, o)
  BY <1>1, TakeFirst
<1>. HIDE DEF n1, o
<1>5. Midway(n2, V2(x, 0), 4, Append(o, x))
  BY <1>1, <1>2, <1>4, TakeSecond DEF First
<1>. HIDE DEF n2
<1>6. Padded(n2, n3)
  BY <1>5, PadEnds DEF Midway
<1>. HIDE DEF n3
<1>7. Padded(n3, n4)
  BY <1>6, PadEnds DEF Padded
<1>. HIDE DEF n4
<1>8. Append(o, x) = o \o <<x>>
  BY <1>3
<1>9. Four(st, V1(x), V2(x, 0), Pad, Pad) = n4
  BY DEF Four, n1, n2, n3, n4
<1>10. Gave(st, n4, <<x>>)
  BY <1>5, <1>6, <1>7, <1>8 DEF Midway, Padded, Gave, o
<1>. QED
  BY <1>9, <1>10

-----------------------------------------------------------------------------
(* Base64: a sequence of characters, and the groups that bytes are written as *)

CharFcn == [x \in Decoding \X (0..64) |-> DecodeChar(x[1], x[2])]

Unpacked(chars) == Result(Decoding, CharFcn, NothingDecoded, chars)

\* Taking a character is a step function on decoders.
LEMMA CharFcnType == CharFcn \in [Decoding \X (0..64) -> Decoding] /\ NothingDecoded \in Decoding
<1>1. ASSUME NEW st \in Decoding, NEW c \in 0..64 PROVE DecodeChar(st, c) \in Decoding
  <2>1. CASE st.end
    <3>1. DecodeChar(st, c) = [st EXCEPT !.end = TRUE]
      BY <2>1 DEF DecodeChar
    <3>. QED
      BY <3>1 DEF Decoding
  <2>2. CASE c = Pad
    BY <2>2, PadEnds DEF Padded
  <2>3. CASE ~st.end /\ c # Pad
    <3>1. c \in 0..63
      BY <2>3 DEF Pad
    <3>2. CharTaken(st, c, DecodeChar(st, c))
      BY <2>3, <3>1, CharIsTaken
    <3>3. st.bits \in {0, 2, 4, 6}
      BY DEF Decoding
    <3>. QED
      BY <3>2, <3>3, Zenon DEF CharTaken, Taken
  <2>. QED
    BY <2>1, <2>2, <2>3
<1>2. NothingDecoded \in Decoding
  BY DEF NothingDecoded, Decoding
<1>. QED
  BY <1>1, <1>2 DEF CharFcn

\* Base64Decode runs through its characters.
LEMMA UnpackedIsFold ==
  ASSUME NEW chars \in Seq(0..64)
  PROVE  FoldLeft(DecodeChar, NothingDecoded, chars) = Unpacked(chars)
<1>. DEFINE D == Decoding
            X == 0..64
            b == NothingDecoded
            F == CharFcn
            s == chars
            Eqn(g) == g = [T \in SUBSET DOMAIN s |->
                             IF T = {} THEN b ELSE DecodeChar(g[T \ {Max(T)}], s[Max(T)])]
            G == CHOOSE g : Eqn(g)
<1>0. DOMAIN s = 1..Len(s) /\ s \in Seq(X)
  OBVIOUS
<1>a. F \in [D \X X -> D]
  BY CharFcnType
<1>b. b \in D
  BY CharFcnType
<1>c. \A x \in D, e \in X : F[<<x, e>>] = DecodeChar(x, e)
  BY DEF CharFcn
<1>1. FoldLeft(DecodeChar, NothingDecoded, chars) = G[DOMAIN s]
  BY DEF FoldLeft, MapThenFoldSet
<1>. HIDE DEF D, b, F, X, s
<1>2. PICK h : Unfolds(D, X, F, b, s, h)
  BY <1>0, <1>a, <1>b, FoldStart
<1>. DEFINE q == [T \in SUBSET DOMAIN s |-> h[T]]
<1>3. Eqn(q)
  BY <1>c, <1>2 DEF Unfolds
<1>4. Eqn(G)
  BY <1>3
<1>. HIDE DEF G
<1>5. G[{}] = b
  BY <1>4
<1>6. ASSUME NEW k \in 1..Len(s) PROVE FoldStep(F, D, s, G, k)
  <2>1. /\ (1..k) \in SUBSET DOMAIN s /\ (1..k) # {}
        /\ (1..k) \ {k} = 1..(k - 1) /\ Max(1..k) = k /\ s[k] \in X
    BY <1>0, FirstPositions
  <2>2. G[1..k] = DecodeChar(G[1..(k - 1)], s[k])
    BY <2>1, <1>4
  <2>. QED
    BY <2>1, <2>2, <1>c DEF FoldStep
<1>7. Folds(F, D, b, s, G)
  BY <1>5, <1>6 DEF Folds
<1>8. EndsAs(D, F, b, s, G)
  BY <1>0, <1>a, <1>b, <1>7, FoldIsResult
<1>. QED
  BY <1>0, <1>1, <1>8 DEF EndsAs, Unpacked, D, F, b, s

\* A character more is taken by the decoder after those before it.
LEMMA UnpackedAppend ==
  ASSUME NEW s \in Seq(0..64), NEW c \in 0..64
  PROVE  Unpacked(Append(s, c)) = DecodeChar(Unpacked(s), c)
<1>1. Continues(Decoding, CharFcn, NothingDecoded, s, c)
  BY CharFcnType, ResultAppend
<1>2. Unpacked(s) \in Decoding
  BY CharFcnType, ResultType DEF Unpacked
<1>. QED
  BY <1>1, <1>2 DEF Continues, Unpacked, CharFcn

GroupUnpacks(s, a, b, c, d) == Unpacked(s \o <<a, b, c, d>>) = Four(Unpacked(s), a, b, c, d)

\* Four characters more are taken one after the other.
LEMMA UnpackedGroup ==
  ASSUME NEW s \in Seq(0..64), NEW a \in 0..64, NEW b \in 0..64, NEW c \in 0..64, NEW d \in 0..64
  PROVE  GroupUnpacks(s, a, b, c, d)
<1>1. s \o <<a, b, c, d>> = Append(Append(Append(Append(s, a), b), c), d)
  BY SMTT(30)
<1>2. Append(s, a) \in Seq(0..64)
  OBVIOUS
<1>3. Append(Append(s, a), b) \in Seq(0..64)
  BY <1>2
<1>4. Append(Append(Append(s, a), b), c) \in Seq(0..64)
  BY <1>3
<1>. QED
  BY <1>1, <1>2, <1>3, <1>4, UnpackedAppend DEF Four, GroupUnpacks

\* The k-th group of four characters of the base64 of some bytes.
ByteAt(bytes, i) == IF i <= Len(bytes) THEN bytes[i] ELSE 0

GroupAt(bytes, k) ==
  <<V1(ByteAt(bytes, 3 * k - 2)),
    V2(ByteAt(bytes, 3 * k - 2), ByteAt(bytes, (3 * k - 2) + 1)),
    IF (3 * k - 2) + 1 <= Len(bytes)
      THEN V3(ByteAt(bytes, (3 * k - 2) + 1), ByteAt(bytes, (3 * k - 2) + 2)) ELSE Pad,
    IF (3 * k - 2) + 2 <= Len(bytes) THEN V4(ByteAt(bytes, (3 * k - 2) + 2)) ELSE Pad>>

Groups(bytes, k) == [j \in 1..k |-> GroupAt(bytes, j)]
Encoded(bytes, k) == FlattenSeq(Groups(bytes, k))

\* Base64Encode lays groups of four end to end.
LEMMA EncodeIs ==
  ASSUME NEW bytes
  PROVE  Base64Encode(bytes) = Encoded(bytes, (Len(bytes) + 2) \div 3)
BY DEF Base64Encode, Encoded, Groups, GroupAt, ByteAt, V1, V2, V3, V4

IsGroup(g, a, b, c, d) == g = <<a, b, c, d>>

\* The group of three bytes, and the last group of two and of one.
LEMMA GroupIs ==
  ASSUME NEW bytes \in Seq(0..255), NEW k \in Nat \ {0}
  PROVE  /\ 3 * k <= Len(bytes) =>
              IsGroup(GroupAt(bytes, k), V1(bytes[3 * k - 2]), V2(bytes[3 * k - 2], bytes[3 * k - 1]),
                      V3(bytes[3 * k - 1], bytes[3 * k]), V4(bytes[3 * k]))
         /\ 3 * k = Len(bytes) + 1 =>
              IsGroup(GroupAt(bytes, k), V1(bytes[3 * k - 2]), V2(bytes[3 * k - 2], bytes[3 * k - 1]),
                      V3(bytes[3 * k - 1], 0), Pad)
         /\ 3 * k = Len(bytes) + 2 =>
              IsGroup(GroupAt(bytes, k), V1(bytes[3 * k - 2]), V2(bytes[3 * k - 2], 0), Pad, Pad)
<1>1. (3 * k - 2) + 1 = 3 * k - 1 /\ (3 * k - 2) + 2 = 3 * k
  OBVIOUS
<1>. DEFINE p == 3 * k - 2  q == 3 * k - 1  r == 3 * k
<1>2. p \in Nat /\ q \in Nat /\ r \in Nat /\ p < q /\ q < r /\ r = q + 1 /\ q = p + 1
      /\ Len(bytes) \in Nat
  OBVIOUS
<1>3. GroupAt(bytes, k) =
        <<V1(ByteAt(bytes, p)), V2(ByteAt(bytes, p), ByteAt(bytes, q)),
          IF q <= Len(bytes) THEN V3(ByteAt(bytes, q), ByteAt(bytes, r)) ELSE Pad,
          IF r <= Len(bytes) THEN V4(ByteAt(bytes, r)) ELSE Pad>>
  BY <1>1 DEF GroupAt
<1>. HIDE DEF p, q, r
<1>4. ASSUME r <= Len(bytes)
      PROVE  IsGroup(GroupAt(bytes, k), V1(bytes[p]), V2(bytes[p], bytes[q]),
                      V3(bytes[q], bytes[r]), V4(bytes[r]))
  BY <1>2, <1>3, <1>4 DEF IsGroup, ByteAt
<1>5. ASSUME r = Len(bytes) + 1
      PROVE  IsGroup(GroupAt(bytes, k), V1(bytes[p]), V2(bytes[p], bytes[q]), V3(bytes[q], 0), Pad)
  BY <1>2, <1>3, <1>5 DEF IsGroup, ByteAt
<1>6. ASSUME r = Len(bytes) + 2
      PROVE  IsGroup(GroupAt(bytes, k), V1(bytes[p]), V2(bytes[p], 0), Pad, Pad)
  BY <1>2, <1>3, <1>6 DEF IsGroup, ByteAt
<1>. QED
  BY <1>4, <1>5, <1>6 DEF p, q, r

-----------------------------------------------------------------------------
(* Base64: every sequence of bytes *)

\* Before any character nothing is decoded.
LEMMA UnpackedEmpty == Unpacked(<<>>) = NothingDecoded
<1>. DEFINE D == Decoding  F == CharFcn  b == NothingDecoded  X == 0..64
<1>a. F \in [D \X X -> D]
  BY CharFcnType
<1>b. b \in D
  BY CharFcnType
<1>. HIDE DEF D, F, b, X
<1>1. Result(D, F, b, <<>>) = b
  BY <1>a, <1>b, ResultEmpty
<1>. QED
  BY <1>1 DEF Unpacked, D, F, b

\* Beyond the end there are zeros.
LEMMA ByteType ==
  ASSUME NEW bytes \in Seq(0..255), NEW i \in Nat \ {0}
  PROVE  ByteAt(bytes, i) \in 0..255
<1>1. CASE i <= Len(bytes)
  <2>1. i \in 1..Len(bytes)
    BY <1>1
  <2>2. bytes[i] \in 0..255
    BY <2>1, ElementOfSeq
  <2>. QED
    BY <1>1, <2>2 DEF ByteAt
<1>2. CASE ~(i <= Len(bytes))
  BY <1>2 DEF ByteAt
<1>. QED
  BY <1>1, <1>2

\* A group is four characters.
LEMMA GroupChars ==
  ASSUME NEW bytes \in Seq(0..255), NEW k \in Nat \ {0}, 3 * k <= Len(bytes) + 2
  PROVE  GroupAt(bytes, k) \in Seq(0..64) /\ Len(GroupAt(bytes, k)) = 4
<1>. DEFINE x == ByteAt(bytes, 3 * k - 2)
            y == ByteAt(bytes, (3 * k - 2) + 1)
            z == ByteAt(bytes, (3 * k - 2) + 2)
<1>0. 3 * k - 2 \in Nat \ {0} /\ (3 * k - 2) + 1 \in Nat \ {0} /\ (3 * k - 2) + 2 \in Nat \ {0}
  OBVIOUS
<1>1. x \in 0..255 /\ y \in 0..255 /\ z \in 0..255
  BY <1>0, ByteType
<1>2. AreValues(x, y, z)
  BY ZenonT(30), <1>1, ValuesType
<1>3. Pad \in 0..64
  BY DEF Pad
<1>. HIDE DEF x, y, z
<1>4. \E c, d \in 0..64 : GroupAt(bytes, k) = <<V1(x), V2(x, y), c, d>>
  <2>1. V3(y, z) \in 0..64 /\ V4(z) \in 0..64
    BY <1>2 DEF AreValues
  <2>. QED
    BY ZenonT(30), <1>3, <2>1 DEF GroupAt, x, y, z
<1>5. PICK c \in 0..64, d \in 0..64 : GroupAt(bytes, k) = <<V1(x), V2(x, y), c, d>>
  BY <1>4
<1>6. V1(x) \in 0..64 /\ V2(x, y) \in 0..64
  BY <1>2 DEF AreValues
<1>. QED
  BY <1>5, <1>6

\* A group more is laid at the end.
LEMMA OneGroupMore ==
  ASSUME NEW bytes \in Seq(0..255), NEW k \in Nat, 3 * (k + 1) <= Len(bytes) + 2,
         Groups(bytes, k) \in Seq(Seq(0..64))
  PROVE  /\ Groups(bytes, k + 1) \in Seq(Seq(0..64))
         /\ Encoded(bytes, k + 1) = Encoded(bytes, k) \o GroupAt(bytes, k + 1)
<1>. DEFINE g == GroupAt(bytes, k + 1)
<1>1. g \in Seq(0..64)
  BY GroupChars
<1>. HIDE DEF g
<1>2. Append(Groups(bytes, k), g) \in Seq(Seq(0..64))
  BY <1>1
<1>3. Groups(bytes, k + 1) = Append(Groups(bytes, k), g)
  <2>1. Len(Groups(bytes, k)) = k
    BY DEF Groups
  <2>2. DOMAIN Groups(bytes, k + 1) = 1..(k + 1)
    BY DEF Groups
  <2>3. DOMAIN Append(Groups(bytes, k), g) = 1..(k + 1)
    BY <1>2, <2>1, AppendProperties
  <2>4. ASSUME NEW j \in 1..(k + 1) PROVE Groups(bytes, k + 1)[j] = Append(Groups(bytes, k), g)[j]
    <3>1. CASE j = k + 1
      BY <1>1, <2>1, <3>1, AppendProperties DEF Groups, g
    <3>2. CASE j # k + 1
      <4>1. j \in 1..k
        BY <3>2
      <4>. QED
        BY <1>1, <2>1, <4>1, AppendProperties DEF Groups
    <3>. QED
      BY <3>1, <3>2
  <2>5. Groups(bytes, k + 1) = [j \in 1..(k + 1) |-> Groups(bytes, k + 1)[j]]
    BY DEF Groups
  <2>6. Append(Groups(bytes, k), g) = [j \in 1..(k + 1) |-> Append(Groups(bytes, k), g)[j]]
    <3>. DEFINE w == Append(Groups(bytes, k), g)
    <3>1. w \in Seq(Seq(0..64)) /\ DOMAIN w = 1..(k + 1)
      BY <1>2, <2>3
    <3>. HIDE DEF w
    <3>2. w = [j \in 1..(k + 1) |-> w[j]]
      BY <3>1
    <3>. QED
      BY <3>2 DEF w
  <2>. QED
    BY <2>4, <2>5, <2>6
<1>. QED
  BY <1>1, <1>2, <1>3, FlattenAppend DEF Encoded, g

\* After k complete groups: as many characters as the groups have, and the bytes they stand for.
Sofar(bytes, k) ==
  /\ Groups(bytes, k) \in Seq(Seq(0..64))
  /\ Encoded(bytes, k) \in Seq(0..64)
  /\ Len(Encoded(bytes, k)) = 4 * k
  /\ Fresh(Unpacked(Encoded(bytes, k)))
  /\ Unpacked(Encoded(bytes, k)).out = SubSeq(bytes, 1, 3 * k)

\* The first elements of a sequence, and a few more.
LEMMA PrefixGrows ==
  ASSUME NEW E, NEW s \in Seq(E), NEW m \in Nat, m <= Len(s)
  PROVE  /\ m + 1 = Len(s) => SubSeq(s, 1, m) \o <<s[m + 1]>> = s
         /\ m + 2 = Len(s) => SubSeq(s, 1, m) \o <<s[m + 1], s[m + 2]>> = s
         /\ m + 3 <= Len(s) => SubSeq(s, 1, m) \o <<s[m + 1], s[m + 2], s[m + 3]>> = SubSeq(s, 1, m + 3)
         /\ m = Len(s) => SubSeq(s, 1, m) = s
OBVIOUS

\* After k whole groups the first 3k bytes are decoded, and the decoder is between groups.
LEMMA GroupsSofar ==
  ASSUME NEW bytes \in Seq(0..255), NEW n \in Nat, 3 * n <= Len(bytes)
  PROVE  \A k \in 0..n : Sofar(bytes, k)
<1>. DEFINE T == {k \in Nat : Sofar(bytes, k)}
<1>1. Sofar(bytes, 0)
  <2>1. Groups(bytes, 0) = <<>>
    BY DEF Groups
  <2>2. Encoded(bytes, 0) = <<>>
    BY <2>1, FlattenEmpty DEF Encoded
  <2>3. Unpacked(<<>>) = NothingDecoded
    BY UnpackedEmpty
  <2>4. SubSeq(bytes, 1, 0) = <<>>
    OBVIOUS
  <2>5. Fresh(NothingDecoded) /\ NothingDecoded.out = <<>>
    BY CharFcnType DEF Fresh, NothingDecoded
  <2>6. 3 * 0 = 0 /\ 4 * 0 = 0 /\ Len(<<>>) = 0 /\ <<>> \in Seq(0..64) /\ <<>> \in Seq(Seq(0..64))
    OBVIOUS
  <2>. QED
    BY <2>1, <2>2, <2>3, <2>4, <2>5, <2>6 DEF Sofar
<1>2. ASSUME NEW k \in Nat, Sofar(bytes, k), k < n PROVE Sofar(bytes, k + 1)
  <2>. DEFINE e == Encoded(bytes, k)  st == Unpacked(e)
              x == bytes[3 * k + 1]  y == bytes[3 * k + 2]  z == bytes[3 * k + 3]
              g == GroupAt(bytes, k + 1)
  <2>1. 3 * (k + 1) <= Len(bytes) /\ 3 * (k + 1) - 2 = 3 * k + 1 /\ 3 * (k + 1) - 1 = 3 * k + 2
        /\ 3 * (k + 1) = 3 * k + 3 /\ k + 1 \in Nat \ {0}
    BY <1>2
  <2>a. 3 * k + 1 \in 1..Len(bytes) /\ 3 * k + 2 \in 1..Len(bytes) /\ 3 * k + 3 \in 1..Len(bytes)
    BY <2>1
  <2>2. x \in 0..255 /\ y \in 0..255 /\ z \in 0..255
    BY <2>a, ElementOfSeq
  <2>3. e \in Seq(0..64) /\ Len(e) = 4 * k /\ Fresh(st) /\ st.out = SubSeq(bytes, 1, 3 * k)
    BY <1>2 DEF Sofar
  <2>4. /\ Groups(bytes, k + 1) \in Seq(Seq(0..64))
        /\ Encoded(bytes, k + 1) = e \o g
    BY <1>2, <2>1, OneGroupMore DEF Sofar
  <2>5. IsGroup(g, V1(x), V2(x, y), V3(y, z), V4(z))
    BY <2>1, GroupIs
  <2>6. g \in Seq(0..64) /\ Len(g) = 4
    BY <2>1, GroupChars
  <2>7. AreValues(x, y, z)
    BY ZenonT(30), <2>2, ValuesType
  <2>8. /\ Fresh(Four(st, V1(x), V2(x, y), V3(y, z), V4(z)))
        /\ Gave(st, Four(st, V1(x), V2(x, y), V3(y, z), V4(z)), <<x, y, z>>)
    BY ZenonT(30), <2>2, <2>3, WholeGroup
  <2>9. SubSeq(bytes, 1, 3 * k) \o <<x, y, z>> = SubSeq(bytes, 1, 3 * (k + 1))
    BY <2>1, PrefixGrows
  <2>. HIDE DEF e, st, x, y, z, g
  <2>10. e \o g \in Seq(0..64) /\ Len(e \o g) = 4 * (k + 1)
    <3>1. e \o g \in Seq(0..64) /\ Len(e \o g) = Len(e) + Len(g)
      BY <2>3, <2>6, ConcatProperties
    <3>. QED
      BY <2>3, <2>6, <3>1
  <2>b. V1(x) \in 0..64 /\ V2(x, y) \in 0..64 /\ V3(y, z) \in 0..64 /\ V4(z) \in 0..64
    BY <2>7 DEF AreValues
  <2>11. Unpacked(e \o g) = Four(st, V1(x), V2(x, y), V3(y, z), V4(z))
    <3>1. GroupUnpacks(e, V1(x), V2(x, y), V3(y, z), V4(z))
      BY ZenonT(30), <2>3, <2>b, UnpackedGroup
    <3>. QED
      BY <2>5, <3>1 DEF IsGroup, GroupUnpacks, st
  <2>12. Unpacked(e \o g).out = SubSeq(bytes, 1, 3 * (k + 1))
    BY <2>3, <2>8, <2>9, <2>11 DEF Gave
  <2>. QED
    BY ZenonT(30), <2>4, <2>8, <2>10, <2>11, <2>12 DEF Sofar
<1>3. T \subseteq Nat /\ 0 \in T /\ \A k \in T : k < n => k + 1 \in T
  BY <1>1, <1>2
<1>. HIDE DEF T
<1>4. \A k \in 0..n : k \in T
  BY <1>3, BoundInduct
<1>. QED
  BY <1>4 DEF T

\* What is decoded of some characters.
DecodesTo(chars, bytes) ==
  /\ chars \in Seq(0..64) /\ Len(chars) % 4 = 0
  /\ Unpacked(chars).ok = TRUE /\ Unpacked(chars).out = bytes

\* The last group, of one or two bytes.
LEMMA LastGroup ==
  ASSUME NEW bytes \in Seq(0..255), NEW n \in Nat, Sofar(bytes, n),
         3 * n < Len(bytes), Len(bytes) < 3 * n + 3
  PROVE  DecodesTo(Encoded(bytes, n + 1), bytes)
<1>. DEFINE e == Encoded(bytes, n)  st == Unpacked(e)  x == bytes[3 * n + 1]  y == bytes[3 * n + 2]
            g == GroupAt(bytes, n + 1)
<1>1. Len(bytes) \in Nat /\ 3 * (n + 1) <= Len(bytes) + 2
      /\ 3 * (n + 1) - 2 = 3 * n + 1 /\ 3 * (n + 1) - 1 = 3 * n + 2 /\ n + 1 \in Nat \ {0}
  OBVIOUS
<1>2. e \in Seq(0..64) /\ Len(e) = 4 * n /\ Fresh(st) /\ st.out = SubSeq(bytes, 1, 3 * n)
  BY DEF Sofar
<1>3. Encoded(bytes, n + 1) = e \o g
  BY <1>1, OneGroupMore DEF Sofar
<1>4. g \in Seq(0..64) /\ Len(g) = 4
  BY <1>1, GroupChars
<1>a. 3 * n + 1 \in 1..Len(bytes)
  OBVIOUS
<1>5. x \in 0..255 /\ 0 \in 0..255 /\ Pad \in 0..64
  BY <1>a, ElementOfSeq DEF Pad
<1>6. e \o g \in Seq(0..64) /\ Len(e \o g) % 4 = 0
  <2>. HIDE DEF e, g
  <2>0. e \o g \in Seq(0..64) /\ Len(e \o g) = Len(e) + Len(g)
    BY <1>2, <1>4, ConcatProperties
  <2>1. Len(e \o g) = 4 * (n + 1)
    BY <1>2, <1>4, <2>0
  <2>2. (4 * (n + 1)) % 4 = 0
    OBVIOUS
  <2>. QED
    BY <2>0, <2>1, <2>2
<1>7. CASE Len(bytes) = 3 * n + 1
  <2>0. 3 * (n + 1) = Len(bytes) + 2
    BY <1>7
  <2>1. IsGroup(g, V1(x), V2(x, 0), Pad, Pad)
    BY <1>1, <2>0, GroupIs
  <2>2. AreValues(x, 0, 0)
    BY ZenonT(30), <1>5, ValuesType
  <2>3. Gave(st, Four(st, V1(x), V2(x, 0), Pad, Pad), <<x>>)
    BY <1>2, <1>5, GroupOfOne
  <2>4. SubSeq(bytes, 1, 3 * n) \o <<x>> = bytes
    BY <1>1, <1>7, PrefixGrows
  <2>. HIDE DEF e, st, x, g
  <2>5. Unpacked(e \o g) = Four(st, V1(x), V2(x, 0), Pad, Pad)
    <3>1. V1(x) \in 0..64 /\ V2(x, 0) \in 0..64
      BY <2>2 DEF AreValues
    <3>2. GroupUnpacks(e, V1(x), V2(x, 0), Pad, Pad)
      BY ZenonT(30), <1>2, <1>5, <3>1, UnpackedGroup
    <3>. QED
      BY <2>1, <3>2 DEF IsGroup, GroupUnpacks, st
  <2>. QED
    BY ZenonT(30), <1>2, <1>3, <1>6, <2>3, <2>4, <2>5 DEF Gave, DecodesTo
<1>8. CASE Len(bytes) = 3 * n + 2
  <2>a. 3 * n + 2 \in 1..Len(bytes) /\ 3 * (n + 1) = Len(bytes) + 1
    BY <1>8
  <2>0. y \in 0..255
    BY <2>a, ElementOfSeq
  <2>1. IsGroup(g, V1(x), V2(x, y), V3(y, 0), Pad)
    BY <1>1, <2>a, GroupIs
  <2>2. AreValues(x, y, 0)
    BY ZenonT(30), <1>5, <2>0, ValuesType
  <2>3. Gave(st, Four(st, V1(x), V2(x, y), V3(y, 0), Pad), <<x, y>>)
    BY ZenonT(30), <1>2, <1>5, <2>0, GroupOfTwo
  <2>4. SubSeq(bytes, 1, 3 * n) \o <<x, y>> = bytes
    <3>1. 3 * n \in Nat /\ 3 * n <= Len(bytes) /\ 3 * n + 2 = Len(bytes)
      BY <1>1, <1>8
    <3>. QED
      BY <3>1, PrefixGrows
  <2>. HIDE DEF e, st, x, y, g
  <2>5. Unpacked(e \o g) = Four(st, V1(x), V2(x, y), V3(y, 0), Pad)
    <3>1. V1(x) \in 0..64 /\ V2(x, y) \in 0..64 /\ V3(y, 0) \in 0..64
      BY <2>2 DEF AreValues
    <3>2. GroupUnpacks(e, V1(x), V2(x, y), V3(y, 0), Pad)
      BY ZenonT(30), <1>2, <1>5, <3>1, UnpackedGroup
    <3>. QED
      BY <2>1, <3>2 DEF IsGroup, GroupUnpacks, st
  <2>. QED
    BY ZenonT(30), <1>2, <1>3, <1>6, <2>3, <2>4, <2>5 DEF Gave, DecodesTo
<1>. QED
  BY <1>1, <1>7, <1>8

\* Whatever bytes are encoded as decodes to them.
LEMMA EncodedDecodes ==
  ASSUME NEW bytes \in Seq(0..255)
  PROVE  DecodesTo(Base64Encode(bytes), bytes)
<1>. DEFINE m == Len(bytes)  n == m \div 3
<1>1. m \in Nat /\ n \in Nat /\ 3 * n <= m /\ m < 3 * n + 3
  OBVIOUS
<1>2. Base64Encode(bytes) = Encoded(bytes, (m + 2) \div 3)
  BY EncodeIs
<1>3. Sofar(bytes, n)
  <2>. HIDE DEF n
  <2>1. n \in 0..n
    BY <1>1
  <2>. QED
    BY <1>1, <2>1, GroupsSofar
<1>. HIDE DEF n
<1>4. CASE m = 3 * n
  <2>1. (m + 2) \div 3 = n
    BY <1>1, <1>4
  <2>2. SubSeq(bytes, 1, 3 * n) = bytes
    BY <1>1, <1>4, PrefixGrows
  <2>3. (4 * n) % 4 = 0
    BY <1>1
  <2>. QED
    BY <1>2, <1>3, <2>1, <2>2, <2>3 DEF Sofar, DecodesTo, Fresh
<1>5. CASE m # 3 * n
  <2>1. (m + 2) \div 3 = n + 1 /\ 3 * n < m
    BY <1>1, <1>5
  <2>. QED
    BY <1>1, <1>2, <1>3, <2>1, LastGroup
<1>. QED
  BY <1>4, <1>5

\* base64, of the events between the nodes and of the samples of a session
\* (src/libs/dataplane, src/libs/common): whatever the bytes are, they are decoded from what
\* they are encoded as, though the accumulator of the decoder wraps around.
THEOREM Base64RoundTrips ==
  ASSUME NEW bytes \in Seq(0..255)
  PROVE  Base64Decode(Base64Encode(bytes)) = [ok |-> TRUE, bytes |-> bytes]
<1>1. DecodesTo(Base64Encode(bytes), bytes)
  BY EncodedDecodes
<1>. DEFINE chars == Base64Encode(bytes)
<1>. HIDE DEF chars
<1>2. FoldLeft(DecodeChar, NothingDecoded, chars) = Unpacked(chars)
  BY <1>1, UnpackedIsFold DEF DecodesTo, chars
<1>3. Base64Decode(chars) = [ok |-> Unpacked(chars).ok, bytes |-> Unpacked(chars).out]
  BY <1>2 DEF Base64Decode
<1>. QED
  BY <1>1, <1>3 DEF DecodesTo, chars

-----------------------------------------------------------------------------
(* Events between the nodes *)

\* A sequence is its elements but the last, and the last.
LEMMA FcnGrows ==
  ASSUME NEW S, NEW k \in Nat, NEW F \in [1..(k + 1) -> S]
  PROVE  /\ [j \in 1..k |-> F[j]] \in Seq(S)
         /\ F = Append([j \in 1..k |-> F[j]], F[k + 1])
<1>. DEFINE p == [j \in 1..k |-> F[j]]  w == Append(p, F[k + 1])
<1>1. p \in [1..k -> S] /\ F[k + 1] \in S
  OBVIOUS
<1>2. p \in Seq(S) /\ Len(p) = k
  BY <1>1
<1>3. \A j \in 1..k : p[j] = F[j]
  OBVIOUS
<1>. HIDE DEF p
<1>4. w \in Seq(S) /\ Len(w) = k + 1 /\ w[k + 1] = F[k + 1] /\ \A j \in 1..k : w[j] = p[j]
  BY <1>1, <1>2, AppendProperties
<1>5. DOMAIN w = 1..(k + 1)
  BY <1>4
<1>. HIDE DEF w
<1>6. \A j \in 1..(k + 1) : w[j] = F[j]
  <2>1. ASSUME NEW j \in 1..(k + 1) PROVE w[j] = F[j]
    <3>1. CASE j = k + 1
      BY <1>4, <3>1
    <3>2. CASE j # k + 1
      <4>1. j \in 1..k
        BY <3>2
      <4>. QED
        BY <1>3, <1>4, <4>1
    <3>. QED
      BY <3>1, <3>2
  <2>. QED
    BY <2>1
<1>7. F = [j \in 1..(k + 1) |-> F[j]]
  OBVIOUS
<1>8. w = [j \in 1..(k + 1) |-> w[j]]
  BY <1>4, <1>5
<1>9. F = w
  BY <1>6, <1>7, <1>8
<1>. QED
  BY <1>2, <1>9 DEF p, w

\* The samples of some bytes: pairs of them.
Pairs(bytes, k) == [i \in 1..k |-> <<bytes[2 * i - 1], bytes[2 * i]>>]

PairsLaid(E, bytes, k) ==
  Pairs(bytes, k) \in Seq(Seq(E)) /\ FlattenSeq(Pairs(bytes, k)) = SubSeq(bytes, 1, 2 * k)

\* The first elements of a sequence, and two more.
LEMMA TwoMore ==
  ASSUME NEW E, NEW s \in Seq(E), NEW m \in Nat, m + 2 <= Len(s)
  PROVE  SubSeq(s, 1, m) \o <<s[m + 1], s[m + 2]>> = SubSeq(s, 1, m + 2)
OBVIOUS

\* The samples of an event, end to end, are its bytes.
LEMMA PairsAreLaid ==
  ASSUME NEW E, NEW bytes \in Seq(E), NEW n \in Nat, 2 * n <= Len(bytes)
  PROVE  PairsLaid(E, bytes, n)
<1>. DEFINE T == {k \in Nat : PairsLaid(E, bytes, k)}
<1>1. PairsLaid(E, bytes, 0)
  <2>1. Pairs(bytes, 0) = <<>>
    BY DEF Pairs
  <2>2. SubSeq(bytes, 1, 2 * 0) = <<>> /\ <<>> \in Seq(Seq(E))
    OBVIOUS
  <2>. QED
    BY <2>1, <2>2, FlattenEmpty DEF PairsLaid
<1>2. ASSUME NEW k \in Nat, PairsLaid(E, bytes, k), k < n PROVE PairsLaid(E, bytes, k + 1)
  <2>. DEFINE F == Pairs(bytes, k + 1)  p == Pairs(bytes, k)  x == F[k + 1]  S == Seq(E)
  <2>1. ASSUME NEW i \in 1..(k + 1) PROVE F[i] \in S
    <3>1. 2 * i - 1 \in 1..Len(bytes) /\ 2 * i \in 1..Len(bytes)
      BY <1>2
    <3>2. bytes[2 * i - 1] \in E /\ bytes[2 * i] \in E
      BY <3>1, ElementOfSeq
    <3>3. F[i] = <<bytes[2 * i - 1], bytes[2 * i]>>
      BY DEF Pairs
    <3>4. <<bytes[2 * i - 1], bytes[2 * i]>> \in S
      BY <3>2
    <3>. QED
      BY <3>3, <3>4, Zenon
  <2>2. F \in [1..(k + 1) -> S]
    BY <2>1 DEF Pairs
  <2>3. x = <<bytes[2 * k + 1], bytes[2 * k + 2]>> /\ x \in S
    <3>1. k + 1 \in 1..(k + 1) /\ 2 * (k + 1) - 1 = 2 * k + 1 /\ 2 * (k + 1) = 2 * k + 2
      OBVIOUS
    <3>2. x = <<bytes[2 * (k + 1) - 1], bytes[2 * (k + 1)]>>
      BY <3>1 DEF Pairs
    <3>3. x \in S
      BY <2>1, <3>1
    <3>. QED
      BY <3>1, <3>2, <3>3
  <2>4. p = [j \in 1..k |-> F[j]]
    BY DEF Pairs
  <2>5. p \in Seq(S) /\ FlattenSeq(p) = SubSeq(bytes, 1, 2 * k)
    BY <1>2 DEF PairsLaid
  <2>. HIDE DEF F, p, x
  <2>6. F = Append(p, x)
    <3>. HIDE DEF S
    <3>. QED
      BY <2>2, <2>4, FcnGrows DEF x
  <2>7. FlattenSeq(F) = FlattenSeq(p) \o x
    BY <2>3, <2>5, <2>6, FlattenAppend
  <2>8. 2 * k + 2 = 2 * (k + 1) /\ 2 * k + 2 <= Len(bytes) /\ 2 * k \in Nat
    BY <1>2
  <2>9. SubSeq(bytes, 1, 2 * k) \o <<bytes[2 * k + 1], bytes[2 * k + 2]>> = SubSeq(bytes, 1, 2 * k + 2)
    BY <2>8, TwoMore
  <2>10. Append(p, x) \in Seq(S)
    <3>. HIDE DEF S
    <3>. QED
      BY <2>3, <2>5, AppendProperties
  <2>. QED
    BY <2>3, <2>5, <2>6, <2>7, <2>8, <2>9, <2>10 DEF PairsLaid, F
<1>3. T \subseteq Nat /\ 0 \in T /\ \A k \in T : k < n => k + 1 \in T
  BY <1>1, <1>2
<1>. HIDE DEF T
<1>4. \A k \in 0..n : k \in T
  BY <1>3, BoundInduct
<1>. QED
  BY <1>4 DEF T

\* What EventsArrive says of one event.
EventReturns(e) == FromEnvelope(ToEnvelope(e, "w", "r")) = [ok |-> TRUE, event |-> e]

Event(what, text, pcm, index, finish) ==
  [kind |-> what, text |-> text, pcm |-> pcm, index |-> index, finish |-> finish]

\* The only element is the first.
LEMMA HeadOfOne ==
  ASSUME NEW x
  PROVE  <<x>> # <<>> /\ Head(<<x>>) = x
OBVIOUS

\* ToEnvelope and FromEnvelope: an event comes back from its envelope.
LEMMA EventComesBack ==
  ASSUME NEW what, NEW text, NEW pcm \in Seq(0..255), NEW index, NEW finish
  PROVE  EventReturns(Event(what, text, pcm, index, finish))
<1>. DEFINE e == Event(what, text, pcm, index, finish)
            j == ToPayload(e)
            f == FromPayload(j)
<1>1. e.kind = what /\ e.text = text /\ e.pcm = pcm /\ e.index = index /\ e.finish = finish
  BY DEF Event
<1>2. j.kind = <<what>> /\ j.text = (IF text = "" THEN <<>> ELSE <<text>>)
      /\ j.pcm = (IF pcm = <<>> THEN <<>> ELSE <<Base64Encode(pcm)>>)
  BY <1>1 DEF ToPayload
<1>3. (IF j.pcm = <<>> THEN [ok |-> TRUE, bytes |-> <<>>] ELSE Base64Decode(Head(j.pcm)))
        = [ok |-> TRUE, bytes |-> pcm]
  <2>1. CASE pcm = <<>>
    BY <1>2, <2>1
  <2>2. CASE pcm # <<>>
    <3>1. j.pcm # <<>> /\ Head(j.pcm) = Base64Encode(pcm)
      BY <1>2, <2>2, HeadOfOne
    <3>. QED
      BY <3>1, Base64RoundTrips
  <2>. QED
    BY <2>1, <2>2
<1>4. j.kind # <<>> /\ Head(j.kind) = what
  BY <1>2, HeadOfOne
<1>5. (IF j.text = <<>> THEN "" ELSE Head(j.text)) = text
  <2>1. CASE text = ""
    BY <1>2, <2>1
  <2>2. CASE text # ""
    <3>1. j.text = <<text>>
      BY <1>2, <2>2
    <3>. QED
      BY <2>2, <3>1, HeadOfOne
  <2>. QED
    BY <2>1, <2>2
<1>. DEFINE dec == IF j.pcm = <<>> THEN [ok |-> TRUE, bytes |-> <<>>] ELSE Base64Decode(Head(j.pcm))
            txt == IF j.text = <<>> THEN "" ELSE Head(j.text)
<1>a. dec = [ok |-> TRUE, bytes |-> pcm] /\ txt = text
  BY <1>3, <1>5
<1>b. f = CASE j.kind = <<>> -> Refuse("missing_field")
            [] j.kind # <<>> /\ ~dec.ok -> Refuse("invalid_json")
            [] OTHER -> [ok |-> TRUE, kind |-> Head(j.kind), pcm |-> dec.bytes, text |-> txt]
  BY Zenon DEF FromPayload
<1>. HIDE DEF j, dec, txt, f
<1>6. f = [ok |-> TRUE, kind |-> what, pcm |-> pcm, text |-> text]
  BY <1>4, <1>a, <1>b
<1>. DEFINE env == ToEnvelope(e, "w", "r")
<1>7. env.type = "event" /\ env.payload = j /\ env.index = index /\ env.finish = finish
  BY <1>1 DEF ToEnvelope, j
<1>. HIDE DEF env, e
<1>c. FromEnvelope(env) =
        CASE env.type # "event" -> Refuse("invalid_type")
          [] env.type = "event" /\ ~f.ok -> f
          [] OTHER -> [ok |-> TRUE, event |-> [kind |-> f.kind, text |-> f.text, pcm |-> f.pcm,
                                               index |-> env.index, finish |-> env.finish]]
  BY <1>7, Zenon DEF FromEnvelope, f
<1>8. FromEnvelope(env) = [ok |-> TRUE, event |-> [kind |-> what, text |-> text, pcm |-> pcm,
                                                     index |-> index, finish |-> finish]]
  BY <1>6, <1>7, <1>c
<1>. QED
  BY <1>8 DEF EventReturns, Event, e, env

\* What a remote session hears of a backend's event: of its samples the first half.
HeardOf(heard, what, text, pcm) ==
  heard.ok /\ heard.kind = what /\ heard.text = text /\ Len(heard.pcm) = Len(pcm)

Kinds == {"partial", "final", "token", "pcm", "done"}

\* ToBackend: there are as many samples as the event has pairs of bytes.
LEMMA AsManyAreHeard ==
  ASSUME NEW bytes \in Seq(0..255), NEW m \in Nat, 2 * m <= Len(bytes),
         NEW what \in Kinds, NEW text, NEW index, NEW finish
  PROVE  HeardOf(ToBackend(Event(what, text, SubSeq(bytes, 1, 2 * m), index, finish)),
                 what, text, Pairs(bytes, m))
<1>. DEFINE p == SubSeq(bytes, 1, 2 * m)
            e == Event(what, text, p, index, finish)
            B(i) == IF i <= m THEN p[i] ELSE 0
            h == ToBackend(e)
            pcm == Pairs(bytes, m)
<1>1. Len(p) = 2 * m /\ \A i \in 1..(2 * m) : p[i] = bytes[i]
  OBVIOUS
<1>2. (2 * m) \div 2 = m
  OBVIOUS
<1>. HIDE DEF p
<1>3. e.kind = what /\ e.text = text /\ e.pcm = p
  BY DEF Event
<1>. HIDE DEF e
<1>4. h = [ok |-> what \in Kinds, kind |-> what, text |-> text,
           pcm |-> [i \in 1..m |-> <<B(2 * i - 1), B(2 * i)>>]]
  BY <1>1, <1>2, <1>3 DEF ToBackend, Kinds
<1>. HIDE DEF h
<1>5. h.ok /\ h.kind = what /\ h.text = text /\ h.pcm = [i \in 1..m |-> <<B(2 * i - 1), B(2 * i)>>]
  BY <1>4
<1>6. Len(h.pcm) = m /\ Len(pcm) = m
  BY <1>5 DEF Pairs
<1>. QED
  BY <1>5, <1>6 DEF HeardOf, h, e, p

\* Events between the nodes (src/libs/dataplane): bytes come back from their base64 and events
\* from their envelopes, and a remote session hears the kind, the text and as many samples.
THEOREM EveryEventArrives ==
  ASSUME NEW bytes \in Seq(0..255)
  PROVE  EventsArrive(bytes)
<1>. DEFINE m == Len(bytes) \div 2  pcm == Pairs(bytes, m)  P == SubSeq(bytes, 1, 2 * m)
            F(what) == IF what \in {"final", "done"} THEN "true" ELSE "false"
            Ev(what, text) == Event(what, text, P, "-1", F(what))
<1>1. m \in Nat /\ 2 * m <= Len(bytes)
  OBVIOUS
<1>2. pcm = [i \in 1..m |-> <<bytes[2 * i - 1], bytes[2 * i]>>]
  BY DEF Pairs
<1>3. Len(Base64Encode(bytes)) % 4 = 0
  BY EncodedDecodes DEF DecodesTo
<1>4. Base64Decode(Base64Encode(bytes)) = [ok |-> TRUE, bytes |-> bytes]
  BY Base64RoundTrips
<1>. HIDE DEF m
<1>5. PairsLaid(0..255, bytes, m)
  BY <1>1, PairsAreLaid
<1>6. P \in Seq(0..255)
  <2>1. 2 * m \in Nat
    BY <1>1
  <2>. QED
    BY <1>1, <2>1, PrefixType
<1>7. ASSUME NEW what \in Kinds, NEW text
      PROVE  /\ FromBackend([kind |-> what, text |-> text, pcm |-> pcm]) = Ev(what, text)
             /\ EventReturns(Ev(what, text))
             /\ HeardOf(ToBackend(Ev(what, text)), what, text, pcm)
  <2>1. FlattenSeq(pcm) = P
    BY <1>5 DEF PairsLaid
  <2>2. FromBackend([kind |-> what, text |-> text, pcm |-> pcm]) = Ev(what, text)
    <3>. HIDE DEF P, pcm
    <3>. QED
      BY <2>1 DEF FromBackend, Event
  <2>3. EventReturns(Ev(what, text))
    <3>. HIDE DEF P
    <3>. QED
      BY <1>6, EventComesBack
  <2>4. HeardOf(ToBackend(Ev(what, text)), what, text, pcm)
    BY <1>1, AsManyAreHeard
  <2>. QED
    BY <2>2, <2>3, <2>4
<1>8. ASSUME NEW what \in Kinds, NEW text \in {"", "a"}
      PROVE  LET e == FromBackend([kind |-> what, text |-> text, pcm |-> pcm])
             IN EventReturns(e) /\ HeardOf(ToBackend(e), what, text, pcm)
  <2>. HIDE DEF pcm, Ev
  <2>. QED
    BY <1>7, Zenon
<1>9. ASSUME NEW what \in {"partial", "final", "token", "pcm", "done"}, NEW text \in {"", "a"}
      PROVE  LET samples == [i \in 1..(Len(bytes) \div 2) |-> <<bytes[2 * i - 1], bytes[2 * i]>>]
                 b == [kind |-> what, text |-> text, pcm |-> samples]
                 e == FromBackend(b)
                 heard == ToBackend(e)
             IN /\ FromEnvelope(ToEnvelope(e, "w", "r")) = [ok |-> TRUE, event |-> e]
                /\ heard.ok /\ heard.kind = what /\ heard.text = text /\ Len(heard.pcm) = Len(samples)
  <2>1. LET e == FromBackend([kind |-> what, text |-> text, pcm |-> pcm])
        IN EventReturns(e) /\ HeardOf(ToBackend(e), what, text, pcm)
    BY <1>8, Zenon DEF Kinds
  <2>2. pcm = [i \in 1..(Len(bytes) \div 2) |-> <<bytes[2 * i - 1], bytes[2 * i]>>]
    BY <1>2 DEF m
  <2>. HIDE DEF pcm
  <2>. QED
    BY <2>1, <2>2, Zenon DEF EventReturns, HeardOf
<1>. QED
  BY <1>3, <1>4, <1>9, Zenon DEF EventsArrive

-----------------------------------------------------------------------------
(* WavReader: the chunks of a recording *)

\* A chunk of a recording.
WavChunk == [tag : {"fmt", "data", "other"}, len : Nat, format : STRING]

\* A chunk takes eight bytes and its contents at least.
LEMMA ChunkSizeType ==
  ASSUME NEW c \in WavChunk
  PROVE  ChunkSize(c) \in Nat /\ ChunkSize(c) >= 8 + c.len
<1>1. c.len \in Nat
  BY DEF WavChunk
<1>2. c.len % 2 \in 0..1
  BY <1>1
<1>. QED
  BY <1>1, <1>2 DEF ChunkSize

SizeFcn == [x \in Nat \X WavChunk |-> x[1] + ChunkSize(x[2])]
Total(s) == Result(Nat, SizeFcn, 0, s)

\* Adding up sizes is a step function.
LEMMA SizeFcnType == SizeFcn \in [Nat \X WavChunk -> Nat] /\ 0 \in Nat
BY ChunkSizeType DEF SizeFcn

\* The extent of some chunks adds up their sizes.
LEMMA ExtentIsTotal ==
  ASSUME NEW chunks \in Seq(WavChunk)
  PROVE  Extent(chunks) = Total(chunks)
<1>. DEFINE D == Nat
            X == WavChunk
            b == 0
            F == SizeFcn
            s == chunks
            Eqn(g) == g = [T \in SUBSET DOMAIN s |->
                             IF T = {} THEN b ELSE g[T \ {Max(T)}] + ChunkSize(s[Max(T)])]
            G == CHOOSE g : Eqn(g)
<1>0. DOMAIN s = 1..Len(s) /\ s \in Seq(X)
  OBVIOUS
<1>a. F \in [D \X X -> D]
  BY SizeFcnType
<1>b. b \in D
  BY SizeFcnType
<1>c. \A x \in D, e \in X : F[<<x, e>>] = x + ChunkSize(e)
  BY DEF SizeFcn
<1>1. Extent(chunks) = G[DOMAIN s]
  BY DEF Extent, FoldLeft, MapThenFoldSet
<1>. HIDE DEF D, b, F, X, s
<1>2. PICK h : Unfolds(D, X, F, b, s, h)
  BY <1>0, <1>a, <1>b, FoldStart
<1>. DEFINE q == [T \in SUBSET DOMAIN s |-> h[T]]
<1>3. Eqn(q)
  BY <1>c, <1>2 DEF Unfolds
<1>4. Eqn(G)
  BY <1>3
<1>. HIDE DEF G
<1>5. G[{}] = b
  BY <1>4
<1>6. ASSUME NEW k \in 1..Len(s) PROVE FoldStep(F, D, s, G, k)
  <2>1. /\ (1..k) \in SUBSET DOMAIN s /\ (1..k) # {}
        /\ (1..k) \ {k} = 1..(k - 1) /\ Max(1..k) = k /\ s[k] \in X
    BY <1>0, FirstPositions
  <2>2. G[1..k] = G[1..(k - 1)] + ChunkSize(s[k])
    BY <2>1, <1>4
  <2>. QED
    BY <2>1, <2>2, <1>c DEF FoldStep
<1>7. Folds(F, D, b, s, G)
  BY <1>5, <1>6 DEF Folds
<1>8. EndsAs(D, F, b, s, G)
  BY <1>0, <1>a, <1>b, <1>7, FoldIsResult
<1>. QED
  BY <1>0, <1>1, <1>8 DEF EndsAs, Total, D, F, b, s

\* No chunks take no room.
LEMMA ExtentEmpty == Extent(<<>>) = 0
<1>. DEFINE D == Nat  F == SizeFcn  b == 0  X == WavChunk
<1>a. F \in [D \X X -> D]
  BY SizeFcnType
<1>b. b \in D
  OBVIOUS
<1>c. <<>> \in Seq(X)
  OBVIOUS
<1>. HIDE DEF D, F, b, X
<1>1. Result(D, F, b, <<>>) = b
  BY <1>a, <1>b, ResultEmpty
<1>. QED
  BY <1>1, <1>c, ExtentIsTotal DEF Total, D, F, b, X

ExtentGrows(s, c) == Extent(s) \in Nat /\ Extent(Append(s, c)) = Extent(s) + ChunkSize(c)

\* A chunk more takes its size.
LEMMA ExtentAppend ==
  ASSUME NEW s \in Seq(WavChunk), NEW c \in WavChunk
  PROVE  ExtentGrows(s, c)
<1>1. Continues(Nat, SizeFcn, 0, s, c)
  BY SizeFcnType, ResultAppend
<1>2. Total(s) \in Nat
  BY SizeFcnType, ResultType DEF Total
<1>3. Append(s, c) \in Seq(WavChunk)
  OBVIOUS
<1>4. Extent(s) = Total(s) /\ Extent(Append(s, c)) = Total(Append(s, c))
  BY <1>3, ExtentIsTotal
<1>. QED
  BY <1>1, <1>2, <1>4 DEF Continues, Total, SizeFcn, ExtentGrows

\* Where the first k chunks end, from the end of the head.
End(chunks, k) == Extent(SubSeq(chunks, 1, k))

\* The first k elements of a sequence, and one more.
LEMMA PrefixPlusOne ==
  ASSUME NEW E, NEW s \in Seq(E), NEW k \in Nat, k < Len(s)
  PROVE  SubSeq(s, 1, k + 1) = Append(SubSeq(s, 1, k), s[k + 1])
OBVIOUS

NextEnd(chunks, k) ==
  End(chunks, k) \in Nat /\ End(chunks, k + 1) = End(chunks, k) + ChunkSize(chunks[k + 1])

\* A chunk ends where the one before it ends, and its size further.
LEMMA EndGrows ==
  ASSUME NEW chunks \in Seq(WavChunk), NEW k \in Nat, k < Len(chunks)
  PROVE  NextEnd(chunks, k)
<1>1. k + 1 \in 1..Len(chunks)
  OBVIOUS
<1>2. chunks[k + 1] \in WavChunk
  BY <1>1, ElementOfSeq
<1>3. SubSeq(chunks, 1, k) \in Seq(WavChunk)
  BY PrefixType
<1>4. SubSeq(chunks, 1, k + 1) = Append(SubSeq(chunks, 1, k), chunks[k + 1])
  BY PrefixPlusOne
<1>5. ExtentGrows(SubSeq(chunks, 1, k), chunks[k + 1])
  BY <1>2, <1>3, ExtentAppend
<1>. QED
  BY <1>4, <1>5 DEF NextEnd, End, ExtentGrows

\* A chunk ends somewhere.
LEMMA EndType ==
  ASSUME NEW chunks \in Seq(WavChunk), NEW k \in 0..Len(chunks)
  PROVE  End(chunks, k) \in Nat
<1>1. CASE k = 0
  <2>1. SubSeq(chunks, 1, 0) = <<>>
    OBVIOUS
  <2>2. End(chunks, 0) = 0
    BY <2>1, ExtentEmpty DEF End
  <2>. QED
    BY <1>1, <2>2
<1>2. CASE k # 0
  <2>1. k - 1 \in Nat /\ k - 1 < Len(chunks) /\ (k - 1) + 1 = k /\ k \in 1..Len(chunks)
    BY <1>2
  <2>2. NextEnd(chunks, k - 1)
    BY <2>1, EndGrows
  <2>3. ChunkSize(chunks[k]) \in Nat
    BY <2>1, ElementOfSeq, ChunkSizeType
  <2>4. End(chunks, k - 1) \in Nat /\ End(chunks, k) = End(chunks, k - 1) + ChunkSize(chunks[k])
    BY <2>1, <2>2, Zenon DEF NextEnd
  <2>. QED
    BY <2>3, <2>4
<1>. QED
  BY <1>1, <1>2

\* A later chunk ends later.
LEMMA EndIsMonotonic ==
  ASSUME NEW chunks \in Seq(WavChunk), NEW j \in Nat, NEW k \in Nat, j <= k, k <= Len(chunks)
  PROVE  End(chunks, j) <= End(chunks, k)
<1>. DEFINE Ok(i) == j + i <= Len(chunks) => End(chunks, j) <= End(chunks, j + i)
            T == {i \in Nat : Ok(i)}
<1>1. Ok(0)
  BY EndType
<1>2. ASSUME NEW i \in Nat, Ok(i) PROVE Ok(i + 1)
  <2>. SUFFICES ASSUME j + (i + 1) <= Len(chunks) PROVE End(chunks, j) <= End(chunks, j + (i + 1))
    OBVIOUS
  <2>1. j + i \in Nat /\ j + i < Len(chunks) /\ (j + i) + 1 = j + (i + 1) /\ j \in 0..Len(chunks)
        /\ j + i <= Len(chunks) /\ (j + i) + 1 \in 1..Len(chunks)
    OBVIOUS
  <2>2. NextEnd(chunks, j + i)
    BY <2>1, EndGrows
  <2>3. ChunkSize(chunks[(j + i) + 1]) \in Nat
    BY <2>1, ElementOfSeq, ChunkSizeType
  <2>4. End(chunks, j) \in Nat
    BY <2>1, EndType
  <2>. QED
    BY <1>2, <2>1, <2>2, <2>3, <2>4 DEF NextEnd
<1>3. T \subseteq Nat /\ 0 \in T /\ \A i \in T : i + 1 \in T
  <2>. HIDE DEF Ok
  <2>. QED
    BY <1>1, <1>2
<1>. HIDE DEF T
<1>4. T = Nat
  BY <1>3, NatInduct
<1>5. k - j \in Nat /\ j + (k - j) = k
  OBVIOUS
<1>. QED
  BY <1>4, <1>5 DEF T

-----------------------------------------------------------------------------
(* WavReader: a chunk, and a sequence of chunks *)

\* What a reader says is wrong; "" is nothing.
Errors == {"", "two fmt", "short fmt", "truncated", "data before fmt"} \cup STRING

\* The states of a reader.
Reading ==
  [pos : Nat, fmt : BOOLEAN, data : BOOLEAN, off : Nat, samples : Nat, error : Errors, end : BOOLEAN]

\* A reader that gives up is a reader.
LEMMA FailType ==
  ASSUME NEW st \in Reading, NEW why \in Errors
  PROVE  Fail(st, why) \in Reading
BY DEF Fail, Reading

\* A chunk leaves a reader a reader.
LEMMA ReadChunkType ==
  ASSUME NEW st \in Reading, NEW c \in WavChunk, NEW size
  PROVE  ReadChunk(st, c, size) \in Reading
<1>1. ReadFmt(st, c) \in Reading
  <2>1. Fail(st, "two fmt") \in Reading /\ Fail(st, "short fmt") \in Reading
        /\ Fail(st, c.format) \in Reading
    <3>1. c.format \in STRING
      BY DEF WavChunk
    <3>2. "two fmt" \in Errors /\ "short fmt" \in Errors /\ c.format \in Errors
      BY <3>1 DEF Errors
    <3>. QED
      BY <3>1, <3>2, FailType
  <2>2. [st EXCEPT !.fmt = TRUE, !.pos = @ + ChunkSize(c)] \in Reading
    <3>1. st.pos + ChunkSize(c) \in Nat
      BY ChunkSizeType DEF Reading
    <3>. QED
      BY <3>1 DEF Reading
  <2>. QED
    BY <2>1, <2>2 DEF ReadFmt
<1>2. [st EXCEPT !.end = TRUE] \in Reading
  BY DEF Reading
<1>3. Fail(st, "truncated") \in Reading /\ Fail(st, "data before fmt") \in Reading
  <2>1. "truncated" \in Errors /\ "data before fmt" \in Errors
    BY DEF Errors
  <2>. QED
    BY <2>1, FailType
<1>4. [st EXCEPT !.pos = @ + ChunkSize(c)] \in Reading
  <2>1. st.pos + ChunkSize(c) \in Nat
    BY ChunkSizeType DEF Reading
  <2>. QED
    BY <2>1 DEF Reading
<1>5. [st EXCEPT !.end = TRUE, !.data = TRUE, !.off = st.pos + 8, !.samples = c.len \div 2] \in Reading
  <2>1. c.len \in Nat /\ st.pos \in Nat
    BY DEF WavChunk, Reading
  <2>. DEFINE p == st.pos + 8  h == c.len \div 2
  <2>2. p \in Nat /\ h \in Nat
    BY <2>1
  <2>. HIDE DEF p, h
  <2>3. [st EXCEPT !.end = TRUE, !.data = TRUE, !.off = p, !.samples = h] \in Reading
    BY <2>2 DEF Reading
  <2>. QED
    BY <2>3 DEF p, h
<1>. QED
  BY <1>1, <1>2, <1>3, <1>4, <1>5 DEF ReadChunk

ReadFcn(size) == [x \in Reading \X WavChunk |-> ReadChunk(x[1], x[2], size)]
HasRead(chunks, size) == Result(Reading, ReadFcn(size), NothingRead, chunks)

\* Reading a chunk is a step function on readers.
LEMMA ReadFcnType ==
  ASSUME NEW size
  PROVE  ReadFcn(size) \in [Reading \X WavChunk -> Reading] /\ NothingRead \in Reading
<1>1. NothingRead \in Reading
  <2>1. "" \in Errors /\ 12 \in Nat /\ 0 \in Nat
    BY DEF Errors
  <2>. QED
    BY <2>1 DEF NothingRead, Reading
<1>. QED
  BY <1>1, ReadChunkType DEF ReadFcn

\* ReadWav runs through its chunks.
LEMMA HasReadIsFold ==
  ASSUME NEW chunks \in Seq(WavChunk), NEW size
  PROVE  FoldLeft(LAMBDA st, c : ReadChunk(st, c, size), NothingRead, chunks) = HasRead(chunks, size)
<1>. DEFINE D == Reading
            X == WavChunk
            b == NothingRead
            F == ReadFcn(size)
            s == chunks
            Eqn(g) == g = [T \in SUBSET DOMAIN s |->
                             IF T = {} THEN b ELSE ReadChunk(g[T \ {Max(T)}], s[Max(T)], size)]
            G == CHOOSE g : Eqn(g)
<1>0. DOMAIN s = 1..Len(s) /\ s \in Seq(X)
  OBVIOUS
<1>a. F \in [D \X X -> D]
  BY ReadFcnType
<1>b. b \in D
  BY ReadFcnType
<1>c. \A x \in D, e \in X : F[<<x, e>>] = ReadChunk(x, e, size)
  BY DEF ReadFcn
<1>1. FoldLeft(LAMBDA st, c : ReadChunk(st, c, size), NothingRead, chunks) = G[DOMAIN s]
  BY Zenon DEF FoldLeft, MapThenFoldSet
<1>. HIDE DEF D, b, F, X, s
<1>2. PICK h : Unfolds(D, X, F, b, s, h)
  BY <1>0, <1>a, <1>b, FoldStart
<1>. DEFINE q == [T \in SUBSET DOMAIN s |-> h[T]]
<1>3. Eqn(q)
  BY <1>c, <1>2 DEF Unfolds
<1>4. Eqn(G)
  BY <1>3
<1>. HIDE DEF G
<1>5. G[{}] = b
  BY <1>4
<1>6. ASSUME NEW k \in 1..Len(s) PROVE FoldStep(F, D, s, G, k)
  <2>1. /\ (1..k) \in SUBSET DOMAIN s /\ (1..k) # {}
        /\ (1..k) \ {k} = 1..(k - 1) /\ Max(1..k) = k /\ s[k] \in X
    BY <1>0, FirstPositions
  <2>2. G[1..k] = ReadChunk(G[1..(k - 1)], s[k], size)
    BY <2>1, <1>4
  <2>. QED
    BY <2>1, <2>2, <1>c DEF FoldStep
<1>7. Folds(F, D, b, s, G)
  BY <1>5, <1>6 DEF Folds
<1>8. EndsAs(D, F, b, s, G)
  BY <1>0, <1>a, <1>b, <1>7, FoldIsResult
<1>. QED
  BY <1>0, <1>1, <1>8 DEF EndsAs, HasRead, D, F, b, s

\* Before any chunk nothing is read.
LEMMA HasReadEmpty ==
  ASSUME NEW size
  PROVE  HasRead(<<>>, size) = NothingRead
<1>. DEFINE D == Reading  F == ReadFcn(size)  b == NothingRead  X == WavChunk
<1>a. F \in [D \X X -> D]
  BY ReadFcnType
<1>b. b \in D
  BY ReadFcnType
<1>. HIDE DEF D, F, b, X
<1>1. Result(D, F, b, <<>>) = b
  BY <1>a, <1>b, ResultEmpty
<1>. QED
  BY <1>1 DEF HasRead, D, F, b

OneMoreRead(chunks, c, size) ==
  /\ HasRead(chunks, size) \in Reading
  /\ HasRead(Append(chunks, c), size) = ReadChunk(HasRead(chunks, size), c, size)

\* A chunk more is read by the reader after those before it.
LEMMA HasReadAppend ==
  ASSUME NEW chunks \in Seq(WavChunk), NEW c \in WavChunk, NEW size
  PROVE  OneMoreRead(chunks, c, size)
<1>. DEFINE D == Reading  F == ReadFcn(size)  b == NothingRead  X == WavChunk
<1>a. F \in [D \X X -> D]
  BY ReadFcnType
<1>b. b \in D
  BY ReadFcnType
<1>c. chunks \in Seq(X) /\ c \in X
  OBVIOUS
<1>d. \A x \in D, e \in X : F[<<x, e>>] = ReadChunk(x, e, size)
  BY DEF ReadFcn
<1>. HIDE DEF D, F, b, X
<1>1. Continues(D, F, b, chunks, c)
  BY <1>a, <1>b, <1>c, ResultAppend
<1>2. Result(D, F, b, chunks) \in D
  BY <1>a, <1>b, <1>c, ResultType
<1>3. Result(D, F, b, Append(chunks, c)) = ReadChunk(Result(D, F, b, chunks), c, size)
  BY <1>1, <1>2, <1>c, <1>d DEF Continues
<1>. QED
  BY <1>2, <1>3 DEF OneMoreRead, HasRead, D, F, b

-----------------------------------------------------------------------------
(* WavReader: why there are no samples to be read *)

\* None of the first k chunks is of this kind.
Plain(chunks, k, tag) == \A i \in 1..k : chunks[i].tag # tag

\* Of the first k chunks the i-th is the only fmt chunk, and of the one format.
Only(chunks, k, i) ==
  /\ \A j \in 1..k : chunks[j].tag = "fmt" <=> j = i
  /\ chunks[i].len >= 16 /\ chunks[i].format = "pcm16"

\* The d-th chunk is what a reader looks for.
FitsAt(chunks, size, d) ==
  /\ chunks[d].tag = "data" /\ Plain(chunks, d - 1, "data")
  /\ \E i \in 1..(d - 1) : Only(chunks, d - 1, i)
  /\ 20 + End(chunks, d - 1) + chunks[d].len <= size

NoneFits(chunks, size) == \A d \in 1..Len(chunks) : ~FitsAt(chunks, size, d)

\* After chunks without samples, the samples to be found are further on.
LEMMA FitsLater ==
  ASSUME NEW chunks \in Seq(WavChunk), NEW size \in Int, NEW k \in 0..Len(chunks),
         Plain(chunks, k, "data"), NEW d \in 1..Len(chunks), FitsAt(chunks, size, d)
  PROVE  /\ d > k /\ d - 1 \in k..Len(chunks)
         /\ End(chunks, k) \in Nat /\ End(chunks, d - 1) \in Nat
         /\ End(chunks, k) <= End(chunks, d - 1) /\ chunks[d].len \in Nat
<1>1. chunks[d].tag = "data"
  BY DEF FitsAt
<1>2. d > k
  BY <1>1 DEF Plain
<1>3. d - 1 \in Nat /\ k \in Nat /\ k <= d - 1 /\ d - 1 <= Len(chunks) /\ d - 1 \in 0..Len(chunks)
  BY <1>2
<1>4. End(chunks, k) <= End(chunks, d - 1)
  BY <1>3, EndIsMonotonic
<1>5. End(chunks, k) \in Nat /\ End(chunks, d - 1) \in Nat
  BY <1>3, EndType
<1>6. chunks[d] \in WavChunk
  BY ElementOfSeq
<1>7. chunks[d].len \in Nat
  BY <1>6 DEF WavChunk
<1>. QED
  BY <1>2, <1>3, <1>4, <1>5, <1>7

\* A file that ends before the next chunk has none.
LEMMA TooShort ==
  ASSUME NEW chunks \in Seq(WavChunk), NEW size \in Int, NEW k \in 0..Len(chunks),
         Plain(chunks, k, "data"), 12 + End(chunks, k) + 8 > size
  PROVE  NoneFits(chunks, size)
<1>1. ASSUME NEW d \in 1..Len(chunks), FitsAt(chunks, size, d) PROVE FALSE
  <2>1. /\ End(chunks, k) \in Nat /\ End(chunks, d - 1) \in Nat
        /\ End(chunks, k) <= End(chunks, d - 1) /\ chunks[d].len \in Nat
    BY <1>1, FitsLater
  <2>2. 20 + End(chunks, d - 1) + chunks[d].len <= size
    BY <1>1 DEF FitsAt
  <2>. QED
    BY <2>1, <2>2
<1>. QED
  BY <1>1 DEF NoneFits

\* Nor has one whose next chunk is not complete.
LEMMA Truncated ==
  ASSUME NEW chunks \in Seq(WavChunk), NEW size \in Int, NEW k \in Nat, k < Len(chunks),
         Plain(chunks, k, "data"), 12 + End(chunks, k) + 8 + chunks[k + 1].len > size
  PROVE  NoneFits(chunks, size)
<1>0. k \in 0..Len(chunks) /\ k + 1 \in 1..Len(chunks) /\ k + 1 \in Nat /\ k + 1 <= Len(chunks)
  OBVIOUS
<1>1. chunks[k + 1] \in WavChunk
  BY <1>0, ElementOfSeq
<1>2. NextEnd(chunks, k)
  BY EndGrows
<1>3. ChunkSize(chunks[k + 1]) \in Nat /\ ChunkSize(chunks[k + 1]) >= 8 + chunks[k + 1].len
  BY <1>1, ChunkSizeType
<1>4. chunks[k + 1].len \in Nat
  BY <1>1 DEF WavChunk
<1>5. ASSUME NEW d \in 1..Len(chunks), FitsAt(chunks, size, d) PROVE FALSE
  <2>1. /\ d > k /\ End(chunks, k) \in Nat /\ End(chunks, d - 1) \in Nat /\ chunks[d].len \in Nat
    BY <1>0, <1>5, FitsLater
  <2>2. 20 + End(chunks, d - 1) + chunks[d].len <= size
    BY <1>5 DEF FitsAt
  <2>3. CASE d = k + 1
    <3>1. d - 1 = k
      BY <2>3
    <3>. QED
      BY <2>1, <2>2, <2>3, <3>1
  <2>4. CASE d # k + 1
    <3>1. d - 1 \in Nat /\ k + 1 <= d - 1 /\ d - 1 <= Len(chunks)
      BY <2>1, <2>4
    <3>2. End(chunks, k + 1) <= End(chunks, d - 1)
      BY <1>0, <3>1, EndIsMonotonic
    <3>3. End(chunks, k + 1) = End(chunks, k) + ChunkSize(chunks[k + 1])
      BY <1>2 DEF NextEnd
    <3>. DEFINE e0 == End(chunks, k)  e1 == End(chunks, k + 1)  ed == End(chunks, d - 1)
                c == ChunkSize(chunks[k + 1])  l == chunks[k + 1].len  m == chunks[d].len
    <3>4. /\ e0 \in Nat /\ ed \in Nat /\ c \in Nat /\ l \in Nat /\ m \in Nat
          /\ c >= 8 + l /\ e1 <= ed /\ e1 = e0 + c
      BY <1>3, <1>4, <2>1, <3>2, <3>3
    <3>5. 20 + ed + m <= size /\ 12 + e0 + 8 + l > size
      BY <2>2
    <3>. HIDE DEF e0, e1, ed, c, l, m
    <3>. QED
      BY <3>4, <3>5
  <2>. QED
    BY <2>3, <2>4
<1>. QED
  BY <1>5 DEF NoneFits

\* Nor one with a second fmt chunk before the samples.
LEMMA SecondFmt ==
  ASSUME NEW chunks \in Seq(WavChunk), NEW size \in Int, NEW k \in Nat, k < Len(chunks),
         Plain(chunks, k, "data"), NEW i \in 1..k, chunks[i].tag = "fmt", chunks[k + 1].tag = "fmt"
  PROVE  NoneFits(chunks, size)
<1>0. k \in 0..Len(chunks)
  OBVIOUS
<1>1. ASSUME NEW d \in 1..Len(chunks), FitsAt(chunks, size, d) PROVE FALSE
  <2>1. d > k /\ chunks[d].tag = "data"
    BY <1>0, <1>1, FitsLater DEF FitsAt
  <2>2. d # k + 1
    BY <2>1
  <2>3. i \in 1..(d - 1) /\ k + 1 \in 1..(d - 1) /\ i # k + 1
    BY <2>1, <2>2
  <2>4. PICK j \in 1..(d - 1) : Only(chunks, d - 1, j)
    BY <1>1 DEF FitsAt
  <2>5. i = j /\ k + 1 = j
    BY <2>3, <2>4 DEF Only
  <2>. QED
    BY <2>3, <2>5
<1>. QED
  BY <1>1 DEF NoneFits

\* Nor one whose fmt chunk is not of the one format.
LEMMA BadFmt ==
  ASSUME NEW chunks \in Seq(WavChunk), NEW size \in Int, NEW k \in Nat, k < Len(chunks),
         Plain(chunks, k, "data"), chunks[k + 1].tag = "fmt",
         ~(chunks[k + 1].len >= 16 /\ chunks[k + 1].format = "pcm16")
  PROVE  NoneFits(chunks, size)
<1>0. k \in 0..Len(chunks)
  OBVIOUS
<1>1. ASSUME NEW d \in 1..Len(chunks), FitsAt(chunks, size, d) PROVE FALSE
  <2>1. d > k /\ chunks[d].tag = "data"
    BY <1>0, <1>1, FitsLater DEF FitsAt
  <2>2. d # k + 1
    BY <2>1
  <2>3. k + 1 \in 1..(d - 1)
    BY <2>1, <2>2
  <2>4. PICK j \in 1..(d - 1) : Only(chunks, d - 1, j)
    BY <1>1 DEF FitsAt
  <2>5. k + 1 = j
    BY <2>3, <2>4 DEF Only
  <2>. QED
    BY <2>4, <2>5 DEF Only
<1>. QED
  BY <1>1 DEF NoneFits

\* Nor one whose samples come before the format.
LEMMA DataBeforeFmt ==
  ASSUME NEW chunks \in Seq(WavChunk), NEW size \in Int, NEW k \in Nat, k < Len(chunks),
         Plain(chunks, k, "data"), Plain(chunks, k, "fmt"), chunks[k + 1].tag = "data"
  PROVE  NoneFits(chunks, size)
<1>0. k \in 0..Len(chunks)
  OBVIOUS
<1>1. ASSUME NEW d \in 1..Len(chunks), FitsAt(chunks, size, d) PROVE FALSE
  <2>1. d > k
    BY <1>0, <1>1, FitsLater
  <2>2. CASE d = k + 1
    <3>1. d - 1 = k
      BY <2>2
    <3>2. PICK j \in 1..k : Only(chunks, k, j)
      BY <1>1, <3>1 DEF FitsAt
    <3>3. chunks[j].tag = "fmt"
      BY <3>2 DEF Only
    <3>. QED
      BY <3>3 DEF Plain
  <2>3. CASE d # k + 1
    <3>1. k + 1 \in 1..(d - 1)
      BY <2>1, <2>3
    <3>2. Plain(chunks, d - 1, "data")
      BY <1>1 DEF FitsAt
    <3>. QED
      BY <3>1, <3>2 DEF Plain
  <2>. QED
    BY <2>2, <2>3
<1>. QED
  BY <1>1 DEF NoneFits

\* Two chunks cannot both be what a reader looks for.
LEMMA OneFits ==
  ASSUME NEW chunks \in Seq(WavChunk), NEW size, NEW d \in 1..Len(chunks), NEW e \in 1..Len(chunks),
         FitsAt(chunks, size, d), FitsAt(chunks, size, e)
  PROVE  d = e
<1>1. chunks[d].tag = "data" /\ chunks[e].tag = "data" /\ Plain(chunks, d - 1, "data")
      /\ Plain(chunks, e - 1, "data")
  BY DEF FitsAt
<1>2. ~(d < e)
  <2>1. d < e => d \in 1..(e - 1)
    OBVIOUS
  <2>. QED
    BY <1>1, <2>1 DEF Plain
<1>3. ~(e < d)
  <2>1. e < d => e \in 1..(d - 1)
    OBVIOUS
  <2>. QED
    BY <1>1, <2>1 DEF Plain
<1>. QED
  BY <1>2, <1>3

-----------------------------------------------------------------------------
(* WavReader: what is known after some chunks *)

\* A reader that goes on after k chunks, one that has found the samples, and one that
\* has stopped before a file in which there are none to find.
Running(chunks, k, st) ==
  /\ st.end = FALSE /\ st.data = FALSE /\ st.error = "" /\ st.pos = 12 + End(chunks, k)
  /\ Plain(chunks, k, "data")
  /\ st.fmt => \E i \in 1..k : Only(chunks, k, i)
  /\ ~st.fmt => Plain(chunks, k, "fmt")

FoundAt(chunks, size, st, d) ==
  FitsAt(chunks, size, d) /\ st.off = 20 + End(chunks, d - 1) /\ st.samples = chunks[d].len \div 2

Found(chunks, size, st) ==
  /\ st.end = TRUE /\ st.data = TRUE /\ st.error = ""
  /\ \E d \in 1..Len(chunks) : FoundAt(chunks, size, st, d)

Stopped(chunks, size, st) == st.end = TRUE /\ st.data = FALSE /\ NoneFits(chunks, size)

Reads(chunks, size, k, st) ==
  Running(chunks, k, st) \/ Found(chunks, size, st) \/ Stopped(chunks, size, st)

\* A reader at the end of the file has stopped.
LEMMA EndsStopped ==
  ASSUME NEW chunks, NEW size, NEW k, NEW st \in Reading, st.data = FALSE, NoneFits(chunks, size),
         NEW n, n = [st EXCEPT !.end = TRUE]
  PROVE  Reads(chunks, size, k, n)
BY DEF Reads, Stopped, Reading

\* A reader that gives up has stopped.
LEMMA FailsStopped ==
  ASSUME NEW chunks, NEW size, NEW k, NEW st \in Reading, st.data = FALSE, NoneFits(chunks, size),
         NEW n, NEW why, n = Fail(st, why)
  PROVE  Reads(chunks, size, k, n)
BY DEF Reads, Stopped, Fail, Reading

\* One more chunk that has no samples leaves what is known of those before it.
LEMMA PlainMore ==
  ASSUME NEW chunks, NEW k \in Nat, NEW tag, Plain(chunks, k, tag), chunks[k + 1].tag # tag
  PROVE  Plain(chunks, k + 1, tag)
<1>1. ASSUME NEW i \in 1..(k + 1) PROVE i \in 1..k \/ i = k + 1
  OBVIOUS
<1>. QED
  BY <1>1 DEF Plain

\* A chunk that is no fmt chunk leaves the one before it the only one.
LEMMA OnlyMore ==
  ASSUME NEW chunks, NEW k \in Nat, NEW i \in 1..k, Only(chunks, k, i), chunks[k + 1].tag # "fmt"
  PROVE  Only(chunks, k + 1, i)
<1>1. ASSUME NEW j \in 1..(k + 1) PROVE j \in 1..k \/ j = k + 1
  OBVIOUS
<1>2. i # k + 1
  OBVIOUS
<1>. QED
  BY <1>1, <1>2 DEF Only

\* The first fmt chunk is the only one so far.
LEMMA OnlyFirst ==
  ASSUME NEW chunks, NEW k \in Nat, Plain(chunks, k, "fmt"), chunks[k + 1].tag = "fmt",
         chunks[k + 1].len >= 16, chunks[k + 1].format = "pcm16"
  PROVE  Only(chunks, k + 1, k + 1)
<1>1. ASSUME NEW j \in 1..(k + 1) PROVE (j \in 1..k /\ j # k + 1) \/ j = k + 1
  OBVIOUS
<1>. QED
  BY <1>1 DEF Only, Plain

\* A reader that goes on, at one more chunk: it goes on, has found the samples, or gives up
\* where there are none to be found.
LEMMA OneChunkRead ==
  ASSUME NEW chunks \in Seq(WavChunk), NEW size \in Int, NEW k \in Nat, k < Len(chunks),
         NEW st \in Reading, Running(chunks, k, st)
  PROVE  Reads(chunks, size, k + 1, ReadChunk(st, chunks[k + 1], size))
<1>. DEFINE c == chunks[k + 1]  n == ReadChunk(st, c, size)  e == End(chunks, k)  s == ChunkSize(c)
            l == c.len  x == st.pos  p == 12 + End(chunks, k + 1)
<1>0. k + 1 \in 1..Len(chunks) /\ k \in 0..Len(chunks) /\ k + 1 \in 0..Len(chunks)
      /\ k + 1 \in 1..(k + 1) /\ (k + 1) - 1 = k
  OBVIOUS
<1>1. c \in WavChunk
  BY <1>0, ElementOfSeq
<1>2. c.tag \in {"fmt", "data", "other"} /\ l \in Nat
  BY <1>1 DEF WavChunk
<1>3. NextEnd(chunks, k)
  BY EndGrows
<1>4. e \in Nat /\ End(chunks, k + 1) = e + s /\ s \in Nat
  BY <1>1, <1>3, ChunkSizeType DEF NextEnd
<1>5. st.end = FALSE /\ st.data = FALSE /\ st.error = "" /\ x = 12 + e
  BY DEF Running
<1>a. Plain(chunks, k, "data")
  BY DEF Running
<1>b. st.fmt => \E i \in 1..k : Only(chunks, k, i)
  BY DEF Running
<1>c. ~st.fmt => Plain(chunks, k, "fmt")
  BY DEF Running
<1>d. st.fmt \in BOOLEAN
  BY DEF Reading
<1>. DEFINE small == x + 8 > size  cut == x + 8 + l > size
<1>r. n = IF st.end \/ small THEN [st EXCEPT !.end = TRUE]
          ELSE IF cut THEN Fail(st, "truncated")
          ELSE IF c.tag = "fmt" THEN ReadFmt(st, c)
          ELSE IF c.tag = "other" THEN [st EXCEPT !.pos = x + s]
          ELSE IF ~st.fmt THEN Fail(st, "data before fmt")
          ELSE [st EXCEPT !.end = TRUE, !.data = TRUE, !.off = x + 8, !.samples = l \div 2]
  BY Zenon DEF ReadChunk
<1>f. ReadFmt(st, c) =
          IF st.fmt THEN Fail(st, "two fmt")
          ELSE IF l < 16 THEN Fail(st, "short fmt")
          ELSE IF c.format # "pcm16" THEN Fail(st, c.format)
          ELSE [st EXCEPT !.fmt = TRUE, !.pos = x + s]
  BY Zenon DEF ReadFmt
<1>. HIDE DEF n, e, s, l
<1>x. x = 12 + e
  BY <1>5
<1>. HIDE DEF x
<1>y. x \in Nat
  BY <1>4, <1>x
<1>6. x + s = p
  <2>1. 12 + (e + s) = (12 + e) + s
    BY <1>4
  <2>. QED
    BY <1>4, <1>x, <2>1
<1>. HIDE DEF p
<1>7. CASE small
  <2>1. NoneFits(chunks, size)
    <3>1. 12 + End(chunks, k) + 8 > size
      BY <1>5, <1>7 DEF e
    <3>. QED
      BY <1>0, <1>a, <3>1, TooShort
  <2>2. n = [st EXCEPT !.end = TRUE]
    BY <1>7, <1>r
  <2>. QED
    BY <1>5, <2>1, <2>2, EndsStopped DEF n
<1>8. CASE ~small /\ cut
  <2>1. NoneFits(chunks, size)
    <3>1. 12 + End(chunks, k) + 8 + chunks[k + 1].len > size
      BY <1>5, <1>8 DEF e, l
    <3>. QED
      BY <1>a, <3>1, Truncated
  <2>2. n = Fail(st, "truncated")
    BY <1>5, <1>8, <1>r
  <2>. QED
    BY <1>5, <2>1, <2>2, FailsStopped DEF n
<1>9. CASE ~small /\ ~cut /\ c.tag = "fmt"
  <2>0. n = ReadFmt(st, c)
    BY <1>5, <1>9, <1>r
  <2>1. CASE st.fmt
    <3>1. PICK i \in 1..k : Only(chunks, k, i)
      BY <1>b, <2>1
    <3>2. chunks[i].tag = "fmt"
      BY <3>1 DEF Only
    <3>3. NoneFits(chunks, size)
      BY <1>a, <1>9, <3>2, SecondFmt
    <3>4. n = Fail(st, "two fmt")
      BY <2>0, <2>1, <1>f
    <3>. QED
      BY <1>5, <3>3, <3>4, FailsStopped DEF n
  <2>2. CASE ~st.fmt /\ ~(l >= 16 /\ c.format = "pcm16")
    <3>1. NoneFits(chunks, size)
      BY <1>a, <1>9, <2>2, BadFmt DEF l
    <3>2. \E why : n = Fail(st, why)
      <4>1. CASE l < 16
        BY <2>0, <2>2, <1>f, <4>1
      <4>2. CASE ~(l < 16) /\ c.format # "pcm16"
        BY <2>0, <2>2, <1>f, <4>2
      <4>. QED
        BY <1>2, <2>2, <4>1, <4>2
    <3>. QED
      BY <1>5, <3>1, <3>2, FailsStopped DEF n
  <2>3. CASE ~st.fmt /\ l >= 16 /\ c.format = "pcm16"
    <3>0. ~(l < 16)
      BY <1>2, <2>3
    <3>1. n = [st EXCEPT !.fmt = TRUE, !.pos = p]
      BY <1>6, <1>f, <2>0, <2>3, <3>0
    <3>2. n.end = FALSE /\ n.data = FALSE /\ n.error = "" /\ n.pos = p /\ n.fmt = TRUE
      BY <1>5, <3>1 DEF Reading
    <3>3. Only(chunks, k + 1, k + 1)
      BY <1>c, <1>9, <2>3, OnlyFirst DEF l
    <3>4. Plain(chunks, k + 1, "data")
      BY <1>a, <1>9, PlainMore
    <3>5. Running(chunks, k + 1, n)
      BY <1>0, <3>2, <3>3, <3>4 DEF Running, p
    <3>. QED
      BY <3>5 DEF Reads, n
  <2>. QED
    BY <1>d, <2>1, <2>2, <2>3
<1>10. CASE ~small /\ ~cut /\ c.tag = "other"
  <2>1. n = [st EXCEPT !.pos = p]
    BY <1>5, <1>6, <1>r, <1>10
  <2>2. n.end = FALSE /\ n.data = FALSE /\ n.error = "" /\ n.pos = p /\ n.fmt = st.fmt
    BY <1>5, <2>1 DEF Reading
  <2>3. Plain(chunks, k + 1, "data")
    BY <1>a, <1>10, PlainMore
  <2>4. ASSUME n.fmt PROVE \E i \in 1..(k + 1) : Only(chunks, k + 1, i)
    <3>1. PICK i \in 1..k : Only(chunks, k, i)
      BY <1>b, <2>2, <2>4
    <3>2. i \in 1..(k + 1)
      OBVIOUS
    <3>3. Only(chunks, k + 1, i)
      BY <1>10, <3>1, OnlyMore
    <3>. QED
      BY <3>2, <3>3
  <2>5. ASSUME ~n.fmt PROVE Plain(chunks, k + 1, "fmt")
    BY <1>c, <1>10, <2>2, <2>5, PlainMore
  <2>6. Running(chunks, k + 1, n)
    BY <2>2, <2>3, <2>4, <2>5 DEF Running, p
  <2>. QED
    BY <2>6 DEF Reads, n
<1>11. CASE ~small /\ ~cut /\ c.tag = "data" /\ ~st.fmt
  <2>1. NoneFits(chunks, size)
    BY <1>a, <1>c, <1>11, DataBeforeFmt
  <2>2. n = Fail(st, "data before fmt")
    BY <1>5, <1>r, <1>11
  <2>. QED
    BY <1>5, <2>1, <2>2, FailsStopped DEF n
<1>12. CASE ~small /\ ~cut /\ c.tag = "data" /\ st.fmt
  <2>. DEFINE o == x + 8  h == l \div 2
  <2>1. n = [st EXCEPT !.end = TRUE, !.data = TRUE, !.off = o, !.samples = h]
    BY <1>5, <1>r, <1>12
  <2>2. o = 20 + e
    BY <1>4, <1>x
  <2>3. o + l <= size
    BY <1>2, <1>12, <1>y
  <2>. HIDE DEF o, h
  <2>4. n.end = TRUE /\ n.data = TRUE /\ n.error = "" /\ n.off = o /\ n.samples = h
    BY <1>5, <2>1 DEF Reading
  <2>5. \E i \in 1..k : Only(chunks, k, i)
    BY <1>b, <1>12
  <2>6. 20 + End(chunks, k) + chunks[k + 1].len <= size
    BY <2>2, <2>3 DEF e, l
  <2>7. FitsAt(chunks, size, k + 1)
    BY <1>0, <1>a, <1>12, <2>5, <2>6, Zenon DEF FitsAt
  <2>8. FoundAt(chunks, size, n, k + 1)
    BY <1>0, <2>2, <2>4, <2>7 DEF FoundAt, h, e, l
  <2>9. Found(chunks, size, n)
    BY <1>0, <2>4, <2>8 DEF Found
  <2>. QED
    BY <2>9 DEF Reads, n
<1>. HIDE DEF small, cut
<1>. QED
  BY <1>2, <1>d, <1>7, <1>8, <1>9, <1>10, <1>11, <1>12

\* The invariant of the reader, at one more chunk.
LEMMA ReadsOn ==
  ASSUME NEW chunks \in Seq(WavChunk), NEW size \in Int, NEW k \in Nat, k < Len(chunks),
         NEW st \in Reading, Reads(chunks, size, k, st)
  PROVE  Reads(chunks, size, k + 1, ReadChunk(st, chunks[k + 1], size))
<1>1. CASE Running(chunks, k, st)
  BY <1>1, OneChunkRead
<1>2. CASE Found(chunks, size, st) \/ Stopped(chunks, size, st)
  <2>1. st.end = TRUE
    BY <1>2 DEF Found, Stopped
  <2>2. ReadChunk(st, chunks[k + 1], size) = st
    BY <2>1 DEF ReadChunk, Reading
  <2>. QED
    BY <1>2, <2>2 DEF Reads
<1>. QED
  BY <1>1, <1>2 DEF Reads

ReadSofar(chunks, size, k) ==
  /\ HasRead(SubSeq(chunks, 1, k), size) \in Reading
  /\ Reads(chunks, size, k, HasRead(SubSeq(chunks, 1, k), size))

\* It holds after any number of chunks.
LEMMA ChunksSofar ==
  ASSUME NEW chunks \in Seq(WavChunk), NEW size \in Int
  PROVE  \A k \in 0..Len(chunks) : ReadSofar(chunks, size, k)
<1>. DEFINE T == {k \in Nat : ReadSofar(chunks, size, k)}  n == Len(chunks)
<1>1. ReadSofar(chunks, size, 0)
  <2>1. SubSeq(chunks, 1, 0) = <<>>
    OBVIOUS
  <2>2. HasRead(<<>>, size) = NothingRead /\ NothingRead \in Reading
    BY HasReadEmpty, ReadFcnType
  <2>3. Running(chunks, 0, NothingRead)
    <3>1. End(chunks, 0) = 0
      BY <2>1, ExtentEmpty DEF End
    <3>2. NothingRead.pos = 12 + End(chunks, 0)
      BY <3>1 DEF NothingRead
    <3>. QED
      BY <3>2 DEF Running, NothingRead, Plain
  <2>. QED
    BY <2>1, <2>2, <2>3 DEF ReadSofar, Reads
<1>2. ASSUME NEW k \in Nat, ReadSofar(chunks, size, k), k < n PROVE ReadSofar(chunks, size, k + 1)
  <2>. DEFINE p == SubSeq(chunks, 1, k)  c == chunks[k + 1]  st == HasRead(p, size)
  <2>1. k + 1 \in 1..n /\ k <= n
    BY <1>2
  <2>2. c \in WavChunk
    BY <2>1, ElementOfSeq
  <2>3. p \in Seq(WavChunk)
    BY <2>1, PrefixType
  <2>4. SubSeq(chunks, 1, k + 1) = Append(p, c)
    BY <1>2, PrefixPlusOne
  <2>5. OneMoreRead(p, c, size)
    BY <2>2, <2>3, HasReadAppend
  <2>6. st \in Reading /\ HasRead(Append(p, c), size) = ReadChunk(st, c, size)
    BY <2>5 DEF OneMoreRead
  <2>7. Reads(chunks, size, k, st)
    BY <1>2 DEF ReadSofar
  <2>8. Reads(chunks, size, k + 1, ReadChunk(st, c, size))
    BY <1>2, <2>6, <2>7, ReadsOn
  <2>9. ReadChunk(st, c, size) \in Reading
    BY <2>2, <2>6, ReadChunkType
  <2>. QED
    BY <2>4, <2>6, <2>8, <2>9 DEF ReadSofar
<1>3. T \subseteq Nat /\ 0 \in T /\ \A k \in T : k < n => k + 1 \in T
  BY <1>1, <1>2
<1>. HIDE DEF T
<1>4. n \in Nat
  OBVIOUS
<1>. HIDE DEF n
<1>5. \A k \in 0..n : k \in T
  BY <1>3, <1>4, BoundInduct
<1>. QED
  BY <1>5 DEF T, n

-----------------------------------------------------------------------------
(* WavReader: every file *)

\* How a whole file is read: the samples that are there to be found, or none.
ReadsAll(chunks, size, r) ==
  /\ (r.error = "" /\ r.data) => \E d \in 1..Len(chunks) : FoundAt(chunks, size, r, d)
  /\ ~(r.error = "" /\ r.data) => NoneFits(chunks, size)

\* At the end of the file the reader has the samples, or there are none.
LEMMA WholeFileRead ==
  ASSUME NEW chunks \in Seq(WavChunk), NEW size \in Int
  PROVE  ReadsAll(chunks, size, HasRead(chunks, size))
<1>. DEFINE n == Len(chunks)  r == HasRead(chunks, size)
<1>1. n \in Nat /\ n \in 0..n /\ SubSeq(chunks, 1, n) = chunks
  OBVIOUS
<1>2. ReadSofar(chunks, size, n)
  BY <1>1, ChunksSofar
<1>3. Reads(chunks, size, n, r)
  BY <1>1, <1>2 DEF ReadSofar
<1>. HIDE DEF r
<1>4. CASE Running(chunks, n, r)
  <2>1. r.data = FALSE /\ Plain(chunks, n, "data")
    BY <1>4 DEF Running
  <2>2. NoneFits(chunks, size)
    BY <2>1 DEF NoneFits, Plain, FitsAt
  <2>. QED
    BY <2>1, <2>2 DEF ReadsAll, r
<1>5. CASE Found(chunks, size, r)
  BY <1>5 DEF Found, ReadsAll, r
<1>6. CASE Stopped(chunks, size, r)
  BY <1>6 DEF Stopped, ReadsAll, r
<1>. QED
  BY <1>3, <1>4, <1>5, <1>6 DEF Reads

\* What WavIsRead says: a chunk to find, and what is found.
Sound(f, d) ==
  /\ f.head = "riff wave" /\ f.chunks[d].tag = "data" /\ \A i \in 1..(d - 1) : f.chunks[i].tag # "data"
  /\ \E i \in 1..(d - 1) :
       /\ \A j \in 1..(d - 1) : f.chunks[j].tag = "fmt" <=> j = i
       /\ f.chunks[i].len >= 16 /\ f.chunks[i].format = "pcm16"
  /\ 20 + Extent(SubSeq(f.chunks, 1, d - 1)) + f.chunks[d].len <= FileSize(f)

SoundlyRead(f, d, r) ==
  r.off = 20 + Extent(SubSeq(f.chunks, 1, d - 1)) /\ r.samples = f.chunks[d].len \div 2

\* WavIsRead, in terms of the chunk that is found.
LEMMA WavIsReadMeans ==
  ASSUME NEW f,
         ReadWav(f).ok <=> \E d \in DOMAIN f.chunks : Sound(f, d),
         \A d \in DOMAIN f.chunks : Sound(f, d) => SoundlyRead(f, d, ReadWav(f))
  PROVE  WavIsRead(f)
BY Zenon DEF WavIsRead, Sound, SoundlyRead

\* The chunk that WavIsRead asks for is the one whose samples can be read.
LEMMA SoundFits ==
  ASSUME NEW f, NEW d
  PROVE  Sound(f, d) <=> f.head = "riff wave" /\ FitsAt(f.chunks, FileSize(f), d)
BY Zenon DEF Sound, FitsAt, Plain, Only, End

\* WavReader (src/libs/common): of any chunks, in any order and cut anywhere, the samples are
\* those of the first data chunk, if it is complete and after one fmt chunk of the one format.
THEOREM EveryRecordingIsRead ==
  ASSUME NEW chunks \in Seq(WavChunk), NEW cut \in Int, NEW head
  PROVE  WavIsRead([head |-> head, cut |-> cut, chunks |-> chunks])
<1>. DEFINE f == [head |-> head, cut |-> cut, chunks |-> chunks]
            size == FileSize(f)
            r == HasRead(chunks, size)
            w == ReadWav(f)
<1>1. f.head = head /\ f.cut = cut /\ f.chunks = chunks /\ DOMAIN f.chunks = 1..Len(chunks)
  OBVIOUS
<1>. HIDE DEF f
<1>2. size \in Int
  <2>1. SubSeq(chunks, 1, Len(chunks)) = chunks /\ Len(chunks) \in 0..Len(chunks)
    OBVIOUS
  <2>2. Extent(chunks) \in Nat
    BY <2>1, EndType DEF End
  <2>. QED
    BY <1>1, <2>2 DEF FileSize
<1>3. FoldLeft(LAMBDA st, c : ReadChunk(st, c, size), NothingRead, chunks) = r
  BY <1>2, HasReadIsFold, Zenon
<1>4. w = CASE size < 12 -> [ok |-> FALSE, error |-> "too short"]
            [] size >= 12 /\ f.head # "riff wave" -> [ok |-> FALSE, error |-> f.head]
            [] OTHER -> IF r.error = "" /\ r.data
                          THEN [ok |-> TRUE, off |-> r.off, samples |-> r.samples]
                          ELSE [ok |-> FALSE,
                                error |-> IF r.error # "" THEN r.error
                                          ELSE IF ~r.fmt THEN "no fmt" ELSE "no data"]
  BY <1>1, <1>3, Zenon DEF ReadWav
<1>5. ReadsAll(chunks, size, r)
  BY <1>2, WholeFileRead
<1>6. \A d \in 1..Len(chunks) : Sound(f, d) <=> head = "riff wave" /\ FitsAt(chunks, size, d)
  BY <1>1, SoundFits
<1>. HIDE DEF size, r, w
<1>7. CASE size < 12 \/ head # "riff wave"
  <2>1. w.ok = FALSE
    <3>1. CASE size < 12
      BY <1>4, <3>1
    <3>2. CASE ~(size < 12)
      <4>1. size >= 12
        BY <1>2, <3>2
      <4>2. w = [ok |-> FALSE, error |-> head]
        BY <1>1, <1>4, <1>7, <3>2, <4>1
      <4>. QED
        BY <4>2
    <3>. QED
      BY <3>1, <3>2
  <2>2. \A d \in 1..Len(chunks) : ~Sound(f, d)
    <3>1. CASE size < 12
      <4>1. End(chunks, 0) \in Nat /\ 0 \in 0..Len(chunks)
        BY EndType
      <4>2. End(chunks, 0) = 0
        <5>1. SubSeq(chunks, 1, 0) = <<>>
          OBVIOUS
        <5>. QED
          BY <5>1, ExtentEmpty DEF End
      <4>3. 12 + End(chunks, 0) + 8 > size
        BY <1>2, <3>1, <4>2
      <4>4. Plain(chunks, 0, "data")
        BY DEF Plain
      <4>5. NoneFits(chunks, size)
        BY <1>2, <4>1, <4>3, <4>4, TooShort
      <4>. QED
        BY <1>6, <4>5 DEF NoneFits
    <3>2. CASE head # "riff wave"
      BY <1>6, <3>2
    <3>. QED
      BY <1>7, <3>1, <3>2
  <2>. QED
    BY <1>1, <2>1, <2>2, WavIsReadMeans DEF w, f
<1>8. CASE ~(size < 12) /\ head = "riff wave"
  <2>0. w = IF r.error = "" /\ r.data
              THEN [ok |-> TRUE, off |-> r.off, samples |-> r.samples]
              ELSE [ok |-> FALSE,
                    error |-> IF r.error # "" THEN r.error ELSE IF ~r.fmt THEN "no fmt" ELSE "no data"]
    BY <1>1, <1>4, <1>8
  <2>1. CASE r.error = "" /\ r.data
    <3>1. w = [ok |-> TRUE, off |-> r.off, samples |-> r.samples]
      BY <2>0, <2>1
    <3>2. w.ok = TRUE /\ w.off = r.off /\ w.samples = r.samples
      BY <3>1
    <3>3. PICK d \in 1..Len(chunks) : FoundAt(chunks, size, r, d)
      BY <1>5, <2>1 DEF ReadsAll
    <3>4. FitsAt(chunks, size, d) /\ SoundlyRead(f, d, w)
      BY <1>1, <3>2, <3>3 DEF FoundAt, SoundlyRead, End
    <3>5. Sound(f, d)
      BY <1>6, <1>8, <3>4
    <3>6. ASSUME NEW x \in 1..Len(chunks), Sound(f, x) PROVE SoundlyRead(f, x, w)
      <4>1. FitsAt(chunks, size, x)
        BY <1>6, <3>6
      <4>2. x = d
        BY <3>4, <4>1, OneFits
      <4>. QED
        BY <3>4, <4>2
    <3>. QED
      BY <1>1, <3>2, <3>5, <3>6, WavIsReadMeans DEF w, f
  <2>2. CASE ~(r.error = "" /\ r.data)
    <3>1. w.ok = FALSE
      BY <2>0, <2>2
    <3>2. NoneFits(chunks, size)
      BY <1>5, <2>2 DEF ReadsAll
    <3>3. \A d \in 1..Len(chunks) : ~Sound(f, d)
      BY <1>6, <3>2 DEF NoneFits
    <3>. QED
      BY <1>1, <3>1, <3>3, WavIsReadMeans DEF w, f
  <2>. QED
    BY <2>1, <2>2
<1>. QED
  BY <1>7, <1>8

-----------------------------------------------------------------------------
(* MessageEnvelope: conversions *)

\* What comes of an envelope that is sent: what is not UTF-8 is replaced.
Arrived(env) ==
  [version |-> Version, type |-> env.type, work_id |-> Replace(env.work_id),
   request_id |-> Replace(env.request_id), session_id |-> Replace(env.session_id),
   index |-> env.index, timestamp_ms |-> env.timestamp_ms, finish |-> env.finish,
   payload |-> Written(env.payload),
   error |-> [code |-> env.error.code, message |-> Replace(env.error.message)]]

Accepted(env) == [ok |-> TRUE, env |-> env]

\* A value of a type has the type and the value.
LEMMA Literals ==
  ASSUME NEW x
  PROVE  /\ Str(x).t = "str" /\ Str(x).v = x /\ Num(x).t = "int" /\ Num(x).v = x
         /\ Bool(x).t = "bool" /\ Bool(x).v = x
BY DEF Str, Num, Bool

\* A value converts to its own type as it is.
LEMMA Conversions ==
  ASSUME NEW j
  PROVE  /\ j.t = "str" => Convert(j, "str") = j.v
         /\ j.t = "int" /\ j.v # Wide => Convert(j, "int") = j.v
         /\ j.t = "int" => Convert(j, "int64") = j.v
         /\ j.t = "bool" => Convert(j, "bool") = j.v
         /\ Convert(j, "str") = j.v \/ Convert(j, "str") = "1"
         /\ Convert(j, "int") # Wide
<1>1. ASSUME NEW as, as # "int", j.t # "float" PROVE Convert(j, as) = j.v
  BY <1>1 DEF Convert
<1>2. ASSUME j.t # "bool", j.t # "float" PROVE Convert(j, "int") = Narrow(j.v)
  BY <1>2 DEF Convert
<1>3. CASE j.t = "float"
  BY <1>3 DEF Convert, Wide
<1>4. ASSUME NEW n PROVE Narrow(n) # Wide /\ (n # Wide => Narrow(n) = n)
  BY DEF Narrow, Wide
<1>5. j.t = "bool" => Convert(j, "int") \in {"0", "1"}
  BY DEF Convert
<1>6. Convert(j, "int") # Wide
  <2>1. CASE j.t = "bool" BY <1>5, <2>1 DEF Wide
  <2>2. CASE j.t # "bool" /\ j.t # "float" BY <1>2, <1>4, <2>2
  <2>. QED BY <1>3, <2>1, <2>2
<1>7. j.t = "int" /\ j.v # Wide => Convert(j, "int") = j.v
  BY <1>2, <1>4
<1>8. j.t = "str" \/ j.t = "int" \/ j.t = "bool" => j.t # "float"
  OBVIOUS
<1>. QED
  BY <1>1, <1>3, <1>6, <1>7, <1>8

\* What from_json takes an object for that has nothing wrong with it.
TakenFor(obj) ==
  [version |-> Version, type |-> obj.type.v,
   work_id |-> Value(obj, "work_id", "str", ""),
   request_id |-> Value(obj, "request_id", "str", ""),
   session_id |-> Value(obj, "session_id", "str", ""),
   index |-> Value(obj, "index", "int64", "-1"),
   timestamp_ms |-> Value(obj, "timestamp_ms", "int64", "-1"),
   finish |-> Value(obj, "finish", "bool", "false"),
   payload |-> IF "payload" \in DOMAIN obj THEN obj.payload ELSE [t |-> "obj", v |-> ""],
   error |-> IF "error" \in DOMAIN obj /\ obj.error.t = "obj"
               THEN [code |-> Value(obj.error, "code", "int", "0"),
                     message |-> Value(obj.error, "message", "str", "")]
               ELSE [code |-> "0", message |-> ""]]

BadFields(obj) ==
  Mistyped(obj, Fields)
    \/ (("error" \in DOMAIN obj /\ obj.error.t = "obj") /\ Mistyped(obj.error, ErrorFields))

\* FromJson, its refusals in order.
LEMMA FromJsonIs ==
  ASSUME NEW obj
  PROVE  FromJson(obj) =
           IF ~Fits(obj) THEN Refuse("oversized")
           ELSE IF Mistyped(obj, [version |-> "int"]) THEN Refuse("invalid_json")
           ELSE IF Value(obj, "version", "int", "0") # Version THEN Refuse("unknown_version")
           ELSE IF "type" \notin DOMAIN obj THEN Refuse("missing_field")
           ELSE IF obj.type.t # "str" THEN Refuse("invalid_json")
           ELSE IF obj.type.v \notin TypeNames THEN Refuse("invalid_type")
           ELSE IF BadFields(obj) THEN Refuse("invalid_json")
           ELSE Accepted(TakenFor(obj))
BY Zenon DEF FromJson, BadFields, Accepted, TakenFor

-----------------------------------------------------------------------------
(* MessageEnvelope: there and back *)

\* Every type converts to itself.
LEMMA ConvertsAre ==
  /\ "str" \in Converts["str"] /\ "int" \in Converts["int"] /\ "int" \in Converts["int64"]
  /\ "bool" \in Converts["bool"]
BY DEF Converts

\* A field that is there is converted.
LEMMA ValueIs ==
  ASSUME NEW obj, NEW f \in DOMAIN obj, NEW as, NEW default
  PROVE  Value(obj, f, as, default) = Convert(obj[f], as)
BY DEF Value

\* What ToJson makes is taken by FromJson, with every field as it was.
LEMMA BuiltIsTaken ==
  ASSUME NEW env, env.version = Version, env.type \in TypeNames, ToJson(env).ok,
         env.error.code # Wide
  PROVE  FromJson(ToJson(env).obj) = Accepted(Arrived(env))
<1>. DEFINE o == ToJson(env).obj
            full == [t |-> "obj", v |-> "", code |-> Num(env.error.code),
                     message |-> Str(Replace(env.error.message))]
            err == IF NoError(env.error) THEN [t |-> "obj", v |-> ""] ELSE full
            names == {"version", "type", "finish", "work_id", "request_id", "session_id", "index",
                      "timestamp_ms", "payload", "error"}
<1>1. o = [version |-> Num(env.version), type |-> Str(env.type), finish |-> Bool(env.finish),
           work_id |-> Str(Replace(env.work_id)), request_id |-> Str(Replace(env.request_id)),
           session_id |-> Str(Replace(env.session_id)),
           index |-> Num(env.index), timestamp_ms |-> Num(env.timestamp_ms),
           payload |-> Written(env.payload), error |-> err]
  BY DEF ToJson
<1>5. Fits(o)
  BY DEF ToJson
<1>. HIDE DEF o
<1>2. DOMAIN o = names
  BY <1>1
<1>3. /\ o.version = Num(env.version) /\ o.type = Str(env.type) /\ o.finish = Bool(env.finish)
      /\ o.work_id = Str(Replace(env.work_id)) /\ o.request_id = Str(Replace(env.request_id))
      /\ o.session_id = Str(Replace(env.session_id))
      /\ o.index = Num(env.index) /\ o.timestamp_ms = Num(env.timestamp_ms)
      /\ o.payload = Written(env.payload) /\ o.error = err
  BY <1>1
<1>4. /\ err.t = "obj"
      /\ ~NoError(env.error) =>
           /\ DOMAIN err = {"t", "v", "code", "message"}
           /\ err.code = Num(env.error.code) /\ err.message = Str(Replace(env.error.message))
      /\ NoError(env.error) => DOMAIN err = {"t", "v"}
  <2>1. CASE NoError(env.error) BY <2>1
  <2>2. CASE ~NoError(env.error)
    <3>1. err = full BY <2>2
    <3>2. /\ DOMAIN full = {"t", "v", "code", "message"} /\ full.t = "obj"
          /\ full.code = Num(env.error.code) /\ full.message = Str(Replace(env.error.message))
      OBVIOUS
    <3>. HIDE DEF err, full
    <3>. QED BY <2>2, <3>1, <3>2
  <2>. QED BY <2>1, <2>2
<1>. HIDE DEF err, full
<1>6. ~Mistyped(o, [version |-> "int"])
  BY <1>3, Literals, ConvertsAre DEF Mistyped
<1>7. Value(o, "version", "int", "0") = Version
  <2>1. Version # Wide
    BY DEF Version, Wide
  <2>. QED
    BY <1>2, <1>3, <2>1, Literals, Conversions DEF Value
<1>8. "type" \in DOMAIN o /\ o.type.t = "str" /\ o.type.v = env.type
  BY <1>2, <1>3, Literals
<1>9. ~Mistyped(o, Fields)
  <2>1. DOMAIN Fields = {"work_id", "request_id", "session_id", "index", "timestamp_ms", "finish"}
        /\ Fields["work_id"] = "str" /\ Fields["request_id"] = "str" /\ Fields["session_id"] = "str"
        /\ Fields["index"] = "int64" /\ Fields["timestamp_ms"] = "int64" /\ Fields["finish"] = "bool"
    BY DEF Fields
  <2>2. ASSUME NEW f \in DOMAIN Fields PROVE o[f].t \in Converts[Fields[f]]
    <3>1. CASE f = "work_id"
      BY <1>3, <2>1, <3>1, Literals, ConvertsAre
    <3>2. CASE f = "request_id"
      BY <1>3, <2>1, <3>2, Literals, ConvertsAre
    <3>3. CASE f = "session_id"
      BY <1>3, <2>1, <3>3, Literals, ConvertsAre
    <3>4. CASE f = "index"
      BY <1>3, <2>1, <3>4, Literals, ConvertsAre
    <3>5. CASE f = "timestamp_ms"
      BY <1>3, <2>1, <3>5, Literals, ConvertsAre
    <3>6. CASE f = "finish"
      BY <1>3, <2>1, <3>6, Literals, ConvertsAre
    <3>. QED
      BY <2>1, <3>1, <3>2, <3>3, <3>4, <3>5, <3>6
  <2>. QED
    BY <2>2 DEF Mistyped
<1>10. ~Mistyped(err, ErrorFields)
  <2>1. DOMAIN ErrorFields = {"code", "message"} /\ ErrorFields["code"] = "int"
        /\ ErrorFields["message"] = "str"
    BY DEF ErrorFields
  <2>2. ~NoError(env.error) =>
          /\ err["code"].t \in Converts[ErrorFields["code"]]
          /\ err["message"].t \in Converts[ErrorFields["message"]]
    BY <1>4, <2>1, Literals, ConvertsAre
  <2>. QED
    BY <1>4, <2>1, <2>2 DEF Mistyped
<1>11. ~BadFields(o)
  BY <1>3, <1>9, <1>10 DEF BadFields
<1>12. FromJson(o) = Accepted(TakenFor(o))
  BY <1>5, <1>6, <1>7, <1>8, <1>11, FromJsonIs
<1>13. /\ Value(o, "work_id", "str", "") = Replace(env.work_id)
       /\ Value(o, "request_id", "str", "") = Replace(env.request_id)
       /\ Value(o, "session_id", "str", "") = Replace(env.session_id)
  BY <1>2, <1>3, Literals, Conversions DEF Value
<1>14. /\ Value(o, "index", "int64", "-1") = env.index
       /\ Value(o, "timestamp_ms", "int64", "-1") = env.timestamp_ms
       /\ Value(o, "finish", "bool", "false") = env.finish
  BY <1>2, <1>3, Literals, Conversions DEF Value
<1>15. /\ Value(err, "code", "int", "0") = env.error.code
       /\ Value(err, "message", "str", "") = Replace(env.error.message)
  <2>1. CASE ~NoError(env.error)
    BY <1>4, <2>1, Literals, Conversions DEF Value
  <2>2. CASE NoError(env.error)
    <3>1. env.error.code = "0" /\ env.error.message = ""
      BY <2>2 DEF NoError
    <3>2. Replace("") = ""
      BY DEF Replace
    <3>3. "code" \notin DOMAIN err /\ "message" \notin DOMAIN err
      BY <1>4, <2>2
    <3>. QED
      BY <3>1, <3>2, <3>3 DEF Value
  <2>. QED
    BY <2>1, <2>2
<1>16. /\ "payload" \in DOMAIN o /\ o.payload = Written(env.payload)
       /\ "error" \in DOMAIN o /\ o.error = err /\ err.t = "obj"
  BY <1>2, <1>3, <1>4
<1>17. TakenFor(o) = Arrived(env)
  BY <1>8, <1>13, <1>14, <1>15, <1>16 DEF TakenFor, Arrived
<1>. QED
  BY <1>12, <1>17 DEF o

\* An object of strings that are UTF-8.
NotBad(obj) ==
  /\ \A f \in {"work_id", "request_id", "session_id", "payload"} :
       f \in DOMAIN obj => obj[f].v # "bad"
  /\ "error" \in DOMAIN obj /\ "message" \in DOMAIN obj.error => obj.error.message.v # "bad"

\* A string that is UTF-8 is not replaced.
LEMMA ValueNotBad ==
  ASSUME NEW obj, NEW f, f \in DOMAIN obj => obj[f].v # "bad"
  PROVE  Replace(Value(obj, f, "str", "")) = Value(obj, f, "str", "")
<1>1. Value(obj, f, "str", "") # "bad"
  BY Conversions DEF Value
<1>. QED
  BY <1>1 DEF Replace

Codes == {"oversized", "invalid_json", "unknown_version", "missing_field", "invalid_type"}

\* MessageEnvelope (src/libs/protocol): whatever is received is refused in an orderly way, or
\* comes back from its own JSON, unless that is too long to be written.
THEOREM EveryMessageRoundTrips ==
  ASSUME NEW obj, NotBad(obj)
  PROVE  EnvelopeRoundTrips(obj)
<1>. DEFINE r == FromJson(obj)  e == TakenFor(obj)
<1>1. (r = Accepted(e) /\ obj.type.v \in TypeNames) \/ \E c \in Codes : r = Refuse(c)
  BY FromJsonIs DEF Codes
<1>2. CASE \E c \in Codes : r = Refuse(c)
  <2>1. PICK c \in Codes : r = Refuse(c)
    BY <1>2
  <2>2. r.ok = FALSE /\ r.code \in Codes
    BY <2>1 DEF Refuse
  <2>. QED
    BY <2>2 DEF EnvelopeRoundTrips, Codes
<1>3. CASE r = Accepted(e) /\ obj.type.v \in TypeNames
  <2>1. r.ok = TRUE /\ r.env = e
    BY <1>3 DEF Accepted
  <2>2. /\ e.version = Version /\ e.type = obj.type.v
        /\ e.payload = (IF "payload" \in DOMAIN obj THEN obj.payload ELSE [t |-> "obj", v |-> ""])
    BY DEF TakenFor
  <2>3. Written(e.payload) = e.payload
    <3>1. [t |-> "obj", v |-> ""].v = ""
      OBVIOUS
    <3>2. CASE "payload" \in DOMAIN obj
      <4>1. e.payload = obj.payload
        BY <2>2, <3>2
      <4>. HIDE DEF e
      <4>. QED
        BY <3>2, <4>1 DEF NotBad, Written
    <3>3. CASE "payload" \notin DOMAIN obj
      <4>1. e.payload = [t |-> "obj", v |-> ""]
        BY <2>2, <3>3
      <4>. HIDE DEF e
      <4>. QED
        BY <3>1, <4>1 DEF Written
    <3>. QED
      BY <3>2, <3>3
  <2>6. e.error.code # Wide
    <3>1. e.error = IF "error" \in DOMAIN obj /\ obj.error.t = "obj"
                      THEN [code |-> Value(obj.error, "code", "int", "0"),
                            message |-> Value(obj.error, "message", "str", "")]
                      ELSE [code |-> "0", message |-> ""]
      BY DEF TakenFor
    <3>2. Value(obj.error, "code", "int", "0") # Wide /\ "0" # Wide
      BY Conversions DEF Value, Wide
    <3>. HIDE DEF e
    <3>. DEFINE given == "error" \in DOMAIN obj /\ obj.error.t = "obj"
                code == Value(obj.error, "code", "int", "0")
                message == Value(obj.error, "message", "str", "")
    <3>3. e.error = IF given THEN [code |-> code, message |-> message]
                    ELSE [code |-> "0", message |-> ""]
      BY <3>1
    <3>4. code # Wide /\ "0" # Wide
      BY <3>2
    <3>. HIDE DEF given, code, message
    <3>5. [code |-> code, message |-> message].code = code /\ [code |-> "0", message |-> ""].code = "0"
      OBVIOUS
    <3>6. CASE given
      BY <3>3, <3>4, <3>5, <3>6
    <3>7. CASE ~given
      BY <3>3, <3>4, <3>5, <3>7
    <3>. QED
      BY <3>6, <3>7
  <2>4. ToJson(e).ok => FromJson(ToJson(e).obj) = Accepted(Arrived(e))
    BY <1>3, <2>2, <2>6, BuiltIsTaken
  <2>5. Arrived(e) = e
    <3>1. /\ e.work_id = Value(obj, "work_id", "str", "")
          /\ e.request_id = Value(obj, "request_id", "str", "")
          /\ e.session_id = Value(obj, "session_id", "str", "")
      BY DEF TakenFor
    <3>2. Replace(e.work_id) = e.work_id /\ Replace(e.request_id) = e.request_id
          /\ Replace(e.session_id) = e.session_id
      BY <3>1, ValueNotBad DEF NotBad
    <3>3. e.error = IF "error" \in DOMAIN obj /\ obj.error.t = "obj"
                      THEN [code |-> Value(obj.error, "code", "int", "0"),
                            message |-> Value(obj.error, "message", "str", "")]
                      ELSE [code |-> "0", message |-> ""]
      BY DEF TakenFor
    <3>4. e.error = [code |-> e.error.code, message |-> Replace(e.error.message)]
      <4>1. CASE "error" \in DOMAIN obj /\ obj.error.t = "obj"
        <5>1. e.error = [code |-> Value(obj.error, "code", "int", "0"),
                         message |-> Value(obj.error, "message", "str", "")]
          BY <3>3, <4>1
        <5>2. Replace(Value(obj.error, "message", "str", "")) = Value(obj.error, "message", "str", "")
          BY <4>1, ValueNotBad DEF NotBad
        <5>. DEFINE err == e.error  code == Value(obj.error, "code", "int", "0")
                    message == Value(obj.error, "message", "str", "")
        <5>. HIDE DEF err, code, message
        <5>3. err = [code |-> code, message |-> message] /\ Replace(message) = message
          BY <5>1, <5>2 DEF err, code, message
        <5>4. err = [code |-> err.code, message |-> Replace(err.message)]
          BY <5>3
        <5>. QED
          BY <5>4 DEF err
      <4>2. CASE ~("error" \in DOMAIN obj /\ obj.error.t = "obj")
        <5>1. e.error = [code |-> "0", message |-> ""]
          BY <3>3, <4>2
        <5>. DEFINE err == e.error
        <5>. HIDE DEF err
        <5>2. err = [code |-> "0", message |-> ""]
          BY <5>1 DEF err
        <5>3. err.code = "0" /\ err.message = ""
          BY <5>2
        <5>4. Replace("") = ""
          BY DEF Replace
        <5>5. err = [code |-> err.code, message |-> Replace(err.message)]
          BY <5>2, <5>3, <5>4
        <5>. QED
          BY <5>5 DEF err
      <4>. QED
        BY <4>1, <4>2
    <3>5. e = [version |-> Version, type |-> e.type, work_id |-> e.work_id, request_id |-> e.request_id,
               session_id |-> e.session_id, index |-> e.index, timestamp_ms |-> e.timestamp_ms,
               finish |-> e.finish, payload |-> e.payload, error |-> e.error]
      BY DEF TakenFor
    <3>. HIDE DEF e
    <3>. QED
      BY <2>3, <3>2, <3>4, <3>5 DEF Arrived
  <2>. HIDE DEF r, e
  <2>7. ToJson(r.env).ok => FromJson(ToJson(r.env).obj) = r
    BY <1>3, <2>1, <2>4, <2>5
  <2>. QED
    BY <2>1, <2>7 DEF EnvelopeRoundTrips, r
<1>. QED
  BY <1>1, <1>2, <1>3

-----------------------------------------------------------------------------
(* Messages made by editing fields *)

EditFcn(D, X) == [p \in D \X X |-> WithEdit(p[1], p[2])]

\* What every edit keeps, any number of edits keep.
LEMMA EditedIsIn ==
  ASSUME NEW D, NEW base \in D, NEW X, input \in Seq(X), \A m \in D, e \in X : WithEdit(m, e) \in D
  PROVE  Edited(base) \in D
<1>. DEFINE F == EditFcn(D, X)
            s == input
            b == base
            Eqn(g) == g = [T \in SUBSET DOMAIN s |->
                             IF T = {} THEN b ELSE WithEdit(g[T \ {Max(T)}], s[Max(T)])]
            G == CHOOSE g : Eqn(g)
<1>0. DOMAIN s = 1..Len(s) /\ s \in Seq(X)
  OBVIOUS
<1>a. F \in [D \X X -> D]
  BY DEF EditFcn
<1>b. b \in D
  OBVIOUS
<1>c. \A x \in D, e \in X : F[<<x, e>>] = WithEdit(x, e)
  BY DEF EditFcn
<1>1. Edited(base) = G[DOMAIN s]
  BY Zenon DEF Edited, FoldLeft, MapThenFoldSet
<1>. HIDE DEF b, F, s
<1>2. PICK h : Unfolds(D, X, F, b, s, h)
  BY <1>0, <1>a, <1>b, FoldStart
<1>. DEFINE q == [T \in SUBSET DOMAIN s |-> h[T]]
<1>3. Eqn(q)
  BY <1>c, <1>2 DEF Unfolds
<1>4. Eqn(G)
  BY <1>3
<1>. HIDE DEF G
<1>5. G[{}] = b
  BY <1>4
<1>6. ASSUME NEW k \in 1..Len(s) PROVE FoldStep(F, D, s, G, k)
  <2>1. /\ (1..k) \in SUBSET DOMAIN s /\ (1..k) # {}
        /\ (1..k) \ {k} = 1..(k - 1) /\ Max(1..k) = k /\ s[k] \in X
    BY <1>0, FirstPositions
  <2>2. G[1..k] = WithEdit(G[1..(k - 1)], s[k])
    BY <2>1, <1>4
  <2>. QED
    BY <2>1, <2>2, <1>c DEF FoldStep
<1>7. Folds(F, D, b, s, G)
  BY <1>5, <1>6 DEF Folds
<1>8. EndsAs(D, F, b, s, G)
  BY <1>0, <1>a, <1>b, <1>7, FoldIsResult
<1>9. Result(D, F, b, s) \in D
  BY <1>0, <1>a, <1>b, ResultType
<1>. QED
  BY <1>0, <1>1, <1>8, <1>9 DEF EndsAs

\* A value that is UTF-8, and the values and fields of messages that may be received.
Readable(v) == v.v # "bad" /\ ("message" \in DOMAIN v => v.message.v # "bad")
Values(base, X) == {base[f] : f \in DOMAIN base} \cup {e.value : e \in X}
FieldsOf(base, X) == DOMAIN base \cup {e.field : e \in X}
Messages(base, X) == UNION {[S -> Values(base, X)] : S \in SUBSET FieldsOf(base, X)}

\* An edit gives a message made of the same fields and values.
LEMMA EditsStay ==
  ASSUME NEW base, NEW X, NEW m \in Messages(base, X), NEW e \in X
  PROVE  WithEdit(m, e) \in Messages(base, X)
<1>. DEFINE V == Values(base, X)
            A == FieldsOf(base, X)
            S == (DOMAIN m \cup {e.field}) \ (IF e.drop THEN {e.field} ELSE {})
<1>1. PICK Q \in SUBSET A : m \in [Q -> V]
  BY DEF Messages
<1>2. e.value \in V /\ e.field \in A
  BY DEF Values, FieldsOf
<1>3. S \in SUBSET A
  BY <1>1, <1>2
<1>. HIDE DEF V, A
<1>4. \A f \in S : (IF f = e.field THEN e.value ELSE m[f]) \in V
  BY <1>1, <1>2
<1>. HIDE DEF S
<1>5. [f \in S |-> IF f = e.field THEN e.value ELSE m[f]] \in [S -> V]
  BY <1>4
<1>6. WithEdit(m, e) \in [S -> V]
  BY <1>5 DEF WithEdit, S
<1>. QED
  BY <1>3, <1>6 DEF Messages, V, A

\* The message that is edited is UTF-8.
LEMMA ReadableBase == \A f \in DOMAIN BaseMessage : Readable(BaseMessage[f])
<1>1. DOMAIN BaseMessage = {"version", "type", "work_id", "index", "finish", "payload", "error"}
  BY DEF BaseMessage
<1>2. \A x \in {"1", "inference", "a", "7", "true"} :
        Readable(Str(x)) /\ Readable(Num(x)) /\ Readable(Bool(x))
  BY DEF Readable, Str, Num, Bool
<1>3. Readable([t |-> "obj", v |-> "a"])
  BY DEF Readable
<1>4. Readable([t |-> "obj", v |-> "", code |-> Num("7"), message |-> Str("a")])
  BY DEF Readable, Str
<1>5. /\ BaseMessage["version"] = Num("1") /\ BaseMessage["type"] = Str("inference")
      /\ BaseMessage["work_id"] = Str("a") /\ BaseMessage["index"] = Num("7")
      /\ BaseMessage["finish"] = Bool("true") /\ BaseMessage["payload"] = [t |-> "obj", v |-> "a"]
      /\ BaseMessage["error"] = [t |-> "obj", v |-> "", code |-> Num("7"), message |-> Str("a")]
  BY DEF BaseMessage
<1>. QED
  BY <1>1, <1>2, <1>3, <1>4, <1>5

\* A message edited with what is UTF-8 is UTF-8.
LEMMA MessagesAreReadable ==
  ASSUME NEW X, \A e \in X : Readable(e.value), input \in Seq(X)
  PROVE  NotBad(Edited(BaseMessage))
<1>. DEFINE base == BaseMessage
<1>1. base \in Messages(base, X)
  <2>1. base \in [DOMAIN base -> Values(base, X)]
    <3>1. \A f \in DOMAIN base : base[f] \in Values(base, X)
      BY DEF Values
    <3>2. base = [f \in DOMAIN base |-> base[f]]
      BY DEF BaseMessage
    <3>. HIDE DEF base
    <3>. QED
      BY <3>1, <3>2
  <2>. QED
    BY <2>1 DEF Messages, FieldsOf
<1>2. \A v \in Values(base, X) : Readable(v)
  BY ReadableBase DEF Values
<1>. HIDE DEF base
<1>. DEFINE D == Messages(base, X)
<1>3. \A m \in D, e \in X : WithEdit(m, e) \in D
  BY EditsStay
<1>. HIDE DEF D
<1>. DEFINE m == Edited(base)
<1>4. m \in D
  BY <1>1, <1>3, EditedIsIn DEF D
<1>. HIDE DEF m
<1>5. PICK S \in SUBSET FieldsOf(base, X) : m \in [S -> Values(base, X)]
  BY <1>4 DEF Messages, D
<1>6. \A f \in DOMAIN m : Readable(m[f])
  BY <1>2, <1>5
<1>7. NotBad(m)
  BY <1>6 DEF NotBad, Readable
<1>. QED
  BY <1>7 DEF m, base

-----------------------------------------------------------------------------
(* FormatsRoundTrip, for every input *)

EnvelopeFields ==
  {"version", "type", "work_id", "request_id", "session_id", "index", "timestamp_ms", "finish",
   "payload", "error"}

IsError(err) == err = [code |-> err.code, message |-> err.message] /\ err.code # Wide

\* What the program may build: every field, a type of its own, an error of two fields, the
\* first of which is an int.
Envelopes(V) == {m \in [EnvelopeFields -> V] : m["type"] \in TypeNames /\ IsError(m["error"])}

Conforms(e) ==
  /\ ~e.drop /\ e.field \in EnvelopeFields
  /\ e.field = "type" => e.value \in TypeNames
  /\ e.field = "error" => IsError(e.value)

\* An edit of an envelope of the program gives another.
LEMMA EnvelopeEditsStay ==
  ASSUME NEW V, NEW m \in Envelopes(V), NEW e, Conforms(e), e.value \in V
  PROVE  WithEdit(m, e) \in Envelopes(V)
<1>. DEFINE S == (DOMAIN m \cup {e.field}) \ (IF e.drop THEN {e.field} ELSE {})
            w == WithEdit(m, e)
<1>1. m \in [EnvelopeFields -> V] /\ m["type"] \in TypeNames /\ IsError(m["error"])
  BY DEF Envelopes
<1>2. S = EnvelopeFields
  BY <1>1 DEF Conforms
<1>3. w = [f \in EnvelopeFields |-> IF f = e.field THEN e.value ELSE m[f]]
  BY <1>2 DEF WithEdit
<1>. HIDE DEF w, S
<1>4. w \in [EnvelopeFields -> V]
  BY <1>1, <1>3
<1>5. "type" \in EnvelopeFields /\ "error" \in EnvelopeFields
  BY DEF EnvelopeFields
<1>6. w["type"] \in TypeNames
  BY <1>1, <1>3, <1>5 DEF Conforms
<1>7. IsError(w["error"])
  <2>1. CASE e.field = "error"
    <3>1. w["error"] = e.value
      BY <1>3, <1>5, <2>1
    <3>. QED
      BY <2>1, <3>1 DEF Conforms
  <2>2. CASE e.field # "error"
    <3>1. w["error"] = m["error"]
      BY <1>3, <1>5, <2>2
    <3>. QED
      BY <1>1, <3>1
  <2>. QED
    BY <2>1, <2>2
<1>. QED
  BY <1>4, <1>6, <1>7 DEF Envelopes, w

\* ToJson and FromJson: what the program builds arrives, with what is not UTF-8 replaced.
THEOREM EveryBuiltEnvelopeArrives ==
  ASSUME NEW V, NEW env \in Envelopes(V)
  PROVE  BuiltEnvelopeArrives(env)
<1>1. env \in [EnvelopeFields -> V] /\ env.type \in TypeNames /\ IsError(env.error)
  BY DEF Envelopes
<1>2. SUFFICES ASSUME ToJson(env).ok, env.version = Version
               PROVE  LET r == FromJson(ToJson(env).obj)
                      IN /\ r.ok
                         /\ r.env = [env EXCEPT !.work_id = Replace(@), !.request_id = Replace(@),
                                       !.session_id = Replace(@), !.error.message = Replace(@),
                                       !.payload = Written(@)]
  BY Zenon DEF BuiltEnvelopeArrives
<1>4. FromJson(ToJson(env).obj) = Accepted(Arrived(env))
  BY <1>1, <1>2, BuiltIsTaken DEF IsError
<1>. DEFINE err == env.error
            work == Replace(env.work_id)
            request == Replace(env.request_id)
            session == Replace(env.session_id)
            message == Replace(env.error.message)
            content == Written(env.payload)
            failure == [env.error EXCEPT !.message = message]
<1>5. failure = [code |-> env.error.code, message |-> message]
  <2>1. err = [code |-> err.code, message |-> err.message]
    BY <1>1 DEF IsError
  <2>. HIDE DEF err, message
  <2>2. [err EXCEPT !.message = message] = [code |-> err.code, message |-> message]
    BY <2>1
  <2>. QED
    BY <2>2 DEF err
<1>6. [env EXCEPT !.work_id = Replace(@), !.request_id = Replace(@),
                  !.session_id = Replace(@), !.error.message = Replace(@), !.payload = Written(@)]
        = [env EXCEPT !.work_id = work, !.request_id = request, !.session_id = session,
                      !.error = failure, !.payload = content]
  BY <1>1 DEF EnvelopeFields
<1>7. Arrived(env) = [version |-> env.version, type |-> env.type, work_id |-> work,
                      request_id |-> request, session_id |-> session, index |-> env.index,
                      timestamp_ms |-> env.timestamp_ms, finish |-> env.finish,
                      payload |-> content, error |-> failure]
  BY <1>2, <1>5 DEF Arrived
<1>. HIDE DEF work, request, session, failure, message, err, content
<1>8. [env EXCEPT !.work_id = work, !.request_id = request, !.session_id = session,
                  !.error = failure, !.payload = content]
        = [version |-> env.version, type |-> env.type, work_id |-> work,
           request_id |-> request, session_id |-> session, index |-> env.index,
           timestamp_ms |-> env.timestamp_ms, finish |-> env.finish,
           payload |-> content, error |-> failure]
  <2>. DEFINE l == [env EXCEPT !.work_id = work, !.request_id = request, !.session_id = session,
                               !.error = failure, !.payload = content]
  <2>1. DOMAIN env = EnvelopeFields /\ env = [f \in EnvelopeFields |-> env[f]]
    BY <1>1
  <2>2. l = [f \in EnvelopeFields |-> l[f]]
    BY <2>1
  <2>3. /\ l["version"] = env.version /\ l["type"] = env.type /\ l["work_id"] = work
        /\ l["request_id"] = request /\ l["session_id"] = session /\ l["index"] = env.index
        /\ l["timestamp_ms"] = env.timestamp_ms /\ l["finish"] = env.finish
        /\ l["payload"] = content /\ l["error"] = failure
    BY <2>1 DEF EnvelopeFields
  <2>. HIDE DEF l
  <2>4. l = [version |-> l["version"], type |-> l["type"], work_id |-> l["work_id"],
             request_id |-> l["request_id"], session_id |-> l["session_id"], index |-> l["index"],
             timestamp_ms |-> l["timestamp_ms"], finish |-> l["finish"],
             payload |-> l["payload"], error |-> l["error"]]
    BY <2>2 DEF EnvelopeFields
  <2>5. l = [version |-> env.version, type |-> env.type, work_id |-> work,
             request_id |-> request, session_id |-> session, index |-> env.index,
             timestamp_ms |-> env.timestamp_ms, finish |-> env.finish,
             payload |-> content, error |-> failure]
    BY <2>3, <2>4, Zenon
  <2>. QED
    BY <2>5 DEF l
<1>. QED
  BY <1>4, <1>6, <1>7, <1>8 DEF Accepted

\* Envelopes edited as the program may build them arrive.
LEMMA BuiltEnvelopesArrive ==
  ASSUME NEW X, \A e \in X : Conforms(e), input \in Seq(X)
  PROVE  BuiltEnvelopeArrives(Edited(BaseEnvelope))
<1>. DEFINE base == BaseEnvelope  V == Values(base, X)  D == Envelopes(V)
<1>1. base \in D
  <2>1. DOMAIN base = EnvelopeFields
    BY DEF BaseEnvelope, EnvelopeFields
  <2>2. base = [f \in DOMAIN base |-> base[f]]
    BY DEF BaseEnvelope
  <2>3. base["type"] \in TypeNames
    BY DEF BaseEnvelope, TypeNames
  <2>4. base["error"] = [code |-> "7", message |-> "a"]
    BY DEF BaseEnvelope
  <2>5. IsError(base["error"])
    BY <2>4 DEF IsError, Wide
  <2>. HIDE DEF base
  <2>6. \A f \in DOMAIN base : base[f] \in V
    BY DEF Values
  <2>. HIDE DEF V
  <2>7. base \in [EnvelopeFields -> V]
    BY <2>1, <2>2, <2>6
  <2>. QED
    BY <2>3, <2>5, <2>7 DEF Envelopes
<1>2. \A e \in X : e.value \in V
  BY DEF Values
<1>. HIDE DEF base, V
<1>3. \A m \in D, e \in X : WithEdit(m, e) \in D
  BY <1>2, EnvelopeEditsStay
<1>. HIDE DEF D
<1>4. Edited(base) \in D
  BY <1>1, <1>3, EditedIsIn
<1>5. BuiltEnvelopeArrives(Edited(base))
  BY <1>4, EveryBuiltEnvelopeArrives DEF D
<1>. QED
  BY <1>5 DEF base

\* The formats keep what is in them, for every input.
LEMMA FormatsRoundTripEver == TypeOK => FormatsRoundTrip
<1>. SUFFICES ASSUME TypeOK PROVE FormatsRoundTrip
  OBVIOUS
<1>. DEFINE X == Alphabet[kind]
<1>0. kind \in DOMAIN Alphabet /\ input \in Seq(X)
  BY DEF TypeOK
<1>1. ASSUME kind = "message" PROVE EnvelopeRoundTrips(Edited(BaseMessage))
  <2>1. \A e \in X : Readable(e.value)
    BY <1>0, <1>1, MessagesAssumption DEF Readable
  <2>. HIDE DEF X
  <2>2. NotBad(Edited(BaseMessage))
    BY <1>0, <2>1, MessagesAreReadable
  <2>. QED
    BY <2>2, EveryMessageRoundTrips
<1>2. ASSUME kind = "envelope" PROVE BuiltEnvelopeArrives(Edited(BaseEnvelope))
  <2>1. \A e \in X : Conforms(e)
    BY <1>0, <1>2, EnvelopesAssumption DEF Conforms, EnvelopeFields, IsError
  <2>. HIDE DEF X
  <2>. QED
    BY <1>0, <2>1, BuiltEnvelopesArrive
<1>3. ASSUME kind = "bytes" PROVE EventsArrive(input)
  <2>1. X \subseteq 0..255
    BY <1>0, <1>3, BytesAssumption
  <2>2. input \in Seq(0..255)
    BY <1>0, <2>1
  <2>. QED
    BY <2>2, EveryEventArrives
<1>4. ASSUME kind = "wav", NEW head, NEW cut \in {0, 1, 2, 9, 30}
      PROVE  WavIsRead([head |-> head, cut |-> cut, chunks |-> input])
  <2>1. X \subseteq WavChunk
    BY <1>0, <1>4, ChunksAssumption DEF WavChunk
  <2>. HIDE DEF X
  <2>2. input \in Seq(WavChunk) /\ cut \in Int
    BY <1>0, <1>4, <2>1
  <2>. QED
    BY <2>2, EveryRecordingIsRead
<1>. QED
  BY <1>1, <1>2, <1>3, <1>4 DEF FormatsRoundTrip

\* FormatsRoundTrip, for every alphabet of fields, bytes and chunks and inputs of any length:
\* messages, events and recordings come back from what they are written as, or are refused.
THEOREM FormatsAlwaysRoundTrip == Spec => []FormatsRoundTrip
BY InputType, FormatsRoundTripEver, PTL

-----------------------------------------------------------------------------
(* Samples, cut into frames *)

\* What the quotient of a division is.
LEMMA DivIs ==
  ASSUME NEW a \in Nat, NEW b \in Nat \ {0}
  PROVE  a \div b \in Nat /\ (a \div b) * b <= a /\ a < (a \div b) * b + b
OBVIOUS

\* Products grow with their first factor.
LEMMA ProductGrows ==
  ASSUME NEW a \in Nat, NEW b \in Nat, NEW c \in Nat, a <= b
  PROVE  a * c <= b * c /\ a * c \in Nat
<1>1. PICK d \in Nat : b = a + d
  <2>1. b - a \in Nat /\ b = a + (b - a)
    OBVIOUS
  <2>. QED
    BY <2>1
<1>2. b * c = a * c + d * c /\ d * c \in Nat /\ a * c \in Nat
  BY <1>1
<1>. DEFINE x == a * c  y == b * c  z == d * c
<1>. HIDE DEF x, y, z
<1>3. y = x + z /\ x \in Nat /\ z \in Nat
  BY <1>2 DEF x, y, z
<1>4. x <= y
  BY <1>3
<1>. QED
  BY <1>3, <1>4 DEF x, y

FrameCount(n) ==
  /\ FramesOf(n) \in Nat /\ n <= FramesOf(n) * FrameSamples
  /\ \A k \in Nat : k < FramesOf(n) => k * FrameSamples < n

\* FramesOf is the number of frames that some samples need: enough, and none too many.
LEMMA FramesCounted ==
  ASSUME NEW n \in Nat
  PROVE  FrameCount(n)
<1>. DEFINE f == FrameSamples  a == n + f - 1  m == a \div f
<1>0. f \in Nat \ {0} /\ a \in Nat
  BY NodeAdaptersAssumption
<1>1. FramesOf(n) = m
  BY DEF FramesOf
<1>2. m \in Nat /\ m * f <= a /\ a < m * f + f
  <2>. HIDE DEF a, f
  <2>. QED
    BY <1>0, DivIs
<1>3. n <= m * f
  <2>. DEFINE p == m * f
  <2>1. p \in Nat
    BY <1>0, <1>2
  <2>. HIDE DEF p, m
  <2>2. p <= a /\ a < p + f
    BY <1>2 DEF p
  <2>3. n <= p
    BY <1>0, <2>1, <2>2
  <2>. QED
    BY <2>3 DEF p
<1>4. ASSUME NEW k \in Nat, k < m PROVE k * f < n
  <2>. HIDE DEF m
  <2>1. k + 1 <= m /\ k + 1 \in Nat
    BY <1>2, <1>4
  <2>. DEFINE p == m * f  q == k * f
  <2>2. (k + 1) * f <= p
    BY <1>0, <1>2, <2>1, ProductGrows
  <2>3. (k + 1) * f = q + f /\ q \in Nat /\ p \in Nat
    BY <1>0, <1>2
  <2>4. p <= a
    BY <1>2
  <2>. HIDE DEF p, q
  <2>5. q + f <= a
    BY <1>0, <2>2, <2>3, <2>4
  <2>6. q < n
    BY <1>0, <2>3, <2>5
  <2>. QED
    BY <2>6 DEF q
<1>5. m \in Nat
  BY <1>2
<1>. HIDE DEF m
<1>6. \A k \in Nat : k < m => k * f < n
  BY <1>4
<1>7. FrameCount(n)
  BY <1>1, <1>3, <1>5, <1>6 DEF FrameCount
<1>. QED
  BY <1>7

\* The frames that some samples are cut into.
SliceEnd(n, i) == IF i * FrameSamples <= n THEN i * FrameSamples ELSE n
Slice(s, i) == SubSeq(s, (i - 1) * FrameSamples + 1, SliceEnd(Len(s), i))
Slices(s, k) == [i \in 1..k |-> Slice(s, i)]

SlicesLaid(E, s, k) ==
  Slices(s, k) \in Seq(Seq(E)) /\ FlattenSeq(Slices(s, k)) = SubSeq(s, 1, SliceEnd(Len(s), k))

GoesTo(E, s, a, b) ==
  SubSeq(s, 1, a) \o SubSeq(s, a + 1, b) = SubSeq(s, 1, b) /\ SubSeq(s, a + 1, b) \in Seq(E)

\* A prefix is continued by what follows it.
LEMMA PrefixGoesOn ==
  ASSUME NEW E, NEW s \in Seq(E), NEW a \in Nat, NEW b \in Nat, a <= b, b <= Len(s)
  PROVE  GoesTo(E, s, a, b)
<1>1. SubSeq(s, 1, a) \o SubSeq(s, a + 1, b) = SubSeq(s, 1, b)
  OBVIOUS
<1>2. SubSeq(s, a + 1, b) \in Seq(E)
  OBVIOUS
<1>. QED
  BY <1>1, <1>2 DEF GoesTo

IsAppend(G, p, x) == G = Append(p, x)

\* A sequence that is another one with an element more.
LEMMA AppendIs ==
  ASSUME NEW S, NEW G \in Seq(S), NEW p \in Seq(S), NEW x \in S, Len(G) = Len(p) + 1,
         G[Len(p) + 1] = x, \A j \in 1..Len(p) : G[j] = p[j]
  PROVE  IsAppend(G, p, x)
<1>. DEFINE w == Append(p, x)  k == Len(p)
<1>1. w \in Seq(S) /\ Len(w) = k + 1 /\ w[k + 1] = x /\ k \in Nat /\ \A j \in 1..k : w[j] = p[j]
  BY AppendProperties
<1>. HIDE DEF w, k
<1>2. \A j \in 1..Len(G) : G[j] = w[j]
  BY <1>1 DEF k
<1>3. G = w
  BY <1>1, <1>2, SeqEqual DEF k
<1>. QED
  BY <1>3 DEF w, IsAppend

SliceIs(E, s, k) ==
  /\ k * FrameSamples \in Nat /\ SliceEnd(Len(s), k) = k * FrameSamples
  /\ SliceEnd(Len(s), k + 1) \in Nat /\ SliceEnd(Len(s), k + 1) <= Len(s)
  /\ k * FrameSamples < SliceEnd(Len(s), k + 1)
  /\ Slice(s, k + 1) = SubSeq(s, k * FrameSamples + 1, SliceEnd(Len(s), k + 1))

\* Every frame but the last one is full, and the last one holds what is left.
LEMMA OneSlice ==
  ASSUME NEW E, NEW s \in Seq(E), NEW k \in Nat, k < FramesOf(Len(s))
  PROVE  SliceIs(E, s, k)
<1>. DEFINE f == FrameSamples  n == Len(s)  q == k * f  e == SliceEnd(n, k + 1)
<1>0. f \in Nat \ {0} /\ n \in Nat /\ q \in Nat
  BY NodeAdaptersAssumption
<1>1. q < n
  <2>. HIDE DEF n
  <2>1. FrameCount(n)
    BY <1>0, FramesCounted
  <2>. QED
    BY <2>1 DEF FrameCount, n
<1>2. (k + 1) * f = q + f /\ (k + 1) - 1 = k
  BY <1>0
<1>3. e = IF q + f <= n THEN q + f ELSE n
  BY <1>2 DEF SliceEnd
<1>4. Slice(s, k + 1) = SubSeq(s, q + 1, e)
  BY <1>2 DEF Slice
<1>5. SliceEnd(n, k) = IF q <= n THEN q ELSE n
  BY DEF SliceEnd
<1>. HIDE DEF f, n, q, e
<1>6. e \in Nat /\ e <= n /\ q < e
  BY <1>0, <1>1, <1>3
<1>7. SliceEnd(n, k) = q
  BY <1>0, <1>1, <1>5
<1>. QED
  BY <1>0, <1>4, <1>6, <1>7 DEF SliceIs, f, n, q, e

\* The first frames of some samples, laid end to end, are the first samples.
LEMMA SlicesSofar ==
  ASSUME NEW E, NEW s \in Seq(E)
  PROVE  \A k \in 0..FramesOf(Len(s)) : SlicesLaid(E, s, k)
<1>. DEFINE n == FramesOf(Len(s))  T == {k \in Nat : SlicesLaid(E, s, k)}
<1>0. n \in Nat
  <2>1. Len(s) \in Nat
    OBVIOUS
  <2>. DEFINE l == Len(s)
  <2>. HIDE DEF l
  <2>2. FrameCount(l)
    BY <2>1, FramesCounted DEF l
  <2>. QED
    BY <2>2 DEF FrameCount, n, l
<1>. HIDE DEF n
<1>1. SlicesLaid(E, s, 0)
  <2>1. Slices(s, 0) = <<>>
    BY DEF Slices
  <2>2. SliceEnd(Len(s), 0) = 0
    <3>1. 0 * FrameSamples = 0 /\ Len(s) \in Nat
      BY NodeAdaptersAssumption
    <3>. QED
      BY <3>1 DEF SliceEnd
  <2>3. SubSeq(s, 1, 0) = <<>> /\ <<>> \in Seq(Seq(E))
    OBVIOUS
  <2>. QED
    BY <2>1, <2>2, <2>3, FlattenEmpty DEF SlicesLaid
<1>2. ASSUME NEW k \in Nat, SlicesLaid(E, s, k), k < n PROVE SlicesLaid(E, s, k + 1)
  <2>. DEFINE F == Slices(s, k + 1)  p == Slices(s, k)  x == Slice(s, k + 1)  S == Seq(E)
              a == k * FrameSamples  b == SliceEnd(Len(s), k + 1)
  <2>1. SliceIs(E, s, k)
    BY <1>2, OneSlice DEF n
  <2>2. a \in Nat /\ b \in Nat /\ a < b /\ b <= Len(s) /\ SliceEnd(Len(s), k) = a
        /\ x = SubSeq(s, a + 1, b)
    BY <2>1 DEF SliceIs
  <2>3. p \in Seq(S) /\ FlattenSeq(p) = SubSeq(s, 1, a)
    BY <1>2, <2>2 DEF SlicesLaid
  <2>. HIDE DEF a, b
  <2>4. SubSeq(s, 1, a) \o x = SubSeq(s, 1, b) /\ x \in S
    <3>0. a <= b
      BY <2>2
    <3>1. GoesTo(E, s, a, b)
      BY <2>2, <3>0, PrefixGoesOn
    <3>. HIDE DEF x
    <3>. QED
      BY <2>2, <3>1 DEF GoesTo
  <2>5. F = Append(p, x)
    <3>1. p \in Seq(S) /\ Len(p) = k /\ DOMAIN p = 1..k
      BY <2>3 DEF Slices
    <3>3. \A j \in 1..(k + 1) : F[j] = Slice(s, j)
      BY DEF Slices
    <3>4. \A j \in 1..k : p[j] = Slice(s, j)
      BY DEF Slices
    <3>2. F = [j \in 1..(k + 1) |-> Slice(s, j)]
      BY DEF Slices
    <3>5. F[k + 1] = x /\ \A j \in 1..k : F[j] = p[j]
      BY <3>3, <3>4
    <3>6. \A j \in 1..(k + 1) : Slice(s, j) \in S
      <4>. SUFFICES ASSUME NEW j \in 1..(k + 1) PROVE Slice(s, j) \in S
        OBVIOUS
      <4>1. CASE j = k + 1
        BY <2>4, <4>1
      <4>2. CASE j # k + 1
        <5>1. j \in 1..k
          BY <4>2
        <5>2. p[j] \in S
          BY <3>1, <5>1
        <5>. QED
          BY <3>4, <5>1, <5>2
      <4>. QED
        BY <4>1, <4>2
    <3>7. F \in Seq(S) /\ Len(F) = k + 1
      <4>. HIDE DEF F, S
      <4>. QED
        BY <3>2, <3>6
    <3>8. x \in S
      BY <2>4
    <3>. HIDE DEF p, F, x, S
    <3>9. IsAppend(F, p, x)
      BY <3>1, <3>5, <3>7, <3>8, AppendIs
    <3>. QED
      BY <3>9 DEF IsAppend
  <2>. HIDE DEF F, p, x
  <2>6. FlattenSeq(F) = FlattenSeq(p) \o x
    BY <2>3, <2>4, <2>5, FlattenAppend
  <2>7. Append(p, x) \in Seq(S)
    <3>. HIDE DEF S
    <3>. QED
      BY <2>3, <2>4, AppendProperties
  <2>. QED
    BY <2>3, <2>4, <2>5, <2>6, <2>7 DEF SlicesLaid, F, b
<1>3. T \subseteq Nat /\ 0 \in T /\ \A k \in T : k < n => k + 1 \in T
  BY <1>1, <1>2
<1>. HIDE DEF T
<1>4. \A k \in 0..n : k \in T
  BY <1>0, <1>3, BoundInduct
<1>. QED
  BY <1>4 DEF T, n

\* All frames of some samples, laid end to end, are the samples.
LEMMA SlicesAreAll ==
  ASSUME NEW E, NEW s \in Seq(E)
  PROVE  /\ Slices(s, FramesOf(Len(s))) \in Seq(Seq(E))
         /\ FlattenSeq(Slices(s, FramesOf(Len(s)))) = s
<1>. DEFINE n == Len(s)  m == FramesOf(n)
<1>0. n \in Nat
  OBVIOUS
<1>a. FrameCount(n)
  <2>. HIDE DEF n
  <2>. QED
    BY <1>0, FramesCounted
<1>1. n \in Nat /\ m \in Nat /\ n <= m * FrameSamples /\ m \in 0..m
  <2>. HIDE DEF n
  <2>1. m \in Nat /\ n <= m * FrameSamples
    BY <1>a DEF FrameCount
  <2>. HIDE DEF m
  <2>. QED
    BY <1>0, <2>1
<1>2. SlicesLaid(E, s, m)
  BY <1>1, SlicesSofar
<1>3. SliceEnd(n, m) = n
  <2>. DEFINE p == m * FrameSamples
  <2>1. p \in Nat
    BY <1>1, NodeAdaptersAssumption
  <2>2. SliceEnd(n, m) = IF p <= n THEN p ELSE n
    BY DEF SliceEnd
  <2>. HIDE DEF p, n, m
  <2>. QED
    BY <1>1, <2>1, <2>2 DEF p
<1>4. SubSeq(s, 1, n) = s
  OBVIOUS
<1>. QED
  BY <1>2, <1>3, <1>4 DEF SlicesLaid

-----------------------------------------------------------------------------
(* What the adapters feed and write *)

\* What feeding frames up to a stop leaves.
FedFrames(r, frames) ==
  /\ r.error = FALSE
  /\ r.code # "ok" => r.cancelled /\ \A i \in DOMAIN r.fed : ~r.fed[i].last
  /\ r.code = "ok" =>
       /\ DOMAIN r.fed = 1..Len(frames) /\ Len(r.fed) = Len(frames)
       /\ \A i \in 1..Len(frames) : r.fed[i].last <=> i = Len(frames)
       /\ [i \in DOMAIN r.fed |-> r.fed[i].pcm] = frames

\* FeedAll feeds every frame and marks the last one, or stops and marks none.
LEMMA FeedAllFeeds ==
  ASSUME NEW S, NEW frames \in Seq(S), NEW stop \in Stops
  PROVE  FedFrames(FeedAll(frames, stop), frames)
<1>. DEFINE n == Len(frames)  M(i) == [pcm |-> frames[i], last |-> i = n]
            T == [pcm : S, last : BOOLEAN]
            marked == [i \in DOMAIN frames |-> M(i)]
            r == FeedAll(frames, stop)
<1>0. n \in Nat /\ DOMAIN frames = 1..n /\ \A i \in 1..n : frames[i] \in S
  OBVIOUS
<1>1. marked \in Seq(T) /\ Len(marked) = n /\ DOMAIN marked = 1..n
  <2>1. \A i \in 1..n : M(i) \in T
    BY <1>0
  <2>2. marked = [i \in 1..n |-> M(i)]
    BY <1>0
  <2>. HIDE DEF n, M, T, marked
  <2>. QED
    BY <1>0, <2>1, <2>2
<1>2. \A i \in 1..n : marked[i].pcm = frames[i] /\ marked[i].last = (i = n)
  BY <1>0
<1>3. stop.at \in Nat /\ (stop.at # 0 => stop.why # "ok")
  BY DEF Stops
<1>4. r = IF stop.at \in DOMAIN frames THEN Fed(stop.why, SubSeq(marked, 1, stop.at - 1), TRUE, FALSE)
          ELSE Fed("ok", marked, FALSE, FALSE)
  BY DEF FeedAll
<1>5. CASE stop.at \in DOMAIN frames
  <2>. DEFINE a == stop.at  p == SubSeq(marked, 1, a - 1)
  <2>1. r = Fed(stop.why, p, TRUE, FALSE)
    BY <1>4, <1>5
  <2>2. a \in 1..n /\ stop.why # "ok"
    BY <1>0, <1>3, <1>5
  <2>3. DOMAIN p = 1..(a - 1) /\ \A i \in 1..(a - 1) : p[i] = marked[i] /\ i \in 1..n /\ i # n
    <3>. HIDE DEF marked, n, T
    <3>. QED
      BY <1>0, <1>1, <2>2
  <2>4. \A i \in DOMAIN p : p[i].last = FALSE
    <3>. HIDE DEF marked, p, n
    <3>. QED
      BY <1>2, <2>3
  <2>. HIDE DEF p, r
  <2>5. r.error = FALSE /\ r.code # "ok" /\ r.cancelled /\ r.fed = p
    BY <2>1, <2>2 DEF Fed
  <2>. QED
    BY <2>4, <2>5 DEF FedFrames, r
<1>6. CASE stop.at \notin DOMAIN frames
  <2>1. r = Fed("ok", marked, FALSE, FALSE)
    BY <1>4, <1>6
  <2>2. [i \in DOMAIN marked |-> marked[i].pcm] = frames
    <3>1. [i \in 1..n |-> marked[i].pcm] = [i \in 1..n |-> frames[i]]
      BY <1>2
    <3>2. frames = [i \in 1..n |-> frames[i]]
      BY <1>0
    <3>. HIDE DEF marked
    <3>. QED
      BY <1>1, <3>1, <3>2
  <2>. HIDE DEF marked, r
  <2>3. r.error = FALSE /\ r.code = "ok" /\ r.fed = marked
    BY <2>1 DEF Fed
  <2>. QED
    BY <1>1, <1>2, <2>2, <2>3 DEF FedFrames, r
<1>. QED
  BY <1>5, <1>6

\* feed_samples feeds the samples in frames.
LEMMA FeedSamplesFeeds ==
  ASSUME NEW E, NEW s \in Seq(E), NEW stop \in Stops
  PROVE  FedFrames(FeedSamples(s, stop), Slices(s, FramesOf(Len(s))))
<1>1. FeedSamples(s, stop) = FeedAll(Slices(s, FramesOf(Len(s))), stop)
  BY DEF FeedSamples, Slices, Slice, SliceEnd
<1>2. Slices(s, FramesOf(Len(s))) \in Seq(Seq(E))
  BY SlicesAreAll
<1>. QED
  BY <1>1, <1>2, FeedAllFeeds

\* run_mock_frames feeds as many frames as it was asked for.
LEMMA FeedCountFeeds ==
  ASSUME NEW n \in Nat, NEW stop \in Stops
  PROVE  FedFrames(FeedCount(n, stop), [i \in 1..n |-> <<i>>])
<1>. DEFINE S == {<<i>> : i \in Nat}  f == [i \in 1..n |-> <<i>>]
<1>1. f \in Seq(S)
  <2>1. \A i \in 1..n : <<i>> \in S
    OBVIOUS
  <2>. HIDE DEF S
  <2>. QED
    BY <2>1
<1>2. FeedCount(n, stop) = FeedAll(f, stop)
  BY DEF FeedCount
<1>. HIDE DEF S, f
<1>3. FedFrames(FeedAll(f, stop), f)
  BY <1>1, FeedAllFeeds
<1>. QED
  BY <1>2, <1>3 DEF f

\* TtsInfer, for every number of chunks and whatever fails: what is answered without an
\* error was written completely.
LEMMA SynthesesAreWritten ==
  ASSUME NEW S, NEW chunks \in Seq(S)
  PROVE  SynthesisIsWritten(chunks)
<1>. SUFFICES ASSUME NEW fails
              PROVE  LET r == TtsInfer("wav", chunks, fails, FALSE)
                     IN /\ r.events = chunks
                        /\ ~r.wrote.error => r.wrote.written = DOMAIN chunks /\ r.wrote.counted = Len(chunks)
  BY DEF SynthesisIsWritten
<1>. DEFINE w == WriteSink("wav", chunks, fails)  r == TtsInfer("wav", chunks, fails, FALSE)
<1>1. r = [code |-> "ok", events |-> chunks, wrote |-> w]
  BY DEF TtsInfer
<1>2. ~w.error => w.written = DOMAIN chunks /\ w.counted = Len(chunks)
  BY DEF WriteSink
<1>. HIDE DEF w, r
<1>3. r.events = chunks /\ r.wrote = w
  BY <1>1
<1>. QED
  BY <1>2, <1>3 DEF r

\* A sample of two bytes, low byte first.
Sample == (0..255) \X (0..255)

Pair(F, i) == <<F[2 * i - 1], F[2 * i]>>

Paired(s, F) == Len(F) = 2 * Len(s) /\ \A i \in 1..Len(s) : Pair(F, i) = s[i]

LaidInPairs(s) == s \in Seq(Seq(0..255)) /\ Paired(s, FlattenSeq(s))

\* A sample is its two bytes.
LEMMA SampleIsPair ==
  ASSUME NEW e \in Sample
  PROVE  e \in Seq(0..255) /\ Len(e) = 2 /\ <<e[1], e[2]>> = e
<1>1. e[1] \in 0..255 /\ e[2] \in 0..255 /\ e = <<e[1], e[2]>>
  BY DEF Sample
<1>. DEFINE a == e[1]  b == e[2]
<1>. HIDE DEF a, b
<1>2. <<a, b>> \in Seq(0..255) /\ Len(<<a, b>>) = 2
  BY <1>1 DEF a, b
<1>. QED
  BY <1>1, <1>2 DEF a, b

\* Bytes that are pairs stay so when a sample is added.
LEMMA PairConcat ==
  ASSUME NEW s \in Seq(Sample), NEW F \in Seq(0..255), Paired(s, F), NEW e \in Sample
  PROVE  Paired(Append(s, e), F \o e)
<1>. DEFINE n == Len(s)  G == F \o e  t == Append(s, e)
<1>0. n \in Nat /\ Len(t) = n + 1 /\ t[n + 1] = e /\ \A i \in 1..n : t[i] = s[i]
  OBVIOUS
<1>1. e \in Seq(0..255) /\ Len(e) = 2 /\ <<e[1], e[2]>> = e
  BY SampleIsPair
<1>2. Len(F) = 2 * n /\ \A i \in 1..n : <<F[2 * i - 1], F[2 * i]>> = s[i]
  BY DEF Paired, Pair
<1>3. /\ Len(G) = Len(F) + 2
      /\ \A j \in 1..Len(F) : G[j] = F[j]
      /\ G[Len(F) + 1] = e[1] /\ G[Len(F) + 2] = e[2]
  <2>1. /\ Len(G) = Len(F) + Len(e)
        /\ \A j \in 1..Len(F) : G[j] = F[j]
        /\ \A j \in 1..Len(e) : G[Len(F) + j] = e[j]
    <3>1. e \in Seq(0..255)
      BY <1>1
    <3>. QED
      BY <3>1, ConcatProperties
  <2>2. 1 \in 1..Len(e) /\ 2 \in 1..Len(e)
    BY <1>1
  <2>. HIDE DEF G
  <2>. QED
    BY <1>1, <2>1, <2>2
<1>. HIDE DEF G, t, n
<1>4. ASSUME NEW i \in 1..Len(t) PROVE <<G[2 * i - 1], G[2 * i]>> = t[i]
  <2>1. CASE i = n + 1
    <3>1. 2 * i - 1 = Len(F) + 1 /\ 2 * i = Len(F) + 2
      BY <1>0, <1>2, <2>1
    <3>. QED
      BY <1>0, <1>1, <1>3, <2>1, <3>1
  <2>2. CASE i # n + 1
    <3>1. i \in 1..n
      BY <1>0, <2>2
    <3>2. 2 * i - 1 \in 1..Len(F) /\ 2 * i \in 1..Len(F)
      BY <1>0, <1>2, <3>1
    <3>3. G[2 * i - 1] = F[2 * i - 1] /\ G[2 * i] = F[2 * i]
      BY <1>3, <3>2
    <3>. QED
      BY <1>0, <1>2, <3>1, <3>3
  <2>. QED
    BY <2>1, <2>2
<1>5. Len(G) = 2 * Len(t)
  BY <1>0, <1>2, <1>3
<1>. QED
  BY <1>4, <1>5 DEF Paired, Pair, G, t

\* The bytes of samples are theirs, two by two.
LEMMA PairsLie ==
  ASSUME NEW s \in Seq(Sample)
  PROVE  LaidInPairs(s)
<1>. DEFINE T == {u \in Seq(Sample) : LaidInPairs(u)}
<1>1. <<>> \in T
  <2>1. <<>> \in Seq(Sample) /\ <<>> \in Seq(Seq(0..255)) /\ Len(<<>>) = 0
    OBVIOUS
  <2>2. Paired(<<>>, <<>>)
    BY DEF Paired
  <2>. QED
    BY <2>1, <2>2, FlattenEmpty DEF LaidInPairs
<1>2. ASSUME NEW u \in T, NEW e \in Sample PROVE Append(u, e) \in T
  <2>1. u \in Seq(Sample) /\ u \in Seq(Seq(0..255)) /\ Paired(u, FlattenSeq(u))
    BY DEF LaidInPairs
  <2>2. e \in Seq(0..255)
    BY SampleIsPair
  <2>3. FlattenSeq(Append(u, e)) = FlattenSeq(u) \o e
    BY <2>1, <2>2, FlattenAppend
  <2>4. FlattenSeq(u) \in Seq(0..255)
    BY <2>1, FlattenType
  <2>5. Paired(Append(u, e), FlattenSeq(u) \o e)
    BY <2>1, <2>4, PairConcat
  <2>6. Append(u, e) \in Seq(Sample)
    BY <2>1
  <2>7. Append(u, e) \in Seq(Seq(0..255))
    BY <2>1, <2>2
  <2>. QED
    BY <2>3, <2>5, <2>6, <2>7 DEF LaidInPairs
<1>3. T = Seq(Sample)
  <2>1. T \subseteq Seq(Sample)
    OBVIOUS
  <2>. HIDE DEF T
  <2>. QED
    BY <1>1, <1>2, <2>1, SeqInduct
<1>. QED
  BY <1>3

\* The bytes of a session's samples are read as the samples again.
Paid(s, bytes) ==
  /\ bytes \in Seq(0..255) /\ Len(bytes) % 2 = 0 /\ Len(bytes) \div 2 = Len(s)
  /\ SamplesOf(bytes) = s /\ (bytes = <<>> <=> s = <<>>)

\* The samples that asr_node reads from the bytes of a session's samples are these.
LEMMA SamplesComeBack ==
  ASSUME NEW s \in Seq(Sample)
  PROVE  Paid(s, FlattenSeq(s))
<1>. DEFINE b == FlattenSeq(s)  n == Len(s)
<1>1. LaidInPairs(s)
  BY PairsLie
<1>2. s \in Seq(Seq(0..255)) /\ Paired(s, b)
  BY <1>1 DEF LaidInPairs
<1>3. b \in Seq(0..255)
  BY <1>2, FlattenType
<1>4. n \in Nat /\ s = [i \in 1..n |-> s[i]]
  OBVIOUS
<1>. HIDE DEF b, n
<1>5. Len(b) = 2 * n /\ \A i \in 1..n : <<b[2 * i - 1], b[2 * i]>> = s[i]
  BY <1>2 DEF Paired, Pair, n
<1>6. (2 * n) % 2 = 0 /\ (2 * n) \div 2 = n
  BY <1>4
<1>7. SamplesOf(b) = [i \in 1..n |-> <<b[2 * i - 1], b[2 * i]>>]
  BY <1>5, <1>6 DEF SamplesOf
<1>8. SamplesOf(b) = s
  BY <1>4, <1>5, <1>7
<1>9. b = <<>> <=> s = <<>>
  <2>1. b = <<>> <=> Len(b) = 0
    BY <1>3
  <2>2. s = <<>> <=> n = 0
    BY DEF n
  <2>. QED
    BY <1>4, <1>5, <2>1, <2>2
<1>10. Len(b) % 2 = 0 /\ Len(b) \div 2 = n
  BY <1>5, <1>6
<1>. QED
  BY <1>3, <1>8, <1>9, <1>10 DEF Paid, b, n

\* Full frames hold FrameSamples samples each.
LEMMA FullFramesLong ==
  ASSUME NEW E, NEW s \in Seq({f \in Seq(E) : Len(f) = FrameSamples})
  PROVE  Len(FlattenSeq(s)) = Len(s) * FrameSamples
<1>. DEFINE P == {f \in Seq(E) : Len(f) = FrameSamples}
            T == {u \in Seq(P) : Len(FlattenSeq(u)) = Len(u) * FrameSamples}
<1>0. FrameSamples \in Nat
  BY NodeAdaptersAssumption
<1>1. <<>> \in T
  BY <1>0, FlattenEmpty
<1>2. ASSUME NEW u \in T, NEW e \in P PROVE Append(u, e) \in T
  <2>1. u \in Seq(Seq(E)) /\ e \in Seq(E) /\ Len(e) = FrameSamples /\ Len(u) \in Nat
    OBVIOUS
  <2>2. FlattenSeq(Append(u, e)) = FlattenSeq(u) \o e /\ FlattenSeq(u) \in Seq(E)
    BY <2>1, FlattenAppend, FlattenType
  <2>3. Len(FlattenSeq(u) \o e) = Len(FlattenSeq(u)) + Len(e)
    BY <2>1, <2>2
  <2>4. Len(FlattenSeq(u)) = Len(u) * FrameSamples /\ Append(u, e) \in Seq(P) /\ Len(Append(u, e)) = Len(u) + 1
    OBVIOUS
  <2>. DEFINE n == Len(u)  f == FrameSamples
  <2>5. (n + 1) * f = n * f + f
    BY <1>0, <2>1
  <2>. QED
    BY <2>1, <2>2, <2>3, <2>4, <2>5
<1>3. T = Seq(P)
  <2>1. T \subseteq Seq(P)
    OBVIOUS
  <2>. HIDE DEF T, P
  <2>. QED
    BY <1>1, <1>2, <2>1, SeqInduct
<1>. QED
  BY <1>3

\* Before the last frame, which is not empty, all frames are full.
LEMMA LastFrame ==
  ASSUME NEW E, NEW frames \in Seq(Seq(E)), frames # <<>>, FullFrames(frames),
         \A i \in DOMAIN frames : Len(frames[i]) <= FrameSamples
  PROVE  \E l \in 1..FrameSamples :
           Len(FlattenSeq(frames)) = (Len(frames) - 1) * FrameSamples + l
<1>. DEFINE S == Seq(E)  n == Len(frames)  P == {f \in S : Len(f) = FrameSamples}
            front == SubSeq(frames, 1, n - 1)  last == frames[n]
<1>0. n \in Nat \ {0} /\ frames \in Seq(S) /\ DOMAIN frames = 1..n /\ FrameSamples \in Nat
  BY NodeAdaptersAssumption
<1>1. front \in Seq(S) /\ Len(front) = n - 1 /\ \A i \in 1..(n - 1) : front[i] = frames[i]
  <2>. HIDE DEF S, n
  <2>. QED
    BY <1>0 DEF n
<1>2. \A i \in 1..(n - 1) : Len(frames[i]) = FrameSamples /\ frames[i] \in S
  <2>1. \A i \in 1..n : frames[i] \in S
    <3>. HIDE DEF S, n
    <3>. QED
      BY <1>0
  <2>2. \A i \in 1..n : i < n => Len(frames[i]) = FrameSamples
    <3>1. \A i \in 1..n : IF i < n THEN Len(frames[i]) = FrameSamples ELSE frames[i] # <<>>
      BY <1>0, Zenon DEF FullFrames
    <3>. HIDE DEF n
    <3>. QED
      BY <3>1
  <2>3. \A i \in 1..(n - 1) : i \in 1..n /\ i < n
    <3>. HIDE DEF n
    <3>. QED
      BY <1>0
  <2>. HIDE DEF n, S
  <2>. QED
    BY <2>1, <2>2, <2>3
<1>3. last \in S /\ last # <<>> /\ Len(last) <= FrameSamples
  BY <1>0 DEF FullFrames
<1>4. Len(last) \in 1..FrameSamples
  <2>1. Len(last) \in Nat /\ Len(last) # 0
    BY <1>3
  <2>. QED
    BY <1>0, <1>3, <2>1
<1>5. front \in Seq(P)
  <2>1. \A i \in 1..(n - 1) : front[i] \in P
    BY <1>1, <1>2
  <2>2. front = [i \in 1..(n - 1) |-> front[i]] /\ n - 1 \in Nat
    <3>. HIDE DEF front, n, S
    <3>. QED
      BY <1>0, <1>1
  <2>. DEFINE k == n - 1
  <2>. HIDE DEF P, front, n
  <2>. HIDE DEF k
  <2>3. front \in [1..k -> P] /\ k \in Nat
    BY <2>1, <2>2 DEF k
  <2>. QED
    BY <2>3
<1>6. IsAppend(frames, front, last)
  <2>. HIDE DEF front, last, S
  <2>1. \A j \in 1..Len(front) : frames[j] = front[j]
    BY <1>0, <1>1
  <2>2. Len(frames) = Len(front) + 1 /\ frames[Len(front) + 1] = last
    BY <1>0, <1>1 DEF last
  <2>. QED
    BY <1>0, <1>1, <1>3, <2>1, <2>2, AppendIs
<1>7. FlattenSeq(frames) = FlattenSeq(front) \o last /\ FlattenSeq(front) \in Seq(E)
  BY <1>1, <1>3, <1>6, FlattenAppend, FlattenType DEF IsAppend
<1>8. Len(FlattenSeq(front) \o last) = Len(FlattenSeq(front)) + Len(last)
  BY <1>3, <1>7
<1>9. Len(FlattenSeq(front)) = Len(front) * FrameSamples
  BY <1>5, FullFramesLong
<1>. WITNESS Len(last) \in 1..FrameSamples
<1>. QED
  BY <1>1, <1>7, <1>8, <1>9

AsManyFrames(frames) == FramesOf(Len(FlattenSeq(frames))) = Len(frames)

\* Full frames and a last one that is not empty are cut into as many frames again.
LEMMA FullFramesAgain ==
  ASSUME NEW E, NEW frames \in Seq(Seq(E)), frames # <<>>, FullFrames(frames),
         \A i \in DOMAIN frames : Len(frames[i]) <= FrameSamples
  PROVE  AsManyFrames(frames)
<1>. DEFINE n == Len(frames)  L == Len(FlattenSeq(frames))  f == FrameSamples  m == FramesOf(L)
<1>0. n \in Nat \ {0} /\ f \in Nat \ {0} /\ L \in Nat
  BY NodeAdaptersAssumption, FlattenType
<1>1. PICK l \in 1..f : L = (n - 1) * f + l
  BY LastFrame
<1>2. FrameCount(L)
  <2>. HIDE DEF L
  <2>. QED
    BY <1>0, FramesCounted
<1>3. m \in Nat /\ L <= m * f /\ \A k \in Nat : k < m => k * f < L
  BY <1>2 DEF FrameCount
<1>. DEFINE p == (n - 1) * f
<1>4. n * f = p + f /\ p \in Nat /\ n - 1 \in Nat
  BY <1>0
<1>. HIDE DEF m, L, f, n
<1>5. ~(m < n)
  <2>. SUFFICES ASSUME m < n PROVE FALSE
    OBVIOUS
  <2>1. m <= n - 1
    BY <1>0, <1>3
  <2>2. m * f <= p
    BY <1>0, <1>3, <1>4, <2>1, ProductGrows
  <2>3. m * f \in Nat
    BY <1>0, <1>3
  <2>. DEFINE q == m * f
  <2>4. q <= p /\ q \in Nat /\ L <= q
    BY <1>3, <2>2, <2>3
  <2>. HIDE DEF q, p
  <2>5. L = p + l
    BY <1>1 DEF p
  <2>. QED
    BY <1>0, <1>1, <1>4, <2>4, <2>5
<1>6. ~(n < m)
  <2>1. n < m => n * f < L
    BY <1>0, <1>3
  <2>. HIDE DEF p
  <2>2. L = p + l
    BY <1>1 DEF p
  <2>3. L <= p + f
    BY <1>0, <1>1, <1>4, <2>2
  <2>4. n < m => p + f < L
    BY <1>4, <2>1
  <2>. QED
    BY <1>0, <1>4, <2>3, <2>4
<1>7. m = n
  BY <1>0, <1>3, <1>5, <1>6
<1>. QED
  BY <1>7 DEF AsManyFrames, m, n, L

\* What was fed is what was sent, if the frames are.
LEMMA SentIsFed ==
  ASSUME NEW r, NEW fs, FedFrames(r, fs), Len(fs) \in Nat \ {0}, NEW backend, NEW up, NEW frames,
         ~(up /\ FlattenSeq(frames) = <<>>),
         backend = "sherpa_onnx" => FlattenSeq(fs) = FlattenSeq(frames),
         backend = "fake" /\ FullFrames(frames) => Len(fs) = Len(frames)
  PROVE  FedAsSent(r, backend, up, frames)
<1>1. r.error = FALSE
  BY DEF FedFrames
<1>2. r.code # "ok" => r.cancelled /\ \A i \in DOMAIN r.fed : ~r.fed[i].last
  BY DEF FedFrames
<1>3. ASSUME r.code = "ok"
      PROVE  /\ \A i \in DOMAIN r.fed : r.fed[i].last <=> i = Len(r.fed)
             /\ r.fed # <<>>
             /\ backend = "sherpa_onnx" =>
                  FlattenSeq([i \in DOMAIN r.fed |-> r.fed[i].pcm]) = FlattenSeq(frames)
             /\ backend = "fake" /\ FullFrames(frames) => Len(r.fed) = Len(frames)
  <2>1. /\ DOMAIN r.fed = 1..Len(fs) /\ Len(r.fed) = Len(fs)
        /\ \A i \in 1..Len(fs) : r.fed[i].last <=> i = Len(fs)
        /\ [i \in DOMAIN r.fed |-> r.fed[i].pcm] = fs
    BY <1>3 DEF FedFrames
  <2>2. r.fed # <<>>
    <3>1. Len(r.fed) # 0
      BY <2>1
    <3>. QED
      BY <3>1
  <2>. QED
    BY <2>1, <2>2
<1>. QED
  BY <1>1, <1>2, <1>3 DEF FedAsSent

SampledFrames(frames) ==
  frames \in Seq(Seq(Sample)) /\ \A i \in DOMAIN frames : Len(frames[i]) <= FrameSamples

\* Samples need a frame.
LEMMA FramesCutAgain ==
  ASSUME NEW n \in Nat \ {0}
  PROVE  FramesOf(n) \in Nat \ {0}
<1>1. FrameCount(n)
  BY FramesCounted
<1>. DEFINE m == FramesOf(n)
<1>2. m \in Nat /\ n <= m * FrameSamples
  BY <1>1 DEF FrameCount
<1>. HIDE DEF m
<1>3. 0 * FrameSamples = 0
  BY NodeAdaptersAssumption
<1>4. m # 0
  BY <1>2, <1>3
<1>. QED
  BY <1>2, <1>4 DEF m

\* The number of frames.
LEMMA SlicesCount ==
  ASSUME NEW s, NEW m \in Nat
  PROVE  Len(Slices(s, m)) = m
BY DEF Slices

\* Samples that a session sends are fed, in frames of the node, by either backend.
LEMMA UplinkOfSamples ==
  ASSUME NEW frames, SampledFrames(frames), frames # <<>>, NEW stop \in Stops,
         NEW backend \in {"fake", "sherpa_onnx"}
  PROVE  FedAsSent(AsrInfer(backend, Uplink(TRUE, frames), stop), backend, TRUE, frames)
<1>. DEFINE s == FlattenSeq(frames)  b == FlattenSeq(s)  raw == [ok |-> TRUE, bytes |-> b]
            P == [how |-> "pcm64", chars |-> Base64Encode(b)]
            r == AsrInfer(backend, P, stop)
<1>0. frames \in Seq(Seq(Sample)) /\ \A i \in DOMAIN frames : Len(frames[i]) <= FrameSamples
  BY DEF SampledFrames
<1>1. s \in Seq(Sample)
  BY <1>0, FlattenType
<1>2. Uplink(TRUE, frames) = P
  BY DEF Uplink
<1>3. Paid(s, b)
  <2>. HIDE DEF s
  <2>. QED
    BY <1>1, SamplesComeBack
<1>. HIDE DEF s, b
<1>4. b \in Seq(0..255) /\ Len(b) % 2 = 0 /\ Len(b) \div 2 = Len(s)
      /\ SamplesOf(b) = s /\ (b = <<>> <=> s = <<>>)
  BY <1>3 DEF Paid
<1>5. Base64Decode(Base64Encode(b)) = raw
  BY <1>4, Base64RoundTrips
<1>6. P.how = "pcm64" /\ P.chars = Base64Encode(b) /\ raw.ok = TRUE /\ raw.bytes = b
  OBVIOUS
<1>. HIDE DEF P, raw
<1>7. r = FeedBytes(backend, raw, stop)
  BY <1>5, <1>6, Zenon DEF AsrInfer, RunPcm
<1>8. CASE s = <<>>
  <2>1. r = Error
    BY <1>4, <1>6, <1>7, <1>8, Zenon DEF FeedBytes
  <2>. HIDE DEF r
  <2>2. r.error = TRUE /\ r.code = "ok"
    BY <2>1 DEF Error, Fed
  <2>3. FedAsSent(r, backend, TRUE, frames)
    BY <1>8, <2>2 DEF FedAsSent, s
  <2>. QED
    BY <1>2, <2>3 DEF r
<1>9. CASE s # <<>>
  <2>0. FeedBytes(backend, raw, stop) =
          CASE ~raw.ok \/ raw.bytes = <<>> \/ Len(raw.bytes) % 2 # 0 -> Error
            [] OTHER -> IF backend = "sherpa_onnx" THEN FeedSamples(SamplesOf(raw.bytes), stop)
                        ELSE FeedCount(FramesOf(Len(raw.bytes) \div 2), stop)
    BY Zenon DEF FeedBytes
  <2>1. r = IF backend = "sherpa_onnx" THEN FeedSamples(s, stop) ELSE FeedCount(FramesOf(Len(s)), stop)
    BY <1>4, <1>6, <1>7, <1>9, <2>0
  <2>2. Len(s) \in Nat \ {0}
    BY <1>1, <1>9
  <2>. DEFINE m == FramesOf(Len(s))
  <2>3. m \in Nat \ {0}
    <3>. DEFINE n == Len(s)
    <3>. HIDE DEF n
    <3>. QED
      BY <2>2, FramesCutAgain DEF n
  <2>4. ~(TRUE /\ FlattenSeq(frames) = <<>>)
    BY <1>9 DEF s
  <2>5. CASE backend = "sherpa_onnx"
    <3>. DEFINE fs == Slices(s, m)
    <3>1. r = FeedSamples(s, stop)
      BY <2>1, <2>5
    <3>2. FedFrames(r, fs)
      BY <1>1, <3>1, FeedSamplesFeeds
    <3>3. FlattenSeq(fs) = s
      BY <1>1, SlicesAreAll
    <3>4. Len(fs) = m
      <4>. HIDE DEF m
      <4>. QED
        BY <2>3, SlicesCount
    <3>. HIDE DEF fs, m, r
    <3>5. backend = "sherpa_onnx" => FlattenSeq(fs) = FlattenSeq(frames)
      BY <3>3 DEF s
    <3>6. backend = "fake" /\ FullFrames(frames) => Len(fs) = Len(frames)
      BY <2>5
    <3>7. FedAsSent(r, backend, TRUE, frames)
      BY <2>3, <2>4, <3>2, <3>4, <3>5, <3>6, SentIsFed
    <3>. QED
      BY <1>2, <3>7 DEF r
  <2>6. CASE backend # "sherpa_onnx"
    <3>. DEFINE fs == [i \in 1..m |-> <<i>>]
    <3>1. r = FeedCount(m, stop)
      BY <2>1, <2>6
    <3>2. Len(fs) = m
      <4>. HIDE DEF m
      <4>. QED
        BY <2>3
    <3>3. FullFrames(frames) => m = Len(frames)
      <4>. SUFFICES ASSUME FullFrames(frames) PROVE m = Len(frames)
        OBVIOUS
      <4>1. AsManyFrames(frames)
        BY <1>0, FullFramesAgain
      <4>. QED
        BY <4>1 DEF AsManyFrames, s
    <3>. HIDE DEF m, r
    <3>4. FedFrames(r, fs)
      BY <2>3, <3>1, FeedCountFeeds
    <3>. HIDE DEF fs
    <3>5. backend = "sherpa_onnx" => FlattenSeq(fs) = FlattenSeq(frames)
      BY <2>6
    <3>6. backend = "fake" /\ FullFrames(frames) => Len(fs) = Len(frames)
      BY <3>2, <3>3
    <3>7. FedAsSent(r, backend, TRUE, frames)
      BY <2>3, <2>4, <3>2, <3>4, <3>5, <3>6, SentIsFed
    <3>. QED
      BY <1>2, <3>7 DEF r
  <2>. QED
    BY <2>5, <2>6
<1>. QED
  BY <1>8, <1>9

\* Of a session without an uplink as many frames are fed as it had.
LEMMA UplinkOfCount ==
  ASSUME NEW E, NEW frames \in Seq(E), frames # <<>>, NEW stop \in Stops
  PROVE  FedAsSent(AsrInfer("fake", Uplink(FALSE, frames), stop), "fake", FALSE, frames)
<1>. DEFINE n == Len(frames)  P == [how |-> "count", count |-> n]
            r == AsrInfer("fake", P, stop)  fs == [i \in 1..n |-> <<i>>]
<1>0. n \in Nat \ {0}
  OBVIOUS
<1>1. Uplink(FALSE, frames) = P
  BY DEF Uplink
<1>2. P.how = "count" /\ P.count = n
  OBVIOUS
<1>. HIDE DEF P
<1>3. r = RunMock(P.count, stop)
  BY <1>2 DEF AsrInfer
<1>4. r = FeedCount(n, stop)
  BY <1>0, <1>2, <1>3 DEF RunMock
<1>. HIDE DEF n, r
<1>5. FedFrames(r, fs)
  BY <1>0, <1>4, FeedCountFeeds
<1>6. Len(fs) = n
  BY <1>0
<1>. HIDE DEF fs
<1>7. ~(FALSE /\ FlattenSeq(frames) = <<>>)
  OBVIOUS
<1>8. "fake" = "sherpa_onnx" => FlattenSeq(fs) = FlattenSeq(frames)
  OBVIOUS
<1>9. "fake" = "fake" /\ FullFrames(frames) => Len(fs) = Len(frames)
  BY <1>6 DEF n
<1>10. FedAsSent(r, "fake", FALSE, frames)
  BY <1>0, <1>5, <1>6, <1>7, <1>8, <1>9, SentIsFed
<1>. QED
  BY <1>1, <1>10 DEF r

\* asr_node and the uplink of a remote session, for every number of frames of at most
\* FrameSamples samples and every stop: the session's samples are fed, the last frame is
\* marked, and a stopped recognition never gets a last frame.
THEOREM UplinksAreHeard ==
  ASSUME NEW frames, SampledFrames(frames), frames # <<>>
  PROVE  UplinkIsHeard(frames)
<1>. SUFFICES ASSUME NEW stop \in Stops, NEW backend \in {"fake", "sherpa_onnx"}, NEW up \in BOOLEAN,
                     backend = "fake" \/ up
              PROVE  FedAsSent(AsrInfer(backend, Uplink(up, frames), stop), backend, up, frames)
  BY DEF UplinkIsHeard
<1>1. CASE up = TRUE
  BY <1>1, UplinkOfSamples
<1>2. CASE up = FALSE
  <2>1. backend = "fake" /\ frames \in Seq(Seq(Sample))
    BY <1>2 DEF SampledFrames
  <2>. QED
    BY <1>2, <2>1, UplinkOfCount
<1>. QED
  BY <1>1, <1>2

WavFound(w) == w.ok => w.off \in Nat /\ w.samples \in Nat

\* Where the samples of a recording are.
LEMMA WavType ==
  ASSUME NEW chunks \in Seq(WavChunk), NEW cut \in Int, NEW head
  PROVE  WavFound(ReadWav([head |-> head, cut |-> cut, chunks |-> chunks]))
<1>. DEFINE f == [head |-> head, cut |-> cut, chunks |-> chunks]
            size == FileSize(f)
            r == HasRead(chunks, size)
            w == ReadWav(f)
<1>1. f.head = head /\ f.cut = cut /\ f.chunks = chunks
  OBVIOUS
<1>. HIDE DEF f
<1>3. FoldLeft(LAMBDA st, c : ReadChunk(st, c, size), NothingRead, chunks) = r
  BY HasReadIsFold, Zenon
<1>4. w = CASE size < 12 -> [ok |-> FALSE, error |-> "too short"]
            [] size >= 12 /\ f.head # "riff wave" -> [ok |-> FALSE, error |-> f.head]
            [] OTHER -> IF r.error = "" /\ r.data
                          THEN [ok |-> TRUE, off |-> r.off, samples |-> r.samples]
                          ELSE [ok |-> FALSE,
                                error |-> IF r.error # "" THEN r.error
                                          ELSE IF ~r.fmt THEN "no fmt" ELSE "no data"]
  BY <1>1, <1>3, Zenon DEF ReadWav
<1>5. r \in Reading
  BY ReadFcnType, ResultType DEF HasRead
<1>6. r.off \in Nat /\ r.samples \in Nat
  BY <1>5 DEF Reading
<1>. HIDE DEF size, r, w
<1>7. \/ w.ok = FALSE
      \/ w = [ok |-> TRUE, off |-> r.off, samples |-> r.samples]
  BY <1>4
<1>8. WavFound(w)
  BY <1>6, <1>7 DEF WavFound
<1>. QED
  BY <1>8 DEF w, f

Offsets(n, o) == [i \in 1..n |-> o + 2 * i]

OffsetsAre(n, o) == Offsets(n, o) \in Seq(Nat) /\ Len(Offsets(n, o)) = n

\* The places of the samples in a recording.
LEMMA OffsetsCount ==
  ASSUME NEW n \in Nat, NEW o \in Nat
  PROVE  OffsetsAre(n, o)
<1>1. \A i \in 1..n : o + 2 * i \in Nat
  OBVIOUS
<1>. QED
  BY <1>1 DEF OffsetsAre, Offsets

\* run_wav, for any chunks: a recording is fed completely, or nothing of it.
THEOREM RecordingsAreHeard ==
  ASSUME NEW chunks \in Seq(WavChunk)
  PROVE  RecordingIsHeard(chunks)
<1>. DEFINE file == [head |-> "riff wave", cut |-> 0, chunks |-> chunks]
            wav == ReadWav(file)
<1>1. WavFound(wav)
  <2>1. 0 \in Int
    OBVIOUS
  <2>. QED
    BY <2>1, WavType, Zenon
<1>. HIDE DEF file, wav
<1>2. ASSUME NEW stop \in Stops, NEW format \in {"16 kHz mono", "other"}
      PROVE  LET payload == [how |-> "path", path |-> "a", file |-> file, format |-> format]
             IN FedAsRecorded(AsrInfer("sherpa_onnx", payload, stop), wav, format)
  <2>. DEFINE P == [how |-> "path", path |-> "a", file |-> file, format |-> format]
              r == AsrInfer("sherpa_onnx", P, stop)
  <2>1. P.how = "path" /\ P.path = "a" /\ P.file = file /\ P.format = format
    OBVIOUS
  <2>. HIDE DEF P
  <2>2. r = RunWav("a", file, format, stop)
    BY <2>1 DEF AsrInfer
  <2>3. RunWav("a", file, format, stop) =
          IF "a" = "" \/ ~wav.ok \/ format # "16 kHz mono" THEN Error
          ELSE FeedSamples([i \in 1..wav.samples |-> wav.off + 2 * i], stop)
    BY Zenon DEF RunWav, wav
  <2>. HIDE DEF r
  <2>4. CASE ~wav.ok \/ format = "other"
    <3>1. r = Error
      BY <2>2, <2>3, <2>4
    <3>2. r.error = TRUE /\ r.fed = <<>>
      BY <3>1 DEF Error, Fed
    <3>. QED
      BY <2>4, <3>2 DEF FedAsRecorded, r, P
  <2>5. CASE wav.ok /\ format # "other"
    <3>. DEFINE n == wav.samples  o == wav.off  s == Offsets(n, o)  m == FramesOf(Len(s))
                fs == Slices(s, m)
    <3>1. format = "16 kHz mono" /\ n \in Nat /\ wav.off \in Nat
      BY <1>1, <2>5 DEF WavFound
    <3>2. r = FeedSamples(s, stop)
      BY <2>2, <2>3, <2>5, <3>1 DEF Offsets
    <3>3. s \in Seq(Nat) /\ Len(s) = n
      <4>1. OffsetsAre(n, o)
        BY <3>1, OffsetsCount
      <4>. QED
        BY <4>1 DEF OffsetsAre
    <3>. HIDE DEF s
    <3>4. FedFrames(r, fs)
      BY <3>2, <3>3, FeedSamplesFeeds
    <3>5. FlattenSeq(fs) = s
      BY <3>3, SlicesAreAll
    <3>. HIDE DEF fs
    <3>6. r.error = FALSE /\ (r.code = "ok" => [i \in DOMAIN r.fed |-> r.fed[i].pcm] = fs)
      BY <3>4 DEF FedFrames
    <3>7. r.code = "ok" => Len(FlattenSeq([i \in DOMAIN r.fed |-> r.fed[i].pcm])) = wav.samples
      BY <3>3, <3>5, <3>6
    <3>8. FedAsRecorded(r, wav, format)
      BY <2>5, <3>6, <3>7 DEF FedAsRecorded
    <3>. QED
      BY <3>8 DEF r, P
  <2>. QED
    BY <2>4, <2>5
<1>. QED
  BY <1>2, Zenon DEF RecordingIsHeard, file, wav

-----------------------------------------------------------------------------
(* The settings of a node: its configuration files *)

States == {"ok", "unreadable", "mistyped"}

\* The states of a reader of configuration files, and of the settings.
FileStates(node, V) == [state : States, set : [node.options -> V]]

SettingsIn(node, X, V) ==
  /\ \A o \in node.options : Default(node, o) \in V
  /\ \A f \in X, o \in node.options : o \in DOMAIN File(f).set => File(f).set[o] \in V

ReadFileFcn(node, X, V) == [x \in FileStates(node, V) \X X |-> ReadFile(node, x[1], x[2])]

HasReadFiles(node, X, V, files) ==
  Result(FileStates(node, V), ReadFileFcn(node, X, V), Defaults(node), files)

\* A configuration file is usable, unreadable, or has a value of another type.
LEMMA FileStateType ==
  ASSUME NEW f
  PROVE  File(f).state \in States
BY NodeStartupAssumption DEF File, States

\* Reading a file keeps the settings an assignment of values.
LEMMA ReadFileType ==
  ASSUME NEW node, NEW X, NEW V, SettingsIn(node, X, V), NEW st \in FileStates(node, V), NEW f \in X
  PROVE  ReadFile(node, st, f) \in FileStates(node, V)
<1>1. CASE st.state # "ok"
  BY <1>1 DEF ReadFile
<1>2. CASE st.state = "ok"
  <2>. DEFINE W(o) == IF o \in node.file \cap DOMAIN File(f).set THEN File(f).set[o] ELSE st.set[o]
              s == [o \in node.options |-> W(o)]
  <2>1. ReadFile(node, st, f) = [state |-> File(f).state, set |-> s]
    BY <1>2 DEF ReadFile
  <2>2. \A o \in node.options : W(o) \in V
    BY DEF SettingsIn, FileStates
  <2>3. s \in [node.options -> V]
    <3>. HIDE DEF W
    <3>. QED
      BY <2>2
  <2>4. File(f).state \in States
    BY FileStateType
  <2>. HIDE DEF s
  <2>. QED
    BY <2>1, <2>3, <2>4 DEF FileStates
<1>. QED
  BY <1>1, <1>2

\* Reading files is a fold over such assignments.
LEMMA ReadFileFcnType ==
  ASSUME NEW node, NEW X, NEW V, SettingsIn(node, X, V)
  PROVE  /\ ReadFileFcn(node, X, V) \in [FileStates(node, V) \X X -> FileStates(node, V)]
         /\ Defaults(node) \in FileStates(node, V)
<1>1. \A x \in FileStates(node, V) \X X : ReadFile(node, x[1], x[2]) \in FileStates(node, V)
  <2>. SUFFICES ASSUME NEW x \in FileStates(node, V) \X X
                PROVE  ReadFile(node, x[1], x[2]) \in FileStates(node, V)
    OBVIOUS
  <2>1. x[1] \in FileStates(node, V) /\ x[2] \in X
    OBVIOUS
  <2>. QED
    BY <2>1, ReadFileType
<1>2. Defaults(node) \in FileStates(node, V)
  BY DEF Defaults, FileStates, States, SettingsIn
<1>. QED
  BY <1>1, <1>2 DEF ReadFileFcn

\* ReadFiles is the result of that fold.
LEMMA ReadFilesIsFold ==
  ASSUME NEW node, NEW X, NEW V, SettingsIn(node, X, V), NEW files \in Seq(X)
  PROVE  ReadFiles(node, files) = HasReadFiles(node, X, V, files)
<1>. DEFINE D == FileStates(node, V)
            b == Defaults(node)
            F == ReadFileFcn(node, X, V)
            s == files
            Eqn(g) == g = [T \in SUBSET DOMAIN s |->
                             IF T = {} THEN b ELSE ReadFile(node, g[T \ {Max(T)}], s[Max(T)])]
            G == CHOOSE g : Eqn(g)
<1>0. DOMAIN s = 1..Len(s) /\ s \in Seq(X)
  OBVIOUS
<1>a. F \in [D \X X -> D]
  BY ReadFileFcnType
<1>b. b \in D
  BY ReadFileFcnType
<1>c. \A x \in D, e \in X : F[<<x, e>>] = ReadFile(node, x, e)
  BY DEF ReadFileFcn
<1>1. ReadFiles(node, files) = G[DOMAIN s]
  BY Zenon DEF ReadFiles, FoldLeft, MapThenFoldSet
<1>. HIDE DEF D, b, F, s
<1>2. PICK h : Unfolds(D, X, F, b, s, h)
  BY <1>0, <1>a, <1>b, FoldStart
<1>. DEFINE q == [T \in SUBSET DOMAIN s |-> h[T]]
<1>3. Eqn(q)
  BY <1>c, <1>2 DEF Unfolds
<1>4. Eqn(G)
  BY <1>3
<1>. HIDE DEF G
<1>5. G[{}] = b
  BY <1>4
<1>6. ASSUME NEW k \in 1..Len(s) PROVE FoldStep(F, D, s, G, k)
  <2>1. /\ (1..k) \in SUBSET DOMAIN s /\ (1..k) # {}
        /\ (1..k) \ {k} = 1..(k - 1) /\ Max(1..k) = k /\ s[k] \in X
    BY <1>0, FirstPositions
  <2>2. G[1..k] = ReadFile(node, G[1..(k - 1)], s[k])
    BY <2>1, <1>4
  <2>. QED
    BY <2>1, <2>2, <1>c DEF FoldStep
<1>7. Folds(F, D, b, s, G)
  BY <1>5, <1>6 DEF Folds
<1>8. EndsAs(D, F, b, s, G)
  BY <1>0, <1>a, <1>b, <1>7, FoldIsResult
<1>. QED
  BY <1>0, <1>1, <1>8 DEF EndsAs, HasReadFiles, D, F, b, s

\* The last number is the largest.
LEMMA LastIsMax ==
  ASSUME NEW n \in Nat, NEW T \in SUBSET (1..(n + 1)), n + 1 \in T
  PROVE  Max(T) = n + 1
<1>1. n + 1 \in Nat /\ \A y \in T : n + 1 >= y
  OBVIOUS
<1>. DEFINE m == n + 1
<1>. HIDE DEF m
<1>2. m \in Nat /\ T \in SUBSET (1..m) /\ m \in T /\ \A y \in T : m >= y
  BY <1>1 DEF m
<1>3. Max(T) = m
  BY <1>2, MaxIs
<1>. QED
  BY <1>3 DEF m

\* The files, of the first k, that have a value of an option, and that value.
With(node, files, o, k) == {i \in 1..k : o \in node.file \cap DOMAIN File(files[i]).set}

FileValue(node, files, o, k) ==
  IF With(node, files, o, k) # {} THEN File(files[Max(With(node, files, o, k))]).set[o]
  ELSE Default(node, o)

FilesSofar(node, files, k, st) ==
  /\ st.state = "mistyped" => \E i \in 1..k : File(files[i]).state = "mistyped"
  /\ st.state = "ok" => \A o \in node.options : st.set[o] = FileValue(node, files, o, k)

ValueStays(node, files, o, k) == FileValue(node, files, o, k + 1) = FileValue(node, files, o, k)

\* A file without a value of an option leaves the option.
LEMMA FileValueStays ==
  ASSUME NEW node, NEW files, NEW o, NEW k \in Nat,
         o \notin node.file \cap DOMAIN File(files[k + 1]).set
  PROVE  ValueStays(node, files, o, k)
<1>1. 1..(k + 1) = (1..k) \cup {k + 1}
  OBVIOUS
<1>2. With(node, files, o, k + 1) = With(node, files, o, k)
  BY <1>1 DEF With
<1>. QED
  BY <1>2 DEF FileValue, ValueStays

\* A file with a value of an option gives it this value.
LEMMA FileValueChanges ==
  ASSUME NEW node, NEW files, NEW o, NEW k \in Nat,
         o \in node.file \cap DOMAIN File(files[k + 1]).set
  PROVE  FileValue(node, files, o, k + 1) = File(files[k + 1]).set[o]
<1>. DEFINE T == With(node, files, o, k + 1)
<1>1. T \in SUBSET (1..(k + 1)) /\ k + 1 \in T
  BY DEF With
<1>2. Max(T) = k + 1
  <2>. HIDE DEF T
  <2>. QED
    BY <1>1, LastIsMax
<1>. QED
  BY <1>1, <1>2 DEF FileValue

\* One more file, and the settings are still those of the last file that has them.
LEMMA OneFileMore ==
  ASSUME NEW node, NEW files, NEW k \in Nat, NEW st, st.state \in States,
         FilesSofar(node, files, k, st)
  PROVE  FilesSofar(node, files, k + 1, ReadFile(node, st, files[k + 1]))
<1>. DEFINE f == files[k + 1]  n == ReadFile(node, st, f)
<1>1. CASE st.state # "ok"
  <2>1. n = st
    BY <1>1 DEF ReadFile
  <2>2. \A i \in 1..k : i \in 1..(k + 1)
    OBVIOUS
  <2>. QED
    BY <1>1, <2>1, <2>2 DEF FilesSofar
<1>2. CASE st.state = "ok"
  <2>. DEFINE W(o) == IF o \in node.file \cap DOMAIN File(f).set THEN File(f).set[o] ELSE st.set[o]
  <2>1. n = [state |-> File(f).state, set |-> [o \in node.options |-> W(o)]]
    BY <1>2 DEF ReadFile
  <2>2. n.state = File(f).state /\ \A o \in node.options : n.set[o] = W(o)
    BY <2>1
  <2>3. ASSUME NEW o \in node.options PROVE W(o) = FileValue(node, files, o, k + 1)
    <3>1. CASE o \in node.file \cap DOMAIN File(f).set
      BY <3>1, FileValueChanges
    <3>2. CASE o \notin node.file \cap DOMAIN File(f).set
      <4>1. ValueStays(node, files, o, k)
        BY <3>2, FileValueStays
      <4>2. W(o) = st.set[o]
        BY <3>2
      <4>3. st.set[o] = FileValue(node, files, o, k)
        BY <1>2 DEF FilesSofar
      <4>. QED
        BY <4>1, <4>2, <4>3 DEF ValueStays
    <3>. QED
      BY <3>1, <3>2
  <2>4. k + 1 \in 1..(k + 1)
    OBVIOUS
  <2>. HIDE DEF W, n
  <2>5. FilesSofar(node, files, k + 1, n)
    BY <2>2, <2>3, <2>4 DEF FilesSofar
  <2>. QED
    BY <2>5 DEF n
<1>. QED
  BY <1>1, <1>2

FilesRead(node, V, files) ==
  /\ ReadFiles(node, files) \in FileStates(node, V)
  /\ FilesSofar(node, files, Len(files), ReadFiles(node, files))

\* After all files, each option has the value of the last file that has one.
LEMMA FilesAreRead ==
  ASSUME NEW node, NEW X, NEW V, SettingsIn(node, X, V), NEW files \in Seq(X)
  PROVE  FilesRead(node, V, files)
<1>. DEFINE D == FileStates(node, V)  b == Defaults(node)  F == ReadFileFcn(node, X, V)
            n == Len(files)  r == Run(D, F, b, files)
            T == {k \in Nat : k <= n => FilesSofar(node, files, k, r[k])}
<1>0. n \in Nat
  OBVIOUS
<1>1. F \in [D \X X -> D] /\ b \in D
  BY ReadFileFcnType
<1>2. r \in [0..n -> D] /\ Step(F, b, files, r)
  <2>. HIDE DEF D, F, b
  <2>. QED
    BY <1>1, RunSteps
<1>3. r[0] = b /\ \A k \in 1..n : r[k] = F[<<r[k - 1], files[k]>>]
  BY <1>2 DEF Step
<1>. HIDE DEF r, n
<1>4. 0 \in T
  <2>1. \A o \in node.options : With(node, files, o, 0) = {}
    BY DEF With
  <2>2. b.state = "ok" /\ \A o \in node.options : b.set[o] = Default(node, o)
    BY DEF Defaults
  <2>3. FilesSofar(node, files, 0, b)
    BY <2>1, <2>2 DEF FilesSofar, FileValue
  <2>. QED
    BY <1>3, <2>3
<1>5. ASSUME NEW k \in T PROVE k + 1 \in T
  <2>. SUFFICES ASSUME k + 1 <= n PROVE FilesSofar(node, files, k + 1, r[k + 1])
    OBVIOUS
  <2>1. k \in Nat /\ k \in 0..n /\ k + 1 \in 1..n /\ (k + 1) - 1 = k
    BY <1>0
  <2>2. FilesSofar(node, files, k, r[k])
    BY <1>0
  <2>3. files[k + 1] \in X /\ r[k] \in D
    BY <1>2, <2>1 DEF n
  <2>4. r[k + 1] = F[<<r[k], files[k + 1]>>]
    BY <1>3, <2>1
  <2>5. F[<<r[k], files[k + 1]>>] = ReadFile(node, r[k], files[k + 1])
    BY <2>3 DEF ReadFileFcn
  <2>6. r[k].state \in States
    BY <2>3 DEF FileStates
  <2>. DEFINE st == r[k]
  <2>. HIDE DEF st
  <2>7. FilesSofar(node, files, k + 1, ReadFile(node, st, files[k + 1]))
    BY <2>1, <2>2, <2>6, OneFileMore DEF st
  <2>. QED
    BY <2>4, <2>5, <2>7 DEF st
<1>6. T = Nat
  <2>1. T \subseteq Nat
    OBVIOUS
  <2>. HIDE DEF T
  <2>. QED
    BY <1>4, <1>5, <2>1, NatInduct
<1>7. FilesSofar(node, files, n, r[n]) /\ r[n] \in D
  BY <1>0, <1>2, <1>6
<1>8. ReadFiles(node, files) = r[n]
  BY ReadFilesIsFold DEF HasReadFiles, Result, r, n
<1>. QED
  BY <1>7, <1>8 DEF FilesRead, n

-----------------------------------------------------------------------------
(* The settings of a node: its command line *)

\* The command line, as a fold over the positions of its arguments.
Settings(node, V) == [node.options -> V]

OptionFcn(node, args, V, n) ==
  [x \in Settings(node, V) \X (1..n) |-> OptionAt(node, args, x[1], x[2])]

Places(n) == [i \in 1..n |-> i]

HasLine(node, args, V, given) ==
  Result(Settings(node, V), OptionFcn(node, args, V, Len(args)), given, Places(Len(args)))

ArgsIn(node, args, V) ==
  /\ \A o \in node.options : Default(node, o) \in V
  /\ \A i \in 1..Len(args) : args[i] \in V
  /\ Len(args) \in Nat

\* A parsed option is a value.
LEMMA ParsedType ==
  ASSUME NEW node, NEW V, NEW o, Default(node, o) \in V, NEW value \in V, NEW old \in V
  PROVE  Parsed(node, o, value, old) \in V
BY DEF Parsed

\* An argument keeps the settings an assignment of values.
LEMMA OptionAtType ==
  ASSUME NEW node, NEW args, NEW V, ArgsIn(node, args, V), NEW set \in Settings(node, V),
         NEW i \in 1..Len(args)
  PROVE  OptionAt(node, args, set, i) \in Settings(node, V)
<1>1. CASE i = Len(args) \/ args[i] \notin node.options
  BY <1>1 DEF OptionAt
<1>2. CASE ~(i = Len(args) \/ args[i] \notin node.options)
  <2>. DEFINE o == args[i]  v == Parsed(node, o, args[i + 1], set[o])
  <2>1. i + 1 \in 1..Len(args) /\ o \in node.options
    BY <1>2 DEF ArgsIn
  <2>2. set[o] \in V /\ Default(node, o) \in V /\ args[i + 1] \in V
    BY <2>1 DEF Settings, ArgsIn
  <2>3. v \in V
    BY <2>2, ParsedType
  <2>4. OptionAt(node, args, set, i) = [set EXCEPT ![o] = v]
    BY <1>2 DEF OptionAt
  <2>. HIDE DEF v, o
  <2>. QED
    BY <2>1, <2>3, <2>4 DEF Settings
<1>. QED
  BY <1>1, <1>2

\* Reading a command line is a fold over such assignments.
LEMMA OptionFcnType ==
  ASSUME NEW node, NEW args, NEW V, ArgsIn(node, args, V)
  PROVE  OptionFcn(node, args, V, Len(args))
           \in [Settings(node, V) \X (1..Len(args)) -> Settings(node, V)]
<1>. DEFINE n == Len(args)
<1>1. \A x \in Settings(node, V) \X (1..n) : OptionAt(node, args, x[1], x[2]) \in Settings(node, V)
  <2>. SUFFICES ASSUME NEW x \in Settings(node, V) \X (1..n)
                PROVE  OptionAt(node, args, x[1], x[2]) \in Settings(node, V)
    OBVIOUS
  <2>1. x[1] \in Settings(node, V) /\ x[2] \in 1..n
    OBVIOUS
  <2>. QED
    BY <2>1, OptionAtType
<1>. QED
  BY <1>1 DEF OptionFcn

PlacesLie(n) ==
  Places(n) \in Seq(1..n) /\ Len(Places(n)) = n /\ \A i \in 1..n : Places(n)[i] = i

\* The places of a sequence are its indices.
LEMMA PlacesAre ==
  ASSUME NEW n \in Nat
  PROVE  PlacesLie(n)
BY DEF Places, PlacesLie

\* CommandLine is the result of that fold.
LEMMA LineIsFold ==
  ASSUME NEW node, NEW V, NEW args, ArgsIn(node, args, V), DOMAIN args = 1..Len(args),
         NEW given \in Settings(node, V)
  PROVE  CommandLine(node, args, given) = HasLine(node, args, V, given)
<1>. DEFINE n == Len(args)
            D == Settings(node, V)
            X == 1..n
            b == given
            F == OptionFcn(node, args, V, n)
            s == [i \in DOMAIN args |-> i]
            Eqn(g) == g = [T \in SUBSET DOMAIN s |->
                             IF T = {} THEN b ELSE OptionAt(node, args, g[T \ {Max(T)}], s[Max(T)])]
            G == CHOOSE g : Eqn(g)
<1>n. n \in Nat
  BY DEF ArgsIn
<1>s. s = Places(n)
  BY DEF Places
<1>0. DOMAIN s = 1..Len(s) /\ s \in Seq(X)
  <2>1. PlacesLie(n)
    BY <1>n, PlacesAre
  <2>. HIDE DEF s, n
  <2>. QED
    BY <1>s, <2>1 DEF PlacesLie
<1>a. F \in [D \X X -> D]
  BY OptionFcnType
<1>b. b \in D
  OBVIOUS
<1>c. \A x \in D, e \in X : F[<<x, e>>] = OptionAt(node, args, x, e)
  BY DEF OptionFcn
<1>1. CommandLine(node, args, given) = G[DOMAIN s]
  BY Zenon DEF CommandLine, FoldLeftDomain, FoldLeft, MapThenFoldSet
<1>. HIDE DEF D, b, F, s, X
<1>2. PICK h : Unfolds(D, X, F, b, s, h)
  BY <1>0, <1>a, <1>b, FoldStart
<1>. DEFINE q == [T \in SUBSET DOMAIN s |-> h[T]]
<1>3. Eqn(q)
  BY <1>c, <1>2 DEF Unfolds
<1>4. Eqn(G)
  BY <1>3
<1>. HIDE DEF G
<1>5. G[{}] = b
  BY <1>4
<1>6. ASSUME NEW k \in 1..Len(s) PROVE FoldStep(F, D, s, G, k)
  <2>1. /\ (1..k) \in SUBSET DOMAIN s /\ (1..k) # {}
        /\ (1..k) \ {k} = 1..(k - 1) /\ Max(1..k) = k /\ s[k] \in X
    BY <1>0, FirstPositions
  <2>2. G[1..k] = OptionAt(node, args, G[1..(k - 1)], s[k])
    BY <2>1, <1>4
  <2>. QED
    BY <2>1, <2>2, <1>c DEF FoldStep
<1>7. Folds(F, D, b, s, G)
  BY <1>5, <1>6 DEF Folds
<1>8. EndsAs(D, F, b, s, G)
  BY <1>0, <1>a, <1>b, <1>7, FoldIsResult
<1>. QED
  BY <1>0, <1>1, <1>8, <1>s DEF EndsAs, HasLine, D, F, b

\* The places, of the first k, that give an option a value, and that value.
Giving(node, args, o, k) ==
  {i \in 1..k : i < Len(args) /\ args[i] = o /\ ~(o \in node.numbers /\ args[i + 1] = "word")}

Given(node, args, o, i) ==
  IF o \in node.resets /\ args[i + 1] = "word" THEN Default(node, o) ELSE args[i + 1]

LineValue(node, args, given, o, k) ==
  IF Giving(node, args, o, k) # {} THEN Given(node, args, o, Max(Giving(node, args, o, k)))
  ELSE given[o]

LineSofar(node, args, given, k, s) ==
  \A o \in node.options : s[o] = LineValue(node, args, given, o, k)

LineStays(node, args, given, o, k) ==
  LineValue(node, args, given, o, k + 1) = LineValue(node, args, given, o, k)

\* An argument that gives an option no value leaves the option.
LEMMA LineValueStays ==
  ASSUME NEW node, NEW args, NEW given, NEW o, NEW k \in Nat,
         k + 1 \notin Giving(node, args, o, k + 1)
  PROVE  LineStays(node, args, given, o, k)
<1>1. 1..(k + 1) = (1..k) \cup {k + 1}
  OBVIOUS
<1>2. Giving(node, args, o, k + 1) = Giving(node, args, o, k)
  BY <1>1 DEF Giving
<1>. QED
  BY <1>2 DEF LineValue, LineStays

\* An argument that gives an option a value is the last one that does.
LEMMA LineValueChanges ==
  ASSUME NEW node, NEW args, NEW given, NEW o, NEW k \in Nat,
         k + 1 \in Giving(node, args, o, k + 1)
  PROVE  LineValue(node, args, given, o, k + 1) = Given(node, args, o, k + 1)
<1>. DEFINE T == Giving(node, args, o, k + 1)
<1>1. T \in SUBSET (1..(k + 1)) /\ k + 1 \in T
  BY DEF Giving
<1>2. Max(T) = k + 1
  <2>. HIDE DEF T
  <2>. QED
    BY <1>1, LastIsMax
<1>. QED
  BY <1>1, <1>2 DEF LineValue

\* One more argument, and the settings are still those of the last argument that gives them.
LEMMA OneOptionMore ==
  ASSUME NEW node, node.numbers \cap node.resets = {}, NEW args, Len(args) \in Nat, NEW given,
         NEW V, NEW s \in Settings(node, V), NEW k \in Nat, k + 1 <= Len(args),
         LineSofar(node, args, given, k, s)
  PROVE  LineSofar(node, args, given, k + 1, OptionAt(node, args, s, k + 1))
<1>. DEFINE j == k + 1  a == args[j]  n == OptionAt(node, args, s, j)
            L(o) == LineValue(node, args, given, o, j)
<1>0. j \in Nat /\ j \in 1..j /\ j <= Len(args)
  OBVIOUS
<1>1. \A o \in node.options : s[o] = LineValue(node, args, given, o, k)
  BY DEF LineSofar
<1>2. ASSUME NEW o \in node.options, j \notin Giving(node, args, o, j) PROVE s[o] = L(o)
  BY <1>1, <1>2, LineValueStays DEF LineStays
<1>3. ASSUME NEW o \in node.options, j \in Giving(node, args, o, j) PROVE L(o) = Given(node, args, o, j)
  BY <1>3, LineValueChanges
<1>4. \A o : j \in Giving(node, args, o, j)
               <=> j < Len(args) /\ a = o /\ ~(o \in node.numbers /\ args[j + 1] = "word")
  BY <1>0 DEF Giving
<1>. HIDE DEF L
<1>5. CASE j = Len(args) \/ a \notin node.options
  <2>1. n = s
    BY <1>5 DEF OptionAt
  <2>2. \A o \in node.options : j \notin Giving(node, args, o, j)
    BY <1>0, <1>4, <1>5
  <2>3. \A o \in node.options : s[o] = L(o)
    BY <1>2, <2>2
  <2>. QED
    BY <2>1, <2>3 DEF LineSofar, L
<1>6. CASE ~(j = Len(args) \/ a \notin node.options)
  <2>. DEFINE v == Parsed(node, a, args[j + 1], s[a])
  <2>1. n = [s EXCEPT ![a] = v]
    BY <1>6 DEF OptionAt
  <2>2. a \in node.options /\ j < Len(args)
    BY <1>0, <1>6
  <2>3. DOMAIN s = node.options
    BY DEF Settings
  <2>4. v = L(a)
    <3>1. CASE args[j + 1] = "word" /\ a \in node.numbers
      <4>1. v = s[a]
        BY <3>1 DEF Parsed
      <4>2. j \notin Giving(node, args, a, j)
        BY <1>4, <3>1
      <4>. QED
        BY <1>2, <2>2, <4>1, <4>2
    <3>2. CASE ~(args[j + 1] = "word" /\ a \in node.numbers)
      <4>1. j \in Giving(node, args, a, j)
        BY <1>4, <2>2, <3>2
      <4>2. L(a) = Given(node, args, a, j)
        BY <1>3, <2>2, <4>1
      <4>3. v = Given(node, args, a, j)
        BY <3>2 DEF Parsed, Given
      <4>. QED
        BY <4>2, <4>3
    <3>. QED
      BY <3>1, <3>2
  <2>5. ASSUME NEW o \in node.options, o # a PROVE s[o] = L(o)
    <3>1. j \notin Giving(node, args, o, j)
      BY <1>4, <2>5
    <3>. QED
      BY <1>2, <3>1
  <2>. HIDE DEF v, n, a
  <2>6. \A o \in node.options : n[o] = L(o)
    BY <2>1, <2>2, <2>3, <2>4, <2>5
  <2>. QED
    BY <2>6 DEF LineSofar, L, n
<1>. QED
  BY <1>5, <1>6

\* After the whole command line, each option has the value of the last argument that gives it one.
LEMMA LineIsRead ==
  ASSUME NEW node, node.numbers \cap node.resets = {}, NEW V, NEW args, ArgsIn(node, args, V),
         DOMAIN args = 1..Len(args), NEW given \in Settings(node, V)
  PROVE  LineSofar(node, args, given, Len(args), CommandLine(node, args, given))
<1>. DEFINE n == Len(args)  D == Settings(node, V)  F == OptionFcn(node, args, V, n)  X == 1..n
            p == Places(n)  r == Run(D, F, given, p)
            T == {k \in Nat : k <= n => LineSofar(node, args, given, k, r[k])}
<1>0. n \in Nat
  BY DEF ArgsIn
<1>1. F \in [D \X X -> D] /\ given \in D
  BY OptionFcnType
<1>2. p \in Seq(X) /\ Len(p) = n /\ \A i \in 1..n : p[i] = i
  <2>. HIDE DEF n
  <2>1. PlacesLie(n)
    BY <1>0, PlacesAre
  <2>. QED
    BY <2>1 DEF PlacesLie
<1>. HIDE DEF p
<1>3. r \in [0..Len(p) -> D] /\ Step(F, given, p, r)
  <2>. HIDE DEF D, F, X
  <2>. QED
    BY <1>1, <1>2, RunSteps
<1>4. r \in [0..n -> D] /\ r[0] = given /\ \A k \in 1..n : r[k] = F[<<r[k - 1], k>>]
  BY <1>2, <1>3 DEF Step
<1>. HIDE DEF r, n
<1>5. 0 \in T
  <2>1. \A o \in node.options : Giving(node, args, o, 0) = {}
    BY DEF Giving
  <2>2. LineSofar(node, args, given, 0, given)
    BY <2>1 DEF LineSofar, LineValue
  <2>. QED
    BY <1>4, <2>2
<1>6. ASSUME NEW k \in T PROVE k + 1 \in T
  <2>. SUFFICES ASSUME k + 1 <= n PROVE LineSofar(node, args, given, k + 1, r[k + 1])
    OBVIOUS
  <2>1. k \in Nat /\ k \in 0..n /\ k + 1 \in 1..n /\ (k + 1) - 1 = k
    BY <1>0
  <2>2. LineSofar(node, args, given, k, r[k])
    BY <1>0
  <2>3. r[k] \in D
    BY <1>4, <2>1
  <2>4. r[k + 1] = F[<<r[k], k + 1>>]
    BY <1>4, <2>1
  <2>5. F[<<r[k], k + 1>>] = OptionAt(node, args, r[k], k + 1)
    BY <2>1, <2>3 DEF OptionFcn
  <2>. DEFINE st == r[k]
  <2>. HIDE DEF st
  <2>6. LineSofar(node, args, given, k + 1, OptionAt(node, args, st, k + 1))
    BY <1>0, <2>1, <2>2, <2>3, OneOptionMore DEF st, n
  <2>. QED
    BY <2>4, <2>5, <2>6 DEF st
<1>7. T = Nat
  <2>1. T \subseteq Nat
    OBVIOUS
  <2>. HIDE DEF T
  <2>. QED
    BY <1>5, <1>6, <2>1, NatInduct
<1>8. LineSofar(node, args, given, n, r[n])
  BY <1>0, <1>7
<1>9. CommandLine(node, args, given) = r[n]
  BY <1>2, LineIsFold DEF HasLine, Result, r, n, p
<1>. QED
  BY <1>8, <1>9 DEF n

-----------------------------------------------------------------------------
(* The start of a node *)

\* The configuration files of a command line, as a fold over its positions.
ConfigFcn(args, X, n) == [x \in Seq(X) \X (1..n) |-> ConfigAt(args, x[1], x[2])]

HasConfigs(args, X) == Result(Seq(X), ConfigFcn(args, X, Len(args)), <<>>, Places(Len(args)))

\* Finding the configuration files is a fold over sequences of them.
LEMMA ConfigFcnType ==
  ASSUME NEW X, NEW args \in Seq(X)
  PROVE  /\ ConfigFcn(args, X, Len(args)) \in [Seq(X) \X (1..Len(args)) -> Seq(X)]
         /\ <<>> \in Seq(X)
<1>. DEFINE n == Len(args)
<1>0. n \in Nat /\ \A i \in 1..n : args[i] \in X
  OBVIOUS
<1>1. ASSUME NEW x \in Seq(X) \X (1..n) PROVE ConfigAt(args, x[1], x[2]) \in Seq(X)
  <2>. DEFINE files == x[1]  i == x[2]
  <2>1. files \in Seq(X) /\ i \in 1..n
    OBVIOUS
  <2>. HIDE DEF files, i
  <2>2. i < n => args[i + 1] \in X
    BY <1>0, <2>1
  <2>3. ConfigAt(args, files, i) \in Seq(X)
    BY <2>1, <2>2 DEF ConfigAt
  <2>. QED
    BY <2>3 DEF files, i
<1>. QED
  BY <1>1 DEF ConfigFcn

\* ConfigsOf is the result of that fold.
LEMMA ConfigsIsFold ==
  ASSUME NEW X, NEW args \in Seq(X)
  PROVE  ConfigsOf(args) = HasConfigs(args, X)
<1>. DEFINE n == Len(args)
            D == Seq(X)
            P == 1..n
            b == <<>>
            F == ConfigFcn(args, X, n)
            s == [i \in DOMAIN args |-> i]
            Eqn(g) == g = [T \in SUBSET DOMAIN s |->
                             IF T = {} THEN b ELSE ConfigAt(args, g[T \ {Max(T)}], s[Max(T)])]
            G == CHOOSE g : Eqn(g)
<1>n. n \in Nat /\ DOMAIN args = 1..n
  OBVIOUS
<1>s. s = Places(n)
  BY <1>n DEF Places
<1>0. DOMAIN s = 1..Len(s) /\ s \in Seq(P)
  <2>1. PlacesLie(n)
    BY <1>n, PlacesAre
  <2>. HIDE DEF s, n
  <2>. QED
    BY <1>s, <2>1 DEF PlacesLie
<1>a. F \in [D \X P -> D]
  BY ConfigFcnType
<1>b. b \in D
  BY ConfigFcnType
<1>c. \A x \in D, e \in P : F[<<x, e>>] = ConfigAt(args, x, e)
  BY DEF ConfigFcn
<1>1. ConfigsOf(args) = G[DOMAIN s]
  BY Zenon DEF ConfigsOf, FoldLeftDomain, FoldLeft, MapThenFoldSet
<1>. HIDE DEF D, b, F, s, P
<1>2. PICK h : Unfolds(D, P, F, b, s, h)
  BY <1>0, <1>a, <1>b, FoldStart
<1>. DEFINE q == [T \in SUBSET DOMAIN s |-> h[T]]
<1>3. Eqn(q)
  BY <1>c, <1>2 DEF Unfolds
<1>4. Eqn(G)
  BY <1>3
<1>. HIDE DEF G
<1>5. G[{}] = b
  BY <1>4
<1>6. ASSUME NEW k \in 1..Len(s) PROVE FoldStep(F, D, s, G, k)
  <2>1. /\ (1..k) \in SUBSET DOMAIN s /\ (1..k) # {}
        /\ (1..k) \ {k} = 1..(k - 1) /\ Max(1..k) = k /\ s[k] \in P
    BY <1>0, FirstPositions
  <2>2. G[1..k] = ConfigAt(args, G[1..(k - 1)], s[k])
    BY <2>1, <1>4
  <2>. QED
    BY <2>1, <2>2, <1>c DEF FoldStep
<1>7. Folds(F, D, b, s, G)
  BY <1>5, <1>6 DEF Folds
<1>8. EndsAs(D, F, b, s, G)
  BY <1>0, <1>a, <1>b, <1>7, FoldIsResult
<1>. QED
  BY <1>0, <1>1, <1>8, <1>s DEF EndsAs, HasConfigs, D, F, b

\* The configuration files are arguments.
LEMMA ConfigsType ==
  ASSUME NEW X, NEW args \in Seq(X)
  PROVE  ConfigsOf(args) \in Seq(X)
<1>. DEFINE n == Len(args)  D == Seq(X)  F == ConfigFcn(args, X, n)  p == Places(n)  P == 1..n
<1>1. F \in [D \X P -> D] /\ <<>> \in D
  BY ConfigFcnType
<1>2. p \in Seq(P)
  <2>1. n \in Nat
    OBVIOUS
  <2>. HIDE DEF n
  <2>2. PlacesLie(n)
    BY <2>1, PlacesAre
  <2>. QED
    BY <2>2 DEF PlacesLie
<1>. HIDE DEF p, F, P
<1>3. Result(D, F, <<>>, p) \in D
  <2>. HIDE DEF D
  <2>. QED
    BY <1>1, <1>2, ResultType
<1>. QED
  BY <1>3, ConfigsIsFold DEF HasConfigs, p, F

\* The settings that the files and the command line leave.
Resolved(node, args, files) == CommandLine(node, args, ReadFiles(node, files).set)

AsDeclared(node, args, files) ==
  /\ ReadFiles(node, files).state \in States
  /\ ReadFiles(node, files).state = "mistyped" =>
       \E f \in Range(files) : File(f).state = "mistyped"
  /\ ReadFiles(node, files).state = "ok" =>
       \A o \in node.options : Resolved(node, args, files)[o] = Declared(node, args, files, o)

\* The option parsing of the four nodes, for every command line, every number of files and
\* whatever they hold: if the files could be read, every option has the value that was declared
\* for it, the last one on the command line, else the last file's, else the default.
THEOREM OptionsAsDeclared ==
  ASSUME NEW node, node.numbers \cap node.resets = {}, NEW X, NEW args \in Seq(X),
         NEW Y, NEW files \in Seq(Y)
  PROVE  AsDeclared(node, args, files)
<1>. DEFINE O == node.options  n == Len(args)  m == Len(files)
            V == {Default(node, o) : o \in O} \cup X \cup {File(f).set[o] : f \in Y, o \in O}
            r == ReadFiles(node, files)
            s == CommandLine(node, args, r.set)
<1>0. n \in Nat /\ m \in Nat /\ DOMAIN args = 1..n /\ DOMAIN files = 1..m
      /\ \A i \in 1..n : args[i] \in X
  OBVIOUS
<1>1. SettingsIn(node, Y, V)
  BY DEF SettingsIn
<1>2. ArgsIn(node, args, V)
  BY <1>0 DEF ArgsIn
<1>. HIDE DEF V
<1>3. FilesRead(node, V, files)
  BY <1>1, FilesAreRead
<1>. HIDE DEF r
<1>4. r \in FileStates(node, V) /\ FilesSofar(node, files, m, r)
  BY <1>3 DEF FilesRead, r
<1>5. r.state \in States /\ r.set \in Settings(node, V)
  BY <1>4 DEF FileStates, Settings
<1>6. LineSofar(node, args, r.set, n, s)
  <2>. DEFINE g == r.set
  <2>. HIDE DEF g
  <2>1. g \in Settings(node, V)
    BY <1>5 DEF g
  <2>2. LineSofar(node, args, g, Len(args), CommandLine(node, args, g))
    BY <1>0, <1>2, <2>1, LineIsRead
  <2>. QED
    BY <2>2 DEF g
<1>7. ASSUME r.state = "mistyped" PROVE \E f \in Range(files) : File(f).state = "mistyped"
  <2>1. PICK i \in 1..m : File(files[i]).state = "mistyped"
    BY <1>4, <1>7 DEF FilesSofar
  <2>2. files[i] \in Range(files)
    BY <1>0, <2>1 DEF Range
  <2>. QED
    BY <2>1, <2>2
<1>8. ASSUME r.state = "ok", NEW o \in O PROVE s[o] = Declared(node, args, files, o)
  <2>. DEFINE at == Giving(node, args, o, n)  with == With(node, files, o, m)
  <2>1. s[o] = LineValue(node, args, r.set, o, n)
    BY <1>6 DEF LineSofar
  <2>2. r.set[o] = FileValue(node, files, o, m)
    BY <1>4, <1>8 DEF FilesSofar
  <2>3. at = {i \in 1..(n - 1) : args[i] = o /\ ~(o \in node.numbers /\ args[i + 1] = "word")}
    <3>1. \A i : i \in 1..n /\ i < n <=> i \in 1..(n - 1)
      BY <1>0
    <3>. QED
      BY <3>1 DEF Giving
  <2>4. with = {i \in DOMAIN files : o \in node.file \cap DOMAIN File(files[i]).set}
    BY <1>0 DEF With
  <2>5. Declared(node, args, files, o) =
          IF at # {} THEN IF o \in node.resets /\ args[Max(at) + 1] = "word" THEN Default(node, o)
                          ELSE args[Max(at) + 1]
          ELSE IF with # {} THEN File(files[Max(with)]).set[o] ELSE Default(node, o)
    <3>. HIDE DEF at, with
    <3>. QED
      BY <2>3, <2>4, Zenon DEF Declared
  <2>6. s[o] = IF at # {} THEN IF o \in node.resets /\ args[Max(at) + 1] = "word" THEN Default(node, o)
                               ELSE args[Max(at) + 1]
               ELSE r.set[o]
    BY <2>1, Zenon DEF LineValue, Given
  <2>7. r.set[o] = IF with # {} THEN File(files[Max(with)]).set[o] ELSE Default(node, o)
    BY <2>2, Zenon DEF FileValue
  <2>. HIDE DEF at, with, s
  <2>. QED
    BY <2>5, <2>6, <2>7
<1>. QED
  BY <1>5, <1>7, <1>8 DEF AsDeclared, Resolved, r

\* The node's options include the ones that every node has.
NodeOptions(node) == node.numbers \cap node.resets = {}

\* main() of asr_node, llm_node and tts_node, for every command line and whatever is broken: a
\* node that serves has the declared settings, pairs its event endpoints and has a factory that
\* works; it aborts only by the bind of its events or a setting of another type.
THEOREM NodeStartIsSound ==
  ASSUME NEW node, NodeOptions(node), NEW X, NEW args \in Seq(X), NEW broken
  PROVE  NodeStartsSound(node, StartNode(node, args, broken), args, broken)
<1>. DEFINE files == ConfigsOf(args)  read == ReadFiles(node, files)
            s == CommandLine(node, args, read.set)
            refused == \/ Refused(node, s, broken)
                       \/ "--sink" \in node.options /\ RefusedSink(s, broken)
            good == [set |-> s, result |-> IF refused THEN "exit" ELSE Bind(s, broken)]
            r == StartNode(node, args, broken)
<1>1. AsDeclared(node, args, files)
  <2>1. files \in Seq(X)
    BY ConfigsType
  <2>. HIDE DEF files
  <2>. QED
    BY <2>1, OptionsAsDeclared DEF NodeOptions
<1>2. r = IF read.state # "ok" THEN Ended(read.state) ELSE good
  BY Zenon DEF StartNode
<1>. HIDE DEF files
<1>3. CASE read.state # "ok"
  <2>1. r = Ended(read.state)
    BY <1>2, <1>3
  <2>2. read.state \in {"unreadable", "mistyped"}
    BY <1>1, <1>3 DEF AsDeclared, States
  <2>3. r.result = IF read.state = "unreadable" THEN "exit" ELSE "abort"
    BY <2>1 DEF Ended
  <2>. HIDE DEF r, read
  <2>4. r.result = "abort" => \E f \in Range(files) : File(f).state = "mistyped"
    BY <1>1, <2>2, <2>3 DEF AsDeclared, read
  <2>5. r.result # "serving"
    BY <2>2, <2>3
  <2>. QED
    BY <2>4, <2>5, Zenon DEF NodeStartsSound, r, files
<1>4. CASE read.state = "ok"
  <2>1. r = good
    BY <1>2, <1>4
  <2>2. r.set = s /\ r.result = IF refused THEN "exit" ELSE Bind(s, broken)
    BY <2>1
  <2>3. \A o \in node.options : s[o] = Declared(node, args, files, o)
    BY <1>1, <1>4 DEF AsDeclared, Resolved
  <2>. HIDE DEF s, r
  <2>4. Bind(s, broken) = "abort" => "events" \in broken
    BY DEF Bind
  <2>5. ASSUME r.result = "serving" PROVE ~Refused(node, s, broken)
    BY <2>2, <2>5
  <2>6. r.result = "abort" => "events" \in broken
    BY <2>2, <2>4
  <2>7. ~Refused(node, s, broken) =>
          /\ s["--events"] = "" <=> s["--events-sync"] = ""
          /\ ~FactoryThrows(node, s, broken)
    BY DEF Refused, FactoryThrows
  <2>8. r.result = "serving" =>
          /\ \A o \in node.options : r.set[o] = Declared(node, args, ConfigsOf(args), o)
          /\ r.set["--events"] = "" <=> r.set["--events-sync"] = ""
          /\ ~FactoryThrows(node, r.set, broken)
    BY <2>2, <2>3, <2>5, <2>7 DEF files
  <2>. QED
    BY <2>6, <2>8, Zenon DEF NodeStartsSound, r
<1>. QED
  BY <1>3, <1>4

\* No option of a node is both a number that is kept and one that is reset.
LEMMA NodeOptionsApart ==
  NodeOptions(AsrNode) /\ NodeOptions(LlmNode) /\ NodeOptions(TtsNode) /\ NodeOptions(SessionNode)
BY DEF NodeOptions, AsrNode, LlmNode, TtsNode, SessionNode

\* main() of session_node, for every command line: it serves with the declared settings, and
\* with paired endpoints when it uses remote backends.
THEOREM SessionStartIsSound ==
  ASSUME NEW X, NEW args \in Seq(X)
  PROVE  SessionStartsSound(args)
<1>. DEFINE node == SessionNode  files == LastConfig(args)  read == ReadFiles(node, files)
            s == CommandLine(node, args, read.set)
            unpaired == \E e \in SessionEnds :
                          (s[EndOption(e, "events")] = "") # (s[EndOption(e, "sync")] = "")
            end == IF \/ s["--backend"] \notin {"embedded", "net"}
                      \/ s["--backend"] = "net" /\ unpaired
                      \/ "listen" \in {} THEN "exit" ELSE "serving"
            good == [set |-> s, uplink |-> AsrUplink(args, File(Head(files)).set), result |-> end]
            r == SessionStart(args, {})
<1>1. AsDeclared(node, args, files)
  <2>. DEFINE f == IF ConfigsOf(args) = <<>> THEN "default.json" ELSE Last(ConfigsOf(args))  Y == {f}
  <2>1. files = <<f>>
    BY DEF LastConfig
  <2>. HIDE DEF f, files
  <2>2. files \in Seq(Y)
    BY <2>1
  <2>. HIDE DEF Y, node
  <2>3. node.numbers \cap node.resets = {}
    BY NodeOptionsApart DEF NodeOptions, node
  <2>. QED
    BY <2>2, <2>3, OptionsAsDeclared
<1>2. r = IF read.state # "ok" THEN Ended(read.state) ELSE good
  BY Zenon DEF SessionStart
<1>. HIDE DEF files, node
<1>3. CASE read.state # "ok"
  <2>1. r = Ended(read.state)
    BY <1>2, <1>3
  <2>2. r.result = IF read.state = "unreadable" THEN "exit" ELSE "abort"
    BY <2>1 DEF Ended
  <2>. HIDE DEF r, read
  <2>3. r.result # "serving"
    BY <2>2
  <2>. QED
    BY <2>3, Zenon DEF SessionStartsSound, r
<1>4. CASE read.state = "ok"
  <2>1. r = good
    BY <1>2, <1>4
  <2>. HIDE DEF end
  <2>2. r.set = s /\ r.result = end
    BY <2>1
  <2>3. \A o \in node.options : s[o] = Declared(node, args, files, o)
    BY <1>1, <1>4 DEF AsDeclared, Resolved
  <2>. HIDE DEF s, r, read
  <2>4. end = "serving" => ~(s["--backend"] = "net" /\ unpaired)
    BY DEF end
  <2>5. ~unpaired => \A e \in SessionEnds : s[EndOption(e, "events")] = "" <=> s[EndOption(e, "sync")] = ""
    OBVIOUS
  <2>. HIDE DEF unpaired
  <2>6. r.result = "serving" =>
          /\ \A o \in SessionNode.options : r.set[o] = Declared(SessionNode, args, LastConfig(args), o)
          /\ r.set["--backend"] = "net" => \A e \in SessionEnds :
               r.set[EndOption(e, "events")] = "" <=> r.set[EndOption(e, "sync")] = ""
    BY <2>2, <2>3, <2>4, <2>5 DEF node, files
  <2>. QED
    BY <2>6, Zenon DEF SessionStartsSound, r
<1>. QED
  BY <1>3, <1>4

-----------------------------------------------------------------------------
(* A flag among the options *)

\* Two folds over positions, of which one has a position that changes nothing.
Shifted(D, F, G, i, n) ==
  /\ \A x \in D : F[<<x, i>>] = x
  /\ \A x \in D, k \in 1..(n - 1) : k < i => G[<<x, k>>] = F[<<x, k>>]
  /\ \A x \in D, k \in 1..(n - 1) : i <= k => G[<<x, k>>] = F[<<x, k + 1>>]

SameResult(D, F, G, b, n) == Result(D, G, b, Places(n - 1)) = Result(D, F, b, Places(n))

RunsOver(D, F, b, n, r) ==
  /\ r \in [0..n -> D] /\ r[0] = b
  /\ \A k \in 1..n : r[k] = F[<<r[k - 1], k>>]
  /\ Result(D, F, b, Places(n)) = r[n]

\* A fold over positions, step by step.
LEMMA PlacesRun ==
  ASSUME NEW D, NEW n \in Nat, NEW F \in [D \X (1..n) -> D], NEW b \in D
  PROVE  RunsOver(D, F, b, n, Run(D, F, b, Places(n)))
<1>. DEFINE p == Places(n)  X == 1..n  r == Run(D, F, b, p)
<1>1. p \in Seq(X) /\ Len(p) = n /\ \A i \in 1..n : p[i] = i
  BY PlacesAre DEF PlacesLie
<1>. HIDE DEF p
<1>2. r \in [0..Len(p) -> D] /\ Step(F, b, p, r)
  <2>. HIDE DEF X
  <2>1. F \in [D \X X -> D]
    BY DEF X
  <2>. QED
    BY <1>1, <2>1, RunSteps
<1>3. Result(D, F, b, p) = r[n]
  BY <1>1 DEF Result
<1>. HIDE DEF r
<1>4. r \in [0..n -> D] /\ r[0] = b /\ \A k \in 1..n : r[k] = F[<<r[k - 1], k>>]
  BY <1>1, <1>2 DEF Step
<1>. QED
  BY <1>3, <1>4 DEF RunsOver, r, p

\* Two folds of which one has a position more that changes nothing end the same.
LEMMA ShiftedRuns ==
  ASSUME NEW D, NEW n \in Nat \ {0}, NEW i \in 1..n, NEW F \in [D \X (1..n) -> D],
         NEW G \in [D \X (1..(n - 1)) -> D], NEW b \in D, Shifted(D, F, G, i, n)
  PROVE  SameResult(D, F, G, b, n)
<1>. DEFINE m == n - 1  r == Run(D, F, b, Places(n))  q == Run(D, G, b, Places(m))
            T == {k \in Nat : k <= m => q[k] = IF k < i THEN r[k] ELSE r[k + 1]}
<1>0. m \in Nat /\ n \in Nat /\ n = m + 1 /\ i \in Nat /\ 1 <= i /\ i <= n
  OBVIOUS
<1>1. /\ r \in [0..n -> D] /\ r[0] = b
      /\ \A k \in 1..n : r[k] = F[<<r[k - 1], k>>]
      /\ Result(D, F, b, Places(n)) = r[n]
  <2>1. RunsOver(D, F, b, n, r)
    BY <1>0, PlacesRun
  <2>. HIDE DEF r
  <2>. QED
    BY <2>1 DEF RunsOver
<1>2. /\ q \in [0..m -> D] /\ q[0] = b
      /\ \A k \in 1..m : q[k] = G[<<q[k - 1], k>>]
      /\ Result(D, G, b, Places(m)) = q[m]
  <2>1. G \in [D \X (1..m) -> D]
    OBVIOUS
  <2>. HIDE DEF m
  <2>2. RunsOver(D, G, b, m, q)
    BY <1>0, <2>1, PlacesRun
  <2>. HIDE DEF q
  <2>. QED
    BY <2>2 DEF RunsOver
<1>3. /\ \A x \in D : F[<<x, i>>] = x
      /\ \A x \in D, k \in 1..m : k < i => G[<<x, k>>] = F[<<x, k>>]
      /\ \A x \in D, k \in 1..m : i <= k => G[<<x, k>>] = F[<<x, k + 1>>]
  BY DEF Shifted
<1>. HIDE DEF r, q, m
<1>4. r[i] = r[i - 1]
  <2>1. i - 1 \in 0..n /\ i \in 1..n
    BY <1>0
  <2>2. r[i - 1] \in D /\ r[i] = F[<<r[i - 1], i>>]
    BY <1>1, <2>1
  <2>. QED
    BY <1>3, <2>2
<1>5. 0 \in T
  BY <1>0, <1>1, <1>2
<1>6. ASSUME NEW k \in T PROVE k + 1 \in T
  <2>. SUFFICES ASSUME k + 1 <= m
                PROVE  q[k + 1] = IF k + 1 < i THEN r[k + 1] ELSE r[(k + 1) + 1]
    OBVIOUS
  <2>1. /\ k \in Nat /\ k + 1 \in 1..m /\ (k + 1) - 1 = k /\ k \in 0..n /\ k + 1 \in 0..n
        /\ k + 2 \in 1..n /\ (k + 2) - 1 = k + 1 /\ k + 1 \in 1..n /\ (k + 1) + 1 = k + 2
    BY <1>0
  <2>2. q[k] = IF k < i THEN r[k] ELSE r[k + 1]
    BY <1>0
  <2>3. q[k + 1] = G[<<q[k], k + 1>>]
    BY <1>2, <2>1
  <2>4. r[k] \in D /\ r[k + 1] \in D
    BY <1>1, <2>1
  <2>5. r[k + 1] = F[<<r[k], k + 1>>] /\ r[k + 2] = F[<<r[k + 1], k + 2>>]
    BY <1>1, <2>1
  <2>6. CASE k + 1 < i
    <3>1. q[k] = r[k]
      BY <1>0, <2>1, <2>2, <2>6
    <3>2. G[<<r[k], k + 1>>] = F[<<r[k], k + 1>>]
      BY <1>3, <2>1, <2>4, <2>6
    <3>. QED
      BY <2>3, <2>5, <2>6, <3>1, <3>2
  <2>7. CASE k + 1 = i
    <3>1. q[k] = r[k] /\ i - 1 = k
      BY <1>0, <2>1, <2>2, <2>7
    <3>2. r[k + 1] = r[k]
      BY <1>4, <2>7, <3>1
    <3>3. G[<<r[k], k + 1>>] = F[<<r[k], (k + 1) + 1>>]
      BY <1>3, <2>1, <2>4, <2>7, <1>0
    <3>4. ~(k + 1 < i)
      BY <1>0, <2>7
    <3>. QED
      BY <2>1, <2>3, <2>5, <3>1, <3>2, <3>3, <3>4
  <2>8. CASE k + 1 > i
    <3>1. q[k] = r[k + 1] /\ ~(k + 1 < i) /\ i <= k + 1
      BY <1>0, <2>1, <2>2, <2>8
    <3>2. G[<<r[k + 1], k + 1>>] = F[<<r[k + 1], (k + 1) + 1>>]
      BY <1>3, <2>1, <2>4, <3>1
    <3>. QED
      BY <2>1, <2>3, <2>5, <3>1, <3>2
  <2>. QED
    BY <1>0, <2>1, <2>6, <2>7, <2>8
<1>7. T = Nat
  <2>1. T \subseteq Nat
    OBVIOUS
  <2>. HIDE DEF T
  <2>. QED
    BY <1>5, <1>6, <2>1, NatInduct
<1>8. q[m] = IF m < i THEN r[m] ELSE r[n]
  BY <1>0, <1>7
<1>9. q[m] = r[n]
  <2>1. CASE m < i
    <3>1. i = n /\ i - 1 = m
      BY <1>0, <2>1
    <3>. QED
      BY <1>4, <1>8, <2>1, <3>1
  <2>2. CASE ~(m < i)
    BY <1>8, <2>2
  <2>. QED
    BY <2>1, <2>2
<1>. QED
  BY <1>1, <1>2, <1>9 DEF SameResult, m

\* An argument is taken out.
Without(X, args, i, t) ==
  /\ t \in Seq(X) /\ Len(t) = Len(args) - 1
  /\ \A k \in 1..(Len(args) - 1) : t[k] = IF k < i THEN args[k] ELSE args[k + 1]

\* What is left when one argument is taken out.
LEMMA OneTakenOut ==
  ASSUME NEW X, NEW args \in Seq(X), NEW i \in 1..Len(args)
  PROVE  Without(X, args, i, RemoveAt(args, i))
<1>. DEFINE n == Len(args)  a == SubSeq(args, 1, i - 1)  b == SubSeq(args, i + 1, n)
<1>0. n \in Nat /\ i \in 1..n
  OBVIOUS
<1>1. a \in Seq(X) /\ Len(a) = i - 1 /\ \A k \in 1..(i - 1) : a[k] = args[k]
  OBVIOUS
<1>2. b \in Seq(X) /\ Len(b) = n - i /\ \A k \in 1..(n - i) : b[k] = args[i + k]
  <2>1. b \in Seq(X) /\ Len(b) = n - i
    OBVIOUS
  <2>2. \A k \in 1..(n - i) : b[k] = args[i + k]
    <3>1. \A k \in 1..(n - i) : b[k] = args[(i + 1) + k - 1] /\ (i + 1) + k - 1 = i + k
      OBVIOUS
    <3>. QED
      BY <3>1
  <2>. QED
    BY <2>1, <2>2
<1>3. RemoveAt(args, i) = a \o b
  BY DEF RemoveAt
<1>. HIDE DEF a, b
<1>4. /\ a \o b \in Seq(X) /\ Len(a \o b) = Len(a) + Len(b)
      /\ \A k \in 1..Len(a) : (a \o b)[k] = a[k]
      /\ \A k \in 1..Len(b) : (a \o b)[Len(a) + k] = b[k]
  <2>1. a \in Seq(X) /\ b \in Seq(X) /\ Len(a) \in Nat /\ Len(b) \in Nat
    BY <1>1, <1>2
  <2>. DEFINE u == a \o b  l == Len(a)  h == Len(b)
  <2>2. /\ u \in Seq(X) /\ Len(u) = l + h
        /\ \A k \in 1..(l + h) : u[k] = IF k <= l THEN a[k] ELSE b[k - l]
    BY <2>1, ConcatProperties
  <2>. HIDE DEF u, l, h
  <2>3. l \in Nat /\ h \in Nat
    BY <2>1 DEF l, h
  <2>4. \A k \in 1..l : u[k] = a[k]
    BY <2>2, <2>3
  <2>5. \A k \in 1..h : u[l + k] = b[k]
    BY <2>2, <2>3
  <2>. QED
    BY <2>2, <2>4, <2>5 DEF u, l, h
<1>. DEFINE t == a \o b
<1>. HIDE DEF t, n
<1>5. t \in Seq(X) /\ Len(t) = n - 1
  BY <1>0, <1>1, <1>2, <1>4 DEF t
<1>6. ASSUME NEW k \in 1..(n - 1) PROVE t[k] = IF k < i THEN args[k] ELSE args[k + 1]
  <2>1. CASE k < i
    <3>1. k \in 1..(i - 1)
      BY <1>0, <2>1
    <3>. QED
      BY <1>1, <1>4, <2>1, <3>1 DEF t
  <2>2. CASE ~(k < i)
    <3>. DEFINE j == k - (i - 1)
    <3>1. j \in 1..(n - i) /\ (i - 1) + j = k /\ i + j = k + 1
      BY <1>0, <2>2
    <3>. HIDE DEF j
    <3>2. t[k] = b[j]
      BY <1>1, <1>2, <1>4, <3>1 DEF t
    <3>. QED
      BY <1>2, <2>2, <3>1, <3>2
  <2>. QED
    BY <2>1, <2>2
<1>. QED
  BY <1>3, <1>5, <1>6 DEF Without, t, n

\* A flag that is no option's value.
IdleFlag(args, i) ==
  /\ i \in 1..Len(args) /\ args[i] = "--asr-uplink"
  /\ i = 1 \/ args[i - 1] \notin SessionNode.options \cup {"--config"}

\* The flag is not one of the options.
LEMMA FlagIsNoOption == "--asr-uplink" \notin SessionNode.options
BY DEF SessionNode, EndOption, SessionEnds

\* A step at a place that is neither the flag's nor the one before is the same without it.
PlacesMoved(args, t, i) ==
  \A k \in 1..(Len(args) - 1) :
    /\ k < i => t[k] = args[k]
    /\ k + 1 < i => t[k + 1] = args[k + 1] /\ k < Len(args) - 1
    /\ i <= k => t[k] = args[k + 1]
    /\ i <= k /\ k < Len(args) - 1 => t[k + 1] = args[k + 2]

\* The arguments behind the one taken out move by one.
LEMMA OneTakenMoves ==
  ASSUME NEW X, NEW args \in Seq(X), NEW i \in 1..Len(args), NEW t, Without(X, args, i, t)
  PROVE  PlacesMoved(args, t, i)
<1>. DEFINE n == Len(args)
<1>0. n \in Nat /\ i \in 1..n
  OBVIOUS
<1>1. \A k \in 1..(n - 1) : t[k] = IF k < i THEN args[k] ELSE args[k + 1]
  BY DEF Without
<1>. HIDE DEF n
<1>2. ASSUME NEW k \in 1..(n - 1)
      PROVE  /\ k < i => t[k] = args[k]
             /\ k + 1 < i => t[k + 1] = args[k + 1] /\ k < n - 1
             /\ i <= k => t[k] = args[k + 1]
             /\ i <= k /\ k < n - 1 => t[k + 1] = args[k + 2]
  <2>1. t[k] = IF k < i THEN args[k] ELSE args[k + 1]
    BY <1>1
  <2>2. k < n - 1 => t[k + 1] = IF k + 1 < i THEN args[k + 1] ELSE args[(k + 1) + 1]
    BY <1>0, <1>1
  <2>3. (k + 1) + 1 = k + 2 /\ (k + 1 < i => k < n - 1) /\ (i <= k => ~(k + 1 < i)) /\ (i <= k => ~(k < i))
    BY <1>0
  <2>. QED
    BY <2>1, <2>2, <2>3
<1>. QED
  BY <1>2 DEF PlacesMoved, n

\* Without the flag the configuration files are the same.
LEMMA ConfigsShift ==
  ASSUME NEW X, NEW args \in Seq(X), NEW i, IdleFlag(args, i), NEW t, Without(X, args, i, t)
  PROVE  ConfigsOf(t) = ConfigsOf(args)
<1>. DEFINE n == Len(args)  m == n - 1  D == Seq(X)
            F == ConfigFcn(args, X, n)  G == ConfigFcn(t, X, m)
<1>0. n \in Nat \ {0} /\ i \in 1..n /\ args[i] = "--asr-uplink"
      /\ (i = 1 \/ args[i - 1] \notin SessionNode.options \cup {"--config"})
  BY DEF IdleFlag
<1>1. t \in Seq(X) /\ Len(t) = m
  BY DEF Without
<1>2. F \in [D \X (1..n) -> D] /\ G \in [D \X (1..m) -> D] /\ <<>> \in D
  BY <1>1, ConfigFcnType
<1>3. PlacesMoved(args, t, i)
  BY <1>0, OneTakenMoves
<1>4. ASSUME NEW x \in D PROVE F[<<x, i>>] = x
  <2>1. F[<<x, i>>] = ConfigAt(args, x, i)
    BY <1>0 DEF ConfigFcn
  <2>. QED
    BY <1>0, <2>1 DEF ConfigAt
<1>5. ASSUME NEW x \in D, NEW k \in 1..m, k < i PROVE G[<<x, k>>] = F[<<x, k>>]
  <2>1. G[<<x, k>>] = ConfigAt(t, x, k) /\ F[<<x, k>>] = ConfigAt(args, x, k)
    BY <1>0 DEF ConfigFcn
  <2>2. t[k] = args[k] /\ (k + 1 < i => t[k + 1] = args[k + 1] /\ k < m)
    BY <1>3, <1>5 DEF PlacesMoved
  <2>3. k < n
    BY <1>0
  <2>4. CASE k + 1 < i
    BY <1>1, <2>1, <2>2, <2>3, <2>4 DEF ConfigAt
  <2>5. CASE ~(k + 1 < i)
    <3>1. i - 1 = k /\ i # 1
      BY <1>0, <1>5, <2>5
    <3>2. args[k] # "--config"
      BY <1>0, <3>1
    <3>. QED
      BY <2>1, <2>2, <3>2 DEF ConfigAt
  <2>. QED
    BY <2>4, <2>5
<1>6. ASSUME NEW x \in D, NEW k \in 1..m, i <= k PROVE G[<<x, k>>] = F[<<x, k + 1>>]
  <2>1. k + 1 \in 1..n /\ (k < m <=> k + 1 < n) /\ (k + 1) + 1 = k + 2
    BY <1>0
  <2>2. G[<<x, k>>] = ConfigAt(t, x, k) /\ F[<<x, k + 1>>] = ConfigAt(args, x, k + 1)
    BY <2>1 DEF ConfigFcn
  <2>3. t[k] = args[k + 1] /\ (k < m => t[k + 1] = args[k + 2])
    BY <1>3, <1>6 DEF PlacesMoved
  <2>. QED
    BY <1>1, <2>1, <2>2, <2>3 DEF ConfigAt
<1>7. Shifted(D, F, G, i, n)
  BY <1>4, <1>5, <1>6 DEF Shifted
<1>8. SameResult(D, F, G, <<>>, n)
  <2>. HIDE DEF D, F, G, n
  <2>. QED
    BY <1>0, <1>2, <1>7, ShiftedRuns
<1>9. ConfigsOf(args) = Result(D, F, <<>>, Places(n))
  BY ConfigsIsFold DEF HasConfigs
<1>10. ConfigsOf(t) = Result(D, G, <<>>, Places(m))
  BY <1>1, ConfigsIsFold DEF HasConfigs
<1>. QED
  BY <1>8, <1>9, <1>10 DEF SameResult

\* Without the flag the options are the same.
LEMMA LineShifts ==
  ASSUME NEW X, NEW args \in Seq(X), NEW i, IdleFlag(args, i), NEW t, Without(X, args, i, t),
         NEW V, X \subseteq V, \A o \in SessionNode.options : Default(SessionNode, o) \in V,
         NEW given \in Settings(SessionNode, V)
  PROVE  CommandLine(SessionNode, t, given) = CommandLine(SessionNode, args, given)
<1>. DEFINE node == SessionNode  n == Len(args)  m == n - 1  D == Settings(node, V)
            F == OptionFcn(node, args, V, n)  G == OptionFcn(node, t, V, m)
<1>0. n \in Nat \ {0} /\ i \in 1..n /\ args[i] = "--asr-uplink" /\ DOMAIN args = 1..n
      /\ (i = 1 \/ args[i - 1] \notin node.options \cup {"--config"})
  BY DEF IdleFlag
<1>1. t \in Seq(X) /\ Len(t) = m /\ DOMAIN t = 1..Len(t)
  BY DEF Without
<1>a. "--asr-uplink" \notin node.options
  BY FlagIsNoOption
<1>b. ArgsIn(node, args, V) /\ ArgsIn(node, t, V)
  BY <1>0, <1>1 DEF ArgsIn
<1>n. n \in Nat \ {0} /\ i \in 1..n
  BY <1>0
<1>. HIDE DEF node
<1>2. F \in [D \X (1..n) -> D] /\ G \in [D \X (1..m) -> D] /\ given \in D
  BY <1>1, <1>b, OptionFcnType DEF node
<1>3. PlacesMoved(args, t, i)
  BY <1>0, OneTakenMoves
<1>4. ASSUME NEW x \in D PROVE F[<<x, i>>] = x
  <2>1. F[<<x, i>>] = OptionAt(node, args, x, i)
    BY <1>0 DEF OptionFcn
  <2>. QED
    BY <1>0, <1>a, <2>1 DEF OptionAt
<1>5. ASSUME NEW x \in D, NEW k \in 1..m, k < i PROVE G[<<x, k>>] = F[<<x, k>>]
  <2>1. G[<<x, k>>] = OptionAt(node, t, x, k) /\ F[<<x, k>>] = OptionAt(node, args, x, k)
    BY <1>0 DEF OptionFcn
  <2>2. t[k] = args[k] /\ (k + 1 < i => t[k + 1] = args[k + 1] /\ k < m)
    BY <1>3, <1>5 DEF PlacesMoved
  <2>3. k # n
    <3>. HIDE DEF n
    <3>. QED
      BY <1>n
  <2>4. CASE k + 1 < i
    <3>1. k # m
      <4>1. k < m
        BY <2>2, <2>4
      <4>. HIDE DEF n
      <4>. QED
        BY <1>n, <4>1
    <3>2. k # Len(args) /\ k # Len(t)
      BY <1>1, <2>3, <3>1
    <3>3. t[k] = args[k] /\ t[k + 1] = args[k + 1]
      BY <2>2, <2>4
    <3>4. OptionAt(node, t, x, k) = OptionAt(node, args, x, k)
      BY <3>2, <3>3, Zenon DEF OptionAt
    <3>. QED
      BY <2>1, <3>4
  <2>5. CASE ~(k + 1 < i)
    <3>1. i - 1 = k /\ i # 1
      BY <1>0, <1>5, <2>5
    <3>2. args[k] \notin node.options
      BY <1>0, <3>1
    <3>. QED
      BY <2>1, <2>2, <3>2 DEF OptionAt
  <2>. QED
    BY <2>4, <2>5
<1>6. ASSUME NEW x \in D, NEW k \in 1..m, i <= k PROVE G[<<x, k>>] = F[<<x, k + 1>>]
  <2>1. k + 1 \in 1..n /\ (k = m <=> k + 1 = n) /\ (k + 1) + 1 = k + 2 /\ (k # m => k < m)
    <3>. HIDE DEF n
    <3>. QED
      BY <1>n
  <2>2. G[<<x, k>>] = OptionAt(node, t, x, k) /\ F[<<x, k + 1>>] = OptionAt(node, args, x, k + 1)
    BY <2>1 DEF OptionFcn
  <2>3. t[k] = args[k + 1] /\ (k < m => t[k + 1] = args[k + 2])
    BY <1>3, <1>6 DEF PlacesMoved
  <2>. QED
    BY <1>1, <2>1, <2>2, <2>3 DEF OptionAt
<1>7. Shifted(D, F, G, i, n)
  BY <1>4, <1>5, <1>6 DEF Shifted
<1>8. SameResult(D, F, G, given, n)
  <2>. HIDE DEF D, F, G, n
  <2>. QED
    BY <1>0, <1>2, <1>7, ShiftedRuns
<1>9. CommandLine(node, args, given) = Result(D, F, given, Places(n))
  BY <1>0, <1>b, LineIsFold DEF HasLine, node
<1>10. CommandLine(node, t, given) = Result(D, G, given, Places(m))
  BY <1>1, <1>b, LineIsFold DEF HasLine, node
<1>. QED
  BY <1>8, <1>9, <1>10 DEF SameResult, node

-----------------------------------------------------------------------------
(* What the nodes promise *)

SameStart(with, without) ==
  /\ with.result = without.result
  /\ "set" \in DOMAIN with => with.set = without.set /\ with.uplink

\* session_node's --asr-uplink, for every command line: unless it is taken for the value of an
\* option, the other settings and the outcome are the same as without it.
THEOREM FlagsShiftNothing ==
  ASSUME NEW X, NEW args \in Seq(X)
  PROVE  FlagShiftsNothing(args)
<1>. SUFFICES ASSUME NEW i \in DOMAIN args, args[i] = "--asr-uplink",
                     i = 1 \/ args[i - 1] \notin SessionNode.options \cup {"--config"}
              PROVE  SameStart(SessionStart(args, {}), SessionStart(RemoveAt(args, i), {}))
  BY Zenon DEF FlagShiftsNothing, SameStart
<1>. DEFINE t == RemoveAt(args, i)  node == SessionNode
            files == LastConfig(args)  read == ReadFiles(node, files)
            s == CommandLine(node, args, read.set)
            uplink == AsrUplink(args, File(Head(files)).set)
            other == AsrUplink(t, File(Head(files)).set)
            unpaired == \E e \in SessionEnds :
                          (s[EndOption(e, "events")] = "") # (s[EndOption(e, "sync")] = "")
            end == IF \/ s["--backend"] \notin {"embedded", "net"}
                      \/ s["--backend"] = "net" /\ unpaired
                      \/ "listen" \in {} THEN "exit" ELSE "serving"
            with == SessionStart(args, {})  without == SessionStart(t, {})
<1>0. DOMAIN args = 1..Len(args) /\ i \in 1..Len(args)
  OBVIOUS
<1>1. IdleFlag(args, i) /\ Without(X, args, i, t)
  BY <1>0, OneTakenOut DEF IdleFlag
<1>. HIDE DEF t
<1>2. LastConfig(t) = files
  <2>1. ConfigsOf(t) = ConfigsOf(args)
    BY <1>1, ConfigsShift
  <2>. QED
    BY <2>1, Zenon DEF LastConfig
<1>3. read.state = "ok" => CommandLine(node, t, read.set) = s
  <2>. DEFINE f == IF ConfigsOf(args) = <<>> THEN "default.json" ELSE Last(ConfigsOf(args))
              Y == {f}  O == node.options
              V == {Default(node, o) : o \in O} \cup X \cup {File(g).set[o] : g \in Y, o \in O}
  <2>1. files = <<f>>
    BY DEF LastConfig
  <2>. HIDE DEF f, files
  <2>2. files \in Seq(Y)
    BY <2>1
  <2>. HIDE DEF Y, node
  <2>3. SettingsIn(node, Y, V) /\ X \subseteq V /\ \A o \in O : Default(node, o) \in V
    BY DEF SettingsIn
  <2>. HIDE DEF V
  <2>4. FilesRead(node, V, files)
    BY <2>2, <2>3, FilesAreRead
  <2>5. read.set \in Settings(node, V)
    BY <2>4 DEF FilesRead, FileStates, Settings
  <2>. DEFINE given == read.set
  <2>. HIDE DEF given
  <2>6. CommandLine(node, t, given) = CommandLine(node, args, given)
    BY <1>1, <2>3, <2>5, LineShifts DEF node, given
  <2>. QED
    BY <2>6 DEF given
<1>4. with = IF read.state # "ok" THEN Ended(read.state)
             ELSE [set |-> s, uplink |-> uplink, result |-> end]
  BY Zenon DEF SessionStart
<1>5. read.state = "ok" => without = [set |-> s, uplink |-> other, result |-> end]
  <2>. SUFFICES ASSUME read.state = "ok" PROVE without = [set |-> s, uplink |-> other, result |-> end]
    OBVIOUS
  <2>. DEFINE c == CommandLine(node, t, read.set)
              alone == \E e \in SessionEnds :
                         (c[EndOption(e, "events")] = "") # (c[EndOption(e, "sync")] = "")
              last == IF \/ c["--backend"] \notin {"embedded", "net"}
                         \/ c["--backend"] = "net" /\ alone
                         \/ "listen" \in {} THEN "exit" ELSE "serving"
  <2>1. without = IF read.state # "ok" THEN Ended(read.state)
                  ELSE [set |-> c, uplink |-> other, result |-> last]
    BY <1>2, Zenon DEF SessionStart
  <2>2. c = s
    BY <1>3
  <2>. HIDE DEF c, s
  <2>3. last = end
    BY <2>2
  <2>. QED
    BY <2>1, <2>2, <2>3
<1>6. read.state # "ok" => without = Ended(read.state)
  BY <1>2, Zenon DEF SessionStart
<1>7. uplink = TRUE
  <2>1. "--asr-uplink" \in Range(args)
    BY <1>0 DEF Range
  <2>. QED
    BY <2>1 DEF AsrUplink
<1>. HIDE DEF read, s, end, uplink, other, with, without
<1>8. CASE read.state # "ok"
  <2>1. with = Ended(read.state) /\ without = with
    BY <1>4, <1>6, <1>8
  <2>2. DOMAIN Ended(read.state) = {"result"}
    BY DEF Ended
  <2>3. "set" \notin DOMAIN with
    BY <2>1, <2>2
  <2>4. SameStart(with, without)
    BY <2>1, <2>3 DEF SameStart
  <2>. QED
    BY <2>4 DEF with, without, t
<1>9. CASE read.state = "ok"
  <2>1. with = [set |-> s, uplink |-> uplink, result |-> end]
    BY <1>4, <1>9
  <2>2. without = [set |-> s, uplink |-> other, result |-> end]
    BY <1>5, <1>9
  <2>3. SameStart(with, without)
    BY <1>7, <2>1, <2>2 DEF SameStart
  <2>. QED
    BY <2>3 DEF with, without, t
<1>. QED
  BY <1>8, <1>9

\* NodesDoAsAsked of every input.
LEMMA NodesDoAsAskedEver == TypeOK => NodesDoAsAsked
<1>. SUFFICES ASSUME TypeOK PROVE NodesDoAsAsked
  OBVIOUS
<1>. DEFINE X == Alphabet[kind]
<1>0. kind \in DOMAIN Alphabet /\ input \in Seq(X)
  BY DEF TypeOK
<1>1. ASSUME NEW broken
      PROVE  /\ NodeStartsSound(AsrNode, AsrStart(input, broken), input, broken)
             /\ NodeStartsSound(LlmNode, LlmStart(input, broken), input, broken)
             /\ NodeStartsSound(TtsNode, TtsStart(input, broken), input, broken)
  <2>. HIDE DEF X
  <2>1. NodeStartsSound(AsrNode, StartNode(AsrNode, input, broken), input, broken)
    BY <1>0, NodeOptionsApart, NodeStartIsSound
  <2>2. NodeStartsSound(LlmNode, StartNode(LlmNode, input, broken), input, broken)
    BY <1>0, NodeOptionsApart, NodeStartIsSound
  <2>3. NodeStartsSound(TtsNode, StartNode(TtsNode, input, broken), input, broken)
    BY <1>0, NodeOptionsApart, NodeStartIsSound
  <2>. QED
    BY <2>1, <2>2, <2>3 DEF AsrStart, LlmStart, TtsStart
<1>2. FlagShiftsNothing(input) /\ SessionStartsSound(input)
  <2>. HIDE DEF X
  <2>. QED
    BY <1>0, FlagsShiftNothing, SessionStartIsSound
<1>3. ASSUME kind = "audio", input # <<>> PROVE UplinkIsHeard(input) /\ SynthesisIsWritten(input)
  <2>1. \A f \in X : f \in Seq(Sample) /\ Len(f) <= FrameSamples
    BY <1>0, <1>3, FramesAssumption DEF Sample
  <2>. HIDE DEF X
  <2>2. \A i \in DOMAIN input : input[i] \in X
    BY <1>0
  <2>3. X \subseteq Seq(Sample)
    BY <2>1
  <2>4. input \in Seq(Seq(Sample))
    <3>. DEFINE E == Seq(Sample)
    <3>. HIDE DEF E
    <3>1. X \subseteq E
      BY <2>3 DEF E
    <3>2. input \in Seq(E)
      BY <1>0, <3>1
    <3>. QED
      BY <3>2 DEF E
  <2>5. SampledFrames(input)
    BY <2>1, <2>2, <2>4 DEF SampledFrames
  <2>6. UplinkIsHeard(input)
    BY <1>3, <2>5, UplinksAreHeard
  <2>7. SynthesisIsWritten(input)
    BY <1>0, SynthesesAreWritten
  <2>. QED
    BY <2>6, <2>7
<1>4. ASSUME kind = "wav" PROVE RecordingIsHeard(input)
  <2>1. X \subseteq WavChunk
    BY <1>0, <1>4, ChunksAssumption DEF WavChunk
  <2>. HIDE DEF X
  <2>2. input \in Seq(WavChunk)
    BY <1>0, <2>1
  <2>. QED
    BY <2>2, RecordingsAreHeard
<1>. QED
  BY <1>1, <1>2, <1>3, <1>4, Zenon DEF NodesDoAsAsked

\* NodesDoAsAsked, for every alphabet of arguments and frames and inputs of any length: a node
\* that serves has the options that were declared, its flags shift nothing, and its adapters
\* feed and write all there is, or say so.
THEOREM NodesAlwaysDoAsAsked == Spec => []NodesDoAsAsked
BY InputType, NodesDoAsAskedEver, PTL

=============================================================================
