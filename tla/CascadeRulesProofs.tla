------------------------ MODULE CascadeRulesProofs ------------------------
(***************************************************************************)
(* Facts about the transition functions of the cascade rules.              *)
(***************************************************************************)
EXTENDS CascadeRules, WellFoundedInduction, TLAPS

(***************************************************************************)
(* What an edge does: nothing, a degradation, or a failure like that of    *)
(* the component it comes from.                                            *)
(***************************************************************************)
LEMMA CascadeHealthCases ==
  ASSUME NEW g, NEW d, NEW u, NEW h \in Health
  PROVE  CascadeHealth(g, d, u, h) \in {"healthy", "degraded", h}
BY DEF CascadeHealth, Health

\* The ranks order the four health states.
LEMMA RankOrder ==
  /\ HEALTH_RANK("healthy") = 0
  /\ HEALTH_RANK("degraded") = 1
  /\ HEALTH_RANK("overloaded") = 2
  /\ HEALTH_RANK("down") = 3
BY DEF HEALTH_RANK

(***************************************************************************)
(* The hard failures contain the origin, pass on whatever makes a          *)
(* dependent fail hard, and are contained in every cut.                    *)
(***************************************************************************)
LEMMA HardFailuresOrigin ==
  ASSUME NEW g, NEW o \in Component, NEW h
  PROVE  o \in HardFailures(g, o, h)
BY DEF HardFailures, Cut

LEMMA HardFailuresStep ==
  ASSUME NEW g, NEW o \in Component, NEW h,
         NEW u \in HardFailures(g, o, h), NEW d \in Component,
         CascadeHealth(g, d, u, h) \in HardHealth
  PROVE  d \in HardFailures(g, o, h)
<1>1. SUFFICES ASSUME NEW S \in SUBSET Component, Cut(g, o, h, S)
               PROVE  d \in S
  BY DEF HardFailures
<1>2. u \in S
  BY <1>1 DEF HardFailures
<1>3. QED
  BY <1>1, <1>2 DEF Cut

LEMMA HardFailuresLeast ==
  ASSUME NEW g, NEW o \in Component, NEW h,
         NEW S \in SUBSET Component, Cut(g, o, h, S)
  PROVE  HardFailures(g, o, h) \subseteq S
BY DEF HardFailures

(***************************************************************************)
(* What cascades from a component in an explained health map fails like    *)
(* the origin and is a hard failure.                                       *)
(***************************************************************************)
LEMMA CascadingIsHard ==
  ASSUME NEW g, NEW o \in Component, NEW hm \in [Component -> Health],
         Explained(g, o, hm),
         NEW u \in Component, u = o \/ hm[u] \in HardHealth
  PROVE  hm[u] = hm[o] /\ u \in HardFailures(g, o, hm[o])
<1>1. CASE u = o
  BY <1>1, HardFailuresOrigin
<1>2. CASE hm[u] \in HardHealth
  BY <1>2 DEF Explained, HardHealth
<1>3. QED
  BY <1>1, <1>2

\* The health map after the rule of the edge <<d, u>> has been applied.
Worsened(g, hm, u, d) == [hm EXCEPT ![d] = CascadeHealth(g, d, u, hm[u])]

(***************************************************************************)
(* One application of a rule that worsens d leaves the origin alone and is *)
(* accounted for by the outcome.                                           *)
(***************************************************************************)
LEMMA WorseningExplained ==
  ASSUME NEW g, NEW o \in Component, NEW hm \in [Component -> Health],
         hm[o] # "healthy", Explained(g, o, hm),
         NEW u \in Component, u = o \/ hm[u] \in HardHealth,
         NEW d \in Component,
         HEALTH_RANK(CascadeHealth(g, d, u, hm[u])) > HEALTH_RANK(hm[d])
  PROVE  /\ Worsened(g, hm, u, d)[o] = hm[o]
         /\ Explained(g, o, Worsened(g, hm, u, d))
<1> DEFINE hn == Worsened(g, hm, u, d)
           h == hm[o]
           new == CascadeHealth(g, d, u, h)
<1>1. h \in Health /\ h # "healthy"
  OBVIOUS
<1>2. hm[u] = h /\ u \in HardFailures(g, o, h)
  BY CascadingIsHard
<1>3. hn = [hm EXCEPT ![d] = new] /\ HEALTH_RANK(new) > HEALTH_RANK(hm[d])
  BY <1>2 DEF Worsened
<1>4. new \in {"healthy", "degraded", h}
  BY <1>1, CascadeHealthCases
<1>5. new # "healthy"
  BY <1>1, <1>3, RankOrder DEF Health
<1>6. d # o
  BY <1>1, <1>3, <1>4, <1>5, RankOrder DEF Health
<1>7. hn[o] = h
  BY <1>3, <1>6
<1> HIDE DEF hn
<1>8. ASSUME new = h, new \in HardHealth
      PROVE  d \in HardFailures(g, o, h)
  BY <1>1, <1>2, <1>8, HardFailuresStep
<1>9. Outcome(g, o, h)[d] # "healthy"
  BY <1>1, <1>2, <1>5 DEF Outcome
<1>10. ASSUME NEW c \in Component
       PROVE  \/ hn[c] = "healthy"
              \/ hn[c] = h /\ c \in HardFailures(g, o, h)
              \/ hn[c] = "degraded" /\ Outcome(g, o, h)[c] # "healthy"
  <2>1. CASE c # d
    <3>1. hn[c] = hm[c]
      BY <1>3, <2>1
    <3>2. QED
      BY <3>1 DEF Explained
  <2>2. CASE c = d
    <3>1. hn[c] = new
      BY <1>3, <2>2
    <3>2. new = "degraded" \/ (new = h /\ new \in HardHealth)
      BY <1>1, <1>4, <1>5 DEF Health, HardHealth
    <3>3. QED
      BY <1>8, <1>9, <2>2, <3>1, <3>2
  <2>3. QED
    BY <2>1, <2>2
<1>11. QED
  BY <1>7, <1>10 DEF Explained, hn

\* No rule can worsen anything.
Stable(g, o, hm) ==
  \A u, d \in Component :
    u = o \/ hm[u] \in HardHealth =>
      ~(HEALTH_RANK(CascadeHealth(g, d, u, hm[u])) > HEALTH_RANK(hm[d]))

(***************************************************************************)
(* When no rule can worsen anything, the components that fail hard form a  *)
(* cut, so they are exactly the hard failures, and all the rest follows.   *)
(***************************************************************************)
LEMMA StableIsOutcome ==
  ASSUME NEW g, NEW o \in Component, NEW hm \in [Component -> Health],
         hm[o] # "healthy", Explained(g, o, hm), Stable(g, o, hm)
  PROVE  hm = Outcome(g, o, hm[o])
<1> DEFINE h == hm[o]
           Hard == {c \in Component : c = o \/ hm[c] \in HardHealth}
           HF == HardFailures(g, o, h)
<1>1. h \in Health /\ h # "healthy"
  OBVIOUS
<1>2. \A u \in Hard : hm[u] = h /\ u \in HF
  BY CascadingIsHard
<1>3. ASSUME NEW u \in Hard, NEW d \in Component
      PROVE  ~(HEALTH_RANK(CascadeHealth(g, d, u, h)) > HEALTH_RANK(hm[d]))
  BY <1>2, <1>3 DEF Stable
<1>4. Cut(g, o, h, Hard)
  <2>1. ASSUME NEW u \in Hard, NEW d \in Component,
               CascadeHealth(g, d, u, h) \in HardHealth
        PROVE  d \in Hard
    <3>1. hm[d] \in Health
      OBVIOUS
    <3>2. QED
      BY <1>3, <2>1, <3>1, RankOrder DEF HardHealth, Health
  <2>2. QED
    BY <2>1 DEF Cut
<1>5. HF = Hard
  BY <1>2, <1>4, HardFailuresLeast
<1>6. ASSUME NEW c \in Component
      PROVE  hm[c] = Outcome(g, o, h)[c]
  <2>1. CASE c \in HF
    BY <1>2, <1>5, <2>1 DEF Outcome
  <2>2. CASE c \notin HF /\ \E u \in HF : CascadeHealth(g, c, u, h) # "healthy"
    <3>1. PICK u \in HF : CascadeHealth(g, c, u, h) # "healthy"
      BY <2>2
    <3>2. CascadeHealth(g, c, u, h) \in {"healthy", "degraded", h}
      BY <1>1, CascadeHealthCases
    <3>3. hm[c] # "healthy"
      BY <1>1, <1>3, <1>5, <3>1, <3>2, RankOrder DEF Health
    <3>4. hm[c] = "degraded"
      BY <2>2, <3>3 DEF Explained
    <3>5. QED
      BY <2>2, <3>4 DEF Outcome
  <2>3. CASE c \notin HF /\ ~ \E u \in HF : CascadeHealth(g, c, u, h) # "healthy"
    <3>1. Outcome(g, o, h)[c] = "healthy"
      BY <2>3 DEF Outcome
    <3>2. QED
      BY <2>3, <3>1 DEF Explained
  <2>4. QED
    BY <2>1, <2>2, <2>3
<1>7. QED
  BY <1>6 DEF Outcome

-----------------------------------------------------------------------------
(***************************************************************************)
(* Induction on a number, the length of a path through the graph say, as a *)
(* fact about sets: the natural numbers of which something holds are all   *)
(* of them when 0 is one and each one is followed by another.              *)
(***************************************************************************)
LEMMA SetInduction ==
  ASSUME NEW S \in SUBSET Nat, 0 \in S, \A n \in S : n + 1 \in S
  PROVE  S = Nat
<1> DEFINE Less == OpToRel(<, Nat)
<1>1. IsWellFoundedOn(Less, Nat)
  BY NatLessThanWellFounded
<1>2. \A n \in Nat : n - 1 \in Nat => <<n - 1, n>> \in Less
  BY DEF OpToRel
<1> HIDE DEF Less
<1>3. SUFFICES ASSUME Nat \ S # {} PROVE FALSE
  OBVIOUS
<1>4. PICK x \in Nat \ S : \A y \in Nat \ S : <<y, x>> \notin Less
  <2>1. Nat \ S \subseteq Nat
    OBVIOUS
  <2>2. QED
    BY <1>1, <1>3, <2>1, WFMin
<1>5. x - 1 \in Nat /\ x = (x - 1) + 1
  BY <1>4
<1>6. x - 1 \in S
  BY <1>2, <1>4, <1>5
<1>7. QED
  BY <1>4, <1>5, <1>6

(***************************************************************************)
(* A function on the natural numbers that is defined by recursion exists:  *)
(* its values up to n exist by induction, and agree for any two n.         *)
(***************************************************************************)
Steps(X, base, step) == base \in X /\ step \in [Nat -> [X -> X]]

Recurs(f, X, base, step) ==
  /\ f \in [Nat -> X]
  /\ \A n \in Nat : f[n] = IF n = 0 THEN base ELSE step[n][f[n - 1]]

LEMMA RecursionExists ==
  ASSUME NEW X, NEW base, NEW step, Steps(X, base, step)
  PROVE  \E f : Recurs(f, X, base, step)
<1> base \in X /\ step \in [Nat -> [X -> X]]
  BY DEF Steps
<1> DEFINE Upto(n, g) == /\ g \in [0 .. n -> X] /\ g[0] = base
                         /\ \A m \in 1 .. n : g[m] = step[m][g[m - 1]]
<1>1. \A n \in Nat : \E g : Upto(n, g)
  <2> DEFINE S == {n \in Nat : \E g : Upto(n, g)}
  <2>1. 0 \in S
    <3>1. Upto(0, [m \in 0 .. 0 |-> base])
      OBVIOUS
    <3>2. QED
      BY <3>1
  <2>2. ASSUME NEW n \in S PROVE n + 1 \in S
    <3>1. n \in Nat
      OBVIOUS
    <3>2. PICK g : Upto(n, g)
      OBVIOUS
    <3> DEFINE h == [m \in 0 .. n + 1 |-> IF m = n + 1 THEN step[n + 1][g[n]] ELSE g[m]]
    <3>3. g[n] \in X /\ step[n + 1] \in [X -> X] /\ step[n + 1][g[n]] \in X
      BY <3>1, <3>2
    <3>4. h \in [0 .. n + 1 -> X] /\ h[0] = base
      BY <3>1, <3>2, <3>3
    <3>5. ASSUME NEW m \in 1 .. n + 1 PROVE h[m] = step[m][h[m - 1]]
      <4>1. CASE m = n + 1
        BY <3>1, <4>1
      <4>2. CASE m # n + 1
        <5>1. m \in 1 .. n /\ m - 1 \in 0 .. n /\ m \in 0 .. n + 1 /\ m - 1 \in 0 .. n + 1
          BY <3>1, <4>2
        <5>2. h[m] = g[m] /\ h[m - 1] = g[m - 1]
          BY <3>1, <4>2, <5>1
        <5>3. QED
          BY <3>2, <5>1, <5>2
      <4>3. QED
        BY <4>1, <4>2
    <3>6. Upto(n + 1, h)
      BY <3>4, <3>5
    <3>7. n + 1 \in Nat
      BY <3>1
    <3>8. QED
      BY <3>6, <3>7
  <2> HIDE DEF S
  <2>3. S \in SUBSET Nat
    BY DEF S
  <2>4. S = Nat
    BY <2>1, <2>2, <2>3, SetInduction
  <2>5. QED
    BY <2>4 DEF S
<1>2. ASSUME NEW i \in Nat, NEW j \in Nat, i <= j, NEW g, NEW h, Upto(i, g), Upto(j, h)
      PROVE  \A m \in 0 .. i : g[m] = h[m]
  <2> DEFINE S == {m \in Nat : m <= i => g[m] = h[m]}
  <2>1. 0 \in S
    BY <1>2
  <2>2. ASSUME NEW m \in S PROVE m + 1 \in S
    BY <1>2
  <2> HIDE DEF S
  <2>3. S \in SUBSET Nat
    BY DEF S
  <2>4. S = Nat
    BY <2>1, <2>2, <2>3, SetInduction
  <2>5. QED
    BY <2>4 DEF S
<1>3. \A n \in Nat : \A g : Upto(n, g) =>
        /\ g[n] \in X
        /\ IF n = 0 THEN g[0] = base ELSE g[n] = step[n][g[n - 1]]
  OBVIOUS
<1> HIDE DEF Upto
<1> DEFINE f == [n \in Nat |-> (CHOOSE g : Upto(n, g))[n]]
<1>4. ASSUME NEW n \in Nat, NEW g, Upto(n, g) PROVE f[n] = g[n]
  <2>1. PICK h : h = (CHOOSE k : Upto(n, k))
    OBVIOUS
  <2>2. Upto(n, h)
    BY <1>1, <2>1
  <2>3. g[n] = h[n]
    <3>1. n <= n /\ n \in 0 .. n
      OBVIOUS
    <3>2. QED
      BY <1>2, <1>4, <2>2, <3>1
  <2>4. QED
    BY <2>1, <2>3
<1>5. ASSUME NEW n \in Nat
      PROVE  f[n] \in X /\ f[n] = IF n = 0 THEN base ELSE step[n][f[n - 1]]
  <2>1. PICK g : Upto(n, g)
    BY <1>1
  <2>2. f[n] = g[n] /\ g[n] \in X
    BY <1>4, <1>3, <2>1
  <2>3. CASE n = 0
    BY <1>3, <2>1, <2>2, <2>3
  <2>4. CASE n # 0
    <3>1. n - 1 \in Nat /\ n - 1 <= n /\ n - 1 \in 0 .. n - 1
      BY <2>4
    <3>2. PICK h : Upto(n - 1, h)
      BY <1>1, <3>1
    <3>3. g[n - 1] = h[n - 1]
      BY <1>2, <2>1, <3>1, <3>2
    <3>4. f[n - 1] = h[n - 1]
      BY <1>4, <3>1, <3>2
    <3>5. g[n] = step[n][g[n - 1]]
      BY <1>3, <2>1, <2>4
    <3>6. QED
      BY <2>2, <2>4, <3>3, <3>4, <3>5
  <2>5. QED
    BY <2>3, <2>4
<1>6. f = [n \in Nat |-> f[n]]
  OBVIOUS
<1> HIDE DEF f
<1>7. f \in [Nat -> X]
  BY <1>5, <1>6
<1>8. QED
  BY <1>5, <1>7 DEF Recurs

-----------------------------------------------------------------------------
(***************************************************************************)
(* What bounds a run is measured by five numbers, which count in the order *)
(* in which they are listed: a step that takes one of them down may raise  *)
(* those after it.  No infinite run of such steps exists.                  *)
(***************************************************************************)
Nearer == LexProductOrdering(OpToRel(<, Nat), Nat, 5)

LEMMA NearerWellFounded == IsWellFoundedOn(Nearer, [1 .. 5 -> Nat])
BY NatLessThanWellFounded, WFLexProductOrdering DEF Nearer

\* It is enough that one of the numbers gets smaller and that those before it stay.
LEMMA NearerAt ==
  ASSUME NEW M \in [1 .. 5 -> Nat], NEW N \in [1 .. 5 -> Nat], NEW j \in 1 .. 5,
         M[j] < N[j], \A i \in 1 .. j - 1 : M[i] = N[i]
  PROVE  <<M, N>> \in Nearer
<1>1. <<M[j], N[j]>> \in OpToRel(<, Nat)
  BY DEF OpToRel
<1>2. QED
  BY <1>1 DEF Nearer, LexProductOrdering

=============================================================================
