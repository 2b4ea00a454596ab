---------------------------- MODULE PlotRunsProofs ----------------------------
(***************************************************************************)
(* Theorems of PlotRuns, for all programs, lines and bounds: its types,    *)
(* that the lines follow the cards, and that runs end as they started.  A  *)
(* pass and a take-over are folds, so that each is taken apart first: the  *)
(* states a fold goes through, from the one it begins with, are each a     *)
(* step from the one before.  What every step keeps, the fold keeps.       *)
(***************************************************************************)
EXTENDS PlotRuns, FiniteSetTheorems, WellFoundedInduction, TLAPS

-----------------------------------------------------------------------------
(* Induction, sequences. *)

\* A set of numbers has a smallest one.
LEMMA Smallest ==
  ASSUME NEW T, T \subseteq Nat, T # {}
  PROVE  \E n \in T : \A m \in T : n <= m
  <1> DEFINE R == OpToRel(<, Nat)
  <1>1. IsWellFoundedOn(R, Nat)
    BY NatLessThanWellFounded
  <1>2. \A x, y \in Nat : <<x, y>> \in R <=> x < y
    BY DEF OpToRel
  <1> HIDE DEF R
  <1>3. PICK n \in T : \A m \in T : <<m, n>> \notin R
    BY <1>1, WFMin
  <1>4. ASSUME NEW m \in T
        PROVE  n <= m
    <2>1. m \in Nat /\ n \in Nat
      OBVIOUS
    <2>2. ~(m < n)
      BY <1>2, <1>3, <2>1
    <2> QED BY <2>1, <2>2
  <1> QED BY <1>4

\* What holds at the beginning and with each number for the next one, holds at the end.
LEMMA Induct ==
  ASSUME NEW N \in Nat, NEW T, 0 \in T, \A n \in 0 .. N : n < N /\ n \in T => n + 1 \in T
  PROVE  N \in T
  <1> SUFFICES ASSUME N \notin T
               PROVE  FALSE
    OBVIOUS
  <1> DEFINE missing == {n \in 0 .. N : n \notin T}
  <1>1. PICK n \in missing : \A m \in missing : n <= m
    <2>1. missing \subseteq Nat /\ missing # {}
      OBVIOUS
    <2> QED BY <2>1, Smallest
  <1>2. n \in 0 .. N /\ n # 0 /\ n - 1 \in 0 .. N
    BY <1>1
  <1>3. n - 1 \in T
    BY <1>1, <1>2
  <1> QED BY <1>1, <1>2, <1>3

-----------------------------------------------------------------------------
(* The folds. *)

\* The elements of a sequence that are in a set.
LEMMA SelectedFold ==
  ASSUME NEW those, NEW q, Len(q) \in Nat
  PROVE  \E f : /\ f[0] = <<>> /\ f[Len(q)] = Selected(q, those)
                /\ \A n \in 1 .. Len(q) : f[n] = IF q[n] \in those THEN Append(f[n - 1], q[n]) ELSE f[n - 1]
  <1> DEFINE Step(r, x) == IF x \in those THEN Append(r, x) ELSE r
             Chain(n, f) == f = [m \in 0 .. n |-> IF m = 0 THEN <<>> ELSE Step(f[m - 1], q[m])]
             T == {n \in 0 .. Len(q) : \E f : Chain(n, f)}
  <1>1. Selected(q, those) = (CHOOSE f : Chain(Len(q), f))[Len(q)]
    BY DEF Selected, Folded
  <1> HIDE DEF Step
  <1>2. Chain(0, [m \in 0 .. 0 |-> <<>>])
    OBVIOUS
  <1>3. ASSUME NEW n \in 0 .. Len(q), n < Len(q), n \in T
        PROVE  n + 1 \in T
    <2>1. PICK f : Chain(n, f)
      BY <1>3
    <2> DEFINE g == [m \in 0 .. n + 1 |-> IF m = n + 1 THEN Step(f[n], q[n + 1]) ELSE f[m]]
    <2>2. ASSUME NEW m \in 0 .. n + 1
          PROVE  g[m] = IF m = 0 THEN <<>> ELSE Step(g[m - 1], q[m])
      <3>1. CASE m = n + 1
        BY <3>1
      <3>2. CASE m # n + 1
        BY <2>1, <3>2
      <3> QED BY <3>1, <3>2
    <2>3. g = [m \in 0 .. n + 1 |-> g[m]]
      OBVIOUS
    <2> HIDE DEF g
    <2>4. Chain(n + 1, g)
      BY <2>2, <2>3
    <2> QED BY <1>3, <2>4
  <1>4. \E f : Chain(Len(q), f)
    BY <1>2, <1>3, Induct
  <1>5. PICK f : Chain(Len(q), f) /\ Selected(q, those) = f[Len(q)]
    BY <1>1, <1>4
  <1>6. f[0] = <<>>
    <2>1. 0 \in 0 .. Len(q)
      OBVIOUS
    <2> QED BY <1>5, <2>1
  <1>7. ASSUME NEW n \in 1 .. Len(q)
        PROVE  f[n] = Step(f[n - 1], q[n])
    <2>1. n \in 0 .. Len(q) /\ n # 0
      OBVIOUS
    <2> QED BY <1>5, <2>1
  <1> QED BY <1>5, <1>6, <1>7 DEF Step

\* The actions of a rule or a schedule.
LEMMA DoActionsFold ==
  ASSUME NEW s, NEW inCard, NEW q, Len(q) \in Nat
  PROVE  \E f : /\ f[0] = s /\ f[Len(q)] = DoActions(s, inCard, q)
                /\ \A n \in 1 .. Len(q) : f[n] = DoAction(f[n - 1], inCard, q[n])
  <1> DEFINE Step(r, x) == DoAction(r, inCard, x)
             Chain(n, f) == f = [m \in 0 .. n |-> IF m = 0 THEN s ELSE Step(f[m - 1], q[m])]
             T == {n \in 0 .. Len(q) : \E f : Chain(n, f)}
  <1>1. DoActions(s, inCard, q) = (CHOOSE f : Chain(Len(q), f))[Len(q)]
    BY DEF DoActions, Folded
  <1> HIDE DEF Step
  <1>2. Chain(0, [m \in 0 .. 0 |-> s])
    OBVIOUS
  <1>3. ASSUME NEW n \in 0 .. Len(q), n < Len(q), n \in T
        PROVE  n + 1 \in T
    <2>1. PICK f : Chain(n, f)
      BY <1>3
    <2> DEFINE g == [m \in 0 .. n + 1 |-> IF m = n + 1 THEN Step(f[n], q[n + 1]) ELSE f[m]]
    <2>2. ASSUME NEW m \in 0 .. n + 1
          PROVE  g[m] = IF m = 0 THEN s ELSE Step(g[m - 1], q[m])
      <3>1. CASE m = n + 1
        BY <3>1
      <3>2. CASE m # n + 1
        BY <2>1, <3>2
      <3> QED BY <3>1, <3>2
    <2>3. g = [m \in 0 .. n + 1 |-> g[m]]
      OBVIOUS
    <2> HIDE DEF g
    <2>4. Chain(n + 1, g)
      BY <2>2, <2>3
    <2> QED BY <1>3, <2>4
  <1>4. \E f : Chain(Len(q), f)
    BY <1>2, <1>3, Induct
  <1>5. PICK f : Chain(Len(q), f) /\ DoActions(s, inCard, q) = f[Len(q)]
    BY <1>1, <1>4
  <1>6. f[0] = s
    <2>1. 0 \in 0 .. Len(q)
      OBVIOUS
    <2> QED BY <1>5, <2>1
  <1>7. ASSUME NEW n \in 1 .. Len(q)
        PROVE  f[n] = Step(f[n - 1], q[n])
    <2>1. n \in 0 .. Len(q) /\ n # 0
      OBVIOUS
    <2> QED BY <1>5, <2>1
  <1> QED BY <1>5, <1>6, <1>7 DEF Step

\* Plots, stopped one after the other.
LEMMA StopPlotsFold ==
  ASSUME NEW s, NEW q, Len(q) \in Nat
  PROVE  \E f : /\ f[0] = s /\ f[Len(q)] = StopPlots(s, q)
                /\ \A n \in 1 .. Len(q) : f[n] = StopPlot(f[n - 1], q[n])
  <1> DEFINE Step(r, x) == StopPlot(r, x)
             Chain(n, f) == f = [m \in 0 .. n |-> IF m = 0 THEN s ELSE Step(f[m - 1], q[m])]
             T == {n \in 0 .. Len(q) : \E f : Chain(n, f)}
  <1>1. StopPlots(s, q) = (CHOOSE f : Chain(Len(q), f))[Len(q)]
    BY DEF StopPlots, Folded
  <1> HIDE DEF Step
  <1>2. Chain(0, [m \in 0 .. 0 |-> s])
    OBVIOUS
  <1>3. ASSUME NEW n \in 0 .. Len(q), n < Len(q), n \in T
        PROVE  n + 1 \in T
    <2>1. PICK f : Chain(n, f)
      BY <1>3
    <2> DEFINE g == [m \in 0 .. n + 1 |-> IF m = n + 1 THEN Step(f[n], q[n + 1]) ELSE f[m]]
    <2>2. ASSUME NEW m \in 0 .. n + 1
          PROVE  g[m] = IF m = 0 THEN s ELSE Step(g[m - 1], q[m])
      <3>1. CASE m = n + 1
        BY <3>1
      <3>2. CASE m # n + 1
        BY <2>1, <3>2
      <3> QED BY <3>1, <3>2
    <2>3. g = [m \in 0 .. n + 1 |-> g[m]]
      OBVIOUS
    <2> HIDE DEF g
    <2>4. Chain(n + 1, g)
      BY <2>2, <2>3
    <2> QED BY <1>3, <2>4
  <1>4. \E f : Chain(Len(q), f)
    BY <1>2, <1>3, Induct
  <1>5. PICK f : Chain(Len(q), f) /\ StopPlots(s, q) = f[Len(q)]
    BY <1>1, <1>4
  <1>6. f[0] = s
    <2>1. 0 \in 0 .. Len(q)
      OBVIOUS
    <2> QED BY <1>5, <2>1
  <1>7. ASSUME NEW n \in 1 .. Len(q)
        PROVE  f[n] = Step(f[n - 1], q[n])
    <2>1. n \in 0 .. Len(q) /\ n # 0
      OBVIOUS
    <2> QED BY <1>5, <2>1
  <1> QED BY <1>5, <1>6, <1>7 DEF Step

\* The steps of a sequence.
LEMMA StepsFold ==
  ASSUME NEW s, NEW y, Len(y.steps) \in Nat
  PROVE  \E f : /\ f[0] = s /\ f[Len(y.steps)] = SequenceSteps(s, y)
                /\ \A n \in 1 .. Len(y.steps) : f[n] = SequenceStep(f[n - 1], y)
  <1> DEFINE Step(r, x) == SequenceStep(r, y)
             Chain(n, f) == f = [m \in 0 .. n |-> IF m = 0 THEN s ELSE Step(f[m - 1], y.steps[m])]
             T == {n \in 0 .. Len(y.steps) : \E f : Chain(n, f)}
  <1>1. SequenceSteps(s, y) = (CHOOSE f : Chain(Len(y.steps), f))[Len(y.steps)]
    BY DEF SequenceSteps, Folded
  <1> HIDE DEF Step
  <1>2. Chain(0, [m \in 0 .. 0 |-> s])
    OBVIOUS
  <1>3. ASSUME NEW n \in 0 .. Len(y.steps), n < Len(y.steps), n \in T
        PROVE  n + 1 \in T
    <2>1. PICK f : Chain(n, f)
      BY <1>3
    <2> DEFINE g == [m \in 0 .. n + 1 |-> IF m = n + 1 THEN Step(f[n], y.steps[n + 1]) ELSE f[m]]
    <2>2. ASSUME NEW m \in 0 .. n + 1
          PROVE  g[m] = IF m = 0 THEN s ELSE Step(g[m - 1], y.steps[m])
      <3>1. CASE m = n + 1
        BY <3>1
      <3>2. CASE m # n + 1
        BY <2>1, <3>2
      <3> QED BY <3>1, <3>2
    <2>3. g = [m \in 0 .. n + 1 |-> g[m]]
      OBVIOUS
    <2> HIDE DEF g
    <2>4. Chain(n + 1, g)
      BY <2>2, <2>3
    <2> QED BY <1>3, <2>4
  <1>4. \E f : Chain(Len(y.steps), f)
    BY <1>2, <1>3, Induct
  <1>5. PICK f : Chain(Len(y.steps), f) /\ SequenceSteps(s, y) = f[Len(y.steps)]
    BY <1>1, <1>4
  <1>6. f[0] = s
    <2>1. 0 \in 0 .. Len(y.steps)
      OBVIOUS
    <2> QED BY <1>5, <2>1
  <1>7. ASSUME NEW n \in 1 .. Len(y.steps)
        PROVE  f[n] = Step(f[n - 1], y.steps[n])
    <2>1. n \in 0 .. Len(y.steps) /\ n # 0
      OBVIOUS
    <2> QED BY <1>5, <2>1
  <1> QED BY <1>5, <1>6, <1>7 DEF Step

\* The cards' rules.
LEMMA CardRulesFold ==
  ASSUME NEW s, Len(P.cardRules) \in Nat
  PROVE  \E f : /\ f[0] = s /\ f[Len(P.cardRules)] = EvalCards(s)
                /\ \A n \in 1 .. Len(P.cardRules) : f[n] = RuleLimit(f[n - 1], P.cardRules[n])
  <1> DEFINE Step(r, x) == RuleLimit(r, x)
             Chain(n, f) == f = [m \in 0 .. n |-> IF m = 0 THEN s ELSE Step(f[m - 1], P.cardRules[m])]
             T == {n \in 0 .. Len(P.cardRules) : \E f : Chain(n, f)}
  <1>1. EvalCards(s) = (CHOOSE f : Chain(Len(P.cardRules), f))[Len(P.cardRules)]
    BY DEF EvalCards, Folded
  <1> HIDE DEF Step
  <1>2. Chain(0, [m \in 0 .. 0 |-> s])
    OBVIOUS
  <1>3. ASSUME NEW n \in 0 .. Len(P.cardRules), n < Len(P.cardRules), n \in T
        PROVE  n + 1 \in T
    <2>1. PICK f : Chain(n, f)
      BY <1>3
    <2> DEFINE g == [m \in 0 .. n + 1 |-> IF m = n + 1 THEN Step(f[n], P.cardRules[n + 1]) ELSE f[m]]
    <2>2. ASSUME NEW m \in 0 .. n + 1
          PROVE  g[m] = IF m = 0 THEN s ELSE Step(g[m - 1], P.cardRules[m])
      <3>1. CASE m = n + 1
        BY <3>1
      <3>2. CASE m # n + 1
        BY <2>1, <3>2
      <3> QED BY <3>1, <3>2
    <2>3. g = [m \in 0 .. n + 1 |-> g[m]]
      OBVIOUS
    <2> HIDE DEF g
    <2>4. Chain(n + 1, g)
      BY <2>2, <2>3
    <2> QED BY <1>3, <2>4
  <1>4. \E f : Chain(Len(P.cardRules), f)
    BY <1>2, <1>3, Induct
  <1>5. PICK f : Chain(Len(P.cardRules), f) /\ EvalCards(s) = f[Len(P.cardRules)]
    BY <1>1, <1>4
  <1>6. f[0] = s
    <2>1. 0 \in 0 .. Len(P.cardRules)
      OBVIOUS
    <2> QED BY <1>5, <2>1
  <1>7. ASSUME NEW n \in 1 .. Len(P.cardRules)
        PROVE  f[n] = Step(f[n - 1], P.cardRules[n])
    <2>1. n \in 0 .. Len(P.cardRules) /\ n # 0
      OBVIOUS
    <2> QED BY <1>5, <2>1
  <1> QED BY <1>5, <1>6, <1>7 DEF Step

\* The NAB's rules.
LEMMA RulesFold ==
  ASSUME NEW s, NEW events, Len(P.rules) \in Nat
  PROVE  \E f : /\ f[0] = s /\ f[Len(P.rules)] = EvalNab(s, events)
                /\ \A n \in 1 .. Len(P.rules) : f[n] = EvalRule(f[n - 1], P.rules[n], events)
  <1> DEFINE Step(r, x) == EvalRule(r, x, events)
             Chain(n, f) == f = [m \in 0 .. n |-> IF m = 0 THEN s ELSE Step(f[m - 1], P.rules[m])]
             T == {n \in 0 .. Len(P.rules) : \E f : Chain(n, f)}
  <1>1. EvalNab(s, events) = (CHOOSE f : Chain(Len(P.rules), f))[Len(P.rules)]
    BY DEF EvalNab, Folded
  <1> HIDE DEF Step
  <1>2. Chain(0, [m \in 0 .. 0 |-> s])
    OBVIOUS
  <1>3. ASSUME NEW n \in 0 .. Len(P.rules), n < Len(P.rules), n \in T
        PROVE  n + 1 \in T
    <2>1. PICK f : Chain(n, f)
      BY <1>3
    <2> DEFINE g == [m \in 0 .. n + 1 |-> IF m = n + 1 THEN Step(f[n], P.rules[n + 1]) ELSE f[m]]
    <2>2. ASSUME NEW m \in 0 .. n + 1
          PROVE  g[m] = IF m = 0 THEN s ELSE Step(g[m - 1], P.rules[m])
      <3>1. CASE m = n + 1
        BY <3>1
      <3>2. CASE m # n + 1
        BY <2>1, <3>2
      <3> QED BY <3>1, <3>2
    <2>3. g = [m \in 0 .. n + 1 |-> g[m]]
      OBVIOUS
    <2> HIDE DEF g
    <2>4. Chain(n + 1, g)
      BY <2>2, <2>3
    <2> QED BY <1>3, <2>4
  <1>4. \E f : Chain(Len(P.rules), f)
    BY <1>2, <1>3, Induct
  <1>5. PICK f : Chain(Len(P.rules), f) /\ EvalNab(s, events) = f[Len(P.rules)]
    BY <1>1, <1>4
  <1>6. f[0] = s
    <2>1. 0 \in 0 .. Len(P.rules)
      OBVIOUS
    <2> QED BY <1>5, <2>1
  <1>7. ASSUME NEW n \in 1 .. Len(P.rules)
        PROVE  f[n] = Step(f[n - 1], P.rules[n])
    <2>1. n \in 0 .. Len(P.rules) /\ n # 0
      OBVIOUS
    <2> QED BY <1>5, <2>1
  <1> QED BY <1>5, <1>6, <1>7 DEF Step

\* The schedules of a pass.
LEMMA SchedulesFold ==
  ASSUME NEW s, Len(P.schedules) \in Nat
  PROVE  \E f : /\ f[0] = s /\ f[Len(P.schedules)] = StartsAndEnds(s)
                /\ \A n \in 1 .. Len(P.schedules) : f[n] = RunSchedule(f[n - 1], P.schedules[n])
  <1> DEFINE Step(r, x) == RunSchedule(r, x)
             Chain(n, f) == f = [m \in 0 .. n |-> IF m = 0 THEN s ELSE Step(f[m - 1], P.schedules[m])]
             T == {n \in 0 .. Len(P.schedules) : \E f : Chain(n, f)}
  <1>1. StartsAndEnds(s) = (CHOOSE f : Chain(Len(P.schedules), f))[Len(P.schedules)]
    BY DEF StartsAndEnds, Folded
  <1> HIDE DEF Step
  <1>2. Chain(0, [m \in 0 .. 0 |-> s])
    OBVIOUS
  <1>3. ASSUME NEW n \in 0 .. Len(P.schedules), n < Len(P.schedules), n \in T
        PROVE  n + 1 \in T
    <2>1. PICK f : Chain(n, f)
      BY <1>3
    <2> DEFINE g == [m \in 0 .. n + 1 |-> IF m = n + 1 THEN Step(f[n], P.schedules[n + 1]) ELSE f[m]]
    <2>2. ASSUME NEW m \in 0 .. n + 1
          PROVE  g[m] = IF m = 0 THEN s ELSE Step(g[m - 1], P.schedules[m])
      <3>1. CASE m = n + 1
        BY <3>1
      <3>2. CASE m # n + 1
        BY <2>1, <3>2
      <3> QED BY <3>1, <3>2
    <2>3. g = [m \in 0 .. n + 1 |-> g[m]]
      OBVIOUS
    <2> HIDE DEF g
    <2>4. Chain(n + 1, g)
      BY <2>2, <2>3
    <2> QED BY <1>3, <2>4
  <1>4. \E f : Chain(Len(P.schedules), f)
    BY <1>2, <1>3, Induct
  <1>5. PICK f : Chain(Len(P.schedules), f) /\ StartsAndEnds(s) = f[Len(P.schedules)]
    BY <1>1, <1>4
  <1>6. f[0] = s
    <2>1. 0 \in 0 .. Len(P.schedules)
      OBVIOUS
    <2> QED BY <1>5, <2>1
  <1>7. ASSUME NEW n \in 1 .. Len(P.schedules)
        PROVE  f[n] = Step(f[n - 1], P.schedules[n])
    <2>1. n \in 0 .. Len(P.schedules) /\ n # 0
      OBVIOUS
    <2> QED BY <1>5, <2>1
  <1> QED BY <1>5, <1>6, <1>7 DEF Step

\* The actions of an end.
LEMMA EndByFold ==
  ASSUME NEW s, NEW q, Len(q) \in Nat
  PROVE  \E f : /\ f[0] = s /\ f[Len(q)] = EndBy(s, q)
                /\ \A n \in 1 .. Len(q) : f[n] = EndAction(f[n - 1], q[n])
  <1> DEFINE Step(r, x) == EndAction(r, x)
             Chain(n, f) == f = [m \in 0 .. n |-> IF m = 0 THEN s ELSE Step(f[m - 1], q[m])]
             T == {n \in 0 .. Len(q) : \E f : Chain(n, f)}
  <1>1. EndBy(s, q) = (CHOOSE f : Chain(Len(q), f))[Len(q)]
    BY DEF EndBy, Folded
  <1> HIDE DEF Step
  <1>2. Chain(0, [m \in 0 .. 0 |-> s])
    OBVIOUS
  <1>3. ASSUME NEW n \in 0 .. Len(q), n < Len(q), n \in T
        PROVE  n + 1 \in T
    <2>1. PICK f : Chain(n, f)
      BY <1>3
    <2> DEFINE g == [m \in 0 .. n + 1 |-> IF m = n + 1 THEN Step(f[n], q[n + 1]) ELSE f[m]]
    <2>2. ASSUME NEW m \in 0 .. n + 1
          PROVE  g[m] = IF m = 0 THEN s ELSE Step(g[m - 1], q[m])
      <3>1. CASE m = n + 1
        BY <3>1
      <3>2. CASE m # n + 1
        BY <2>1, <3>2
      <3> QED BY <3>1, <3>2
    <2>3. g = [m \in 0 .. n + 1 |-> g[m]]
      OBVIOUS
    <2> HIDE DEF g
    <2>4. Chain(n + 1, g)
      BY <2>2, <2>3
    <2> QED BY <1>3, <2>4
  <1>4. \E f : Chain(Len(q), f)
    BY <1>2, <1>3, Induct
  <1>5. PICK f : Chain(Len(q), f) /\ EndBy(s, q) = f[Len(q)]
    BY <1>1, <1>4
  <1>6. f[0] = s
    <2>1. 0 \in 0 .. Len(q)
      OBVIOUS
    <2> QED BY <1>5, <2>1
  <1>7. ASSUME NEW n \in 1 .. Len(q)
        PROVE  f[n] = Step(f[n - 1], q[n])
    <2>1. n \in 0 .. Len(q) /\ n # 0
      OBVIOUS
    <2> QED BY <1>5, <2>1
  <1> QED BY <1>5, <1>6, <1>7 DEF Step

\* The ends of what was taken out.
LEMMA EndOrphansFold ==
  ASSUME NEW s, NEW q, Len(q) \in Nat
  PROVE  \E f : /\ f[0] = s /\ f[Len(q)] = EndOrphans(s, q)
                /\ \A n \in 1 .. Len(q) : f[n] = EndOrphan(f[n - 1], q[n])
  <1> DEFINE Step(r, x) == EndOrphan(r, x)
             Chain(n, f) == f = [m \in 0 .. n |-> IF m = 0 THEN s ELSE Step(f[m - 1], q[m])]
             T == {n \in 0 .. Len(q) : \E f : Chain(n, f)}
  <1>1. EndOrphans(s, q) = (CHOOSE f : Chain(Len(q), f))[Len(q)]
    BY DEF EndOrphans, Folded
  <1> HIDE DEF Step
  <1>2. Chain(0, [m \in 0 .. 0 |-> s])
    OBVIOUS
  <1>3. ASSUME NEW n \in 0 .. Len(q), n < Len(q), n \in T
        PROVE  n + 1 \in T
    <2>1. PICK f : Chain(n, f)
      BY <1>3
    <2> DEFINE g == [m \in 0 .. n + 1 |-> IF m = n + 1 THEN Step(f[n], q[n + 1]) ELSE f[m]]
    <2>2. ASSUME NEW m \in 0 .. n + 1
          PROVE  g[m] = IF m = 0 THEN s ELSE Step(g[m - 1], q[m])
      <3>1. CASE m = n + 1
        BY <3>1
      <3>2. CASE m # n + 1
        BY <2>1, <3>2
      <3> QED BY <3>1, <3>2
    <2>3. g = [m \in 0 .. n + 1 |-> g[m]]
      OBVIOUS
    <2> HIDE DEF g
    <2>4. Chain(n + 1, g)
      BY <2>2, <2>3
    <2> QED BY <1>3, <2>4
  <1>4. \E f : Chain(Len(q), f)
    BY <1>2, <1>3, Induct
  <1>5. PICK f : Chain(Len(q), f) /\ EndOrphans(s, q) = f[Len(q)]
    BY <1>1, <1>4
  <1>6. f[0] = s
    <2>1. 0 \in 0 .. Len(q)
      OBVIOUS
    <2> QED BY <1>5, <2>1
  <1>7. ASSUME NEW n \in 1 .. Len(q)
        PROVE  f[n] = Step(f[n - 1], q[n])
    <2>1. n \in 0 .. Len(q) /\ n # 0
      OBVIOUS
    <2> QED BY <1>5, <2>1
  <1> QED BY <1>5, <1>6, <1>7 DEF Step

\* The commands.
LEMMA CommandsFold ==
  ASSUME NEW s, Len(queue) \in Nat
  PROVE  \E f : /\ f[0] = s /\ f[Len(queue)] = ApplyCommands(s)
                /\ \A n \in 1 .. Len(queue) : f[n] = ApplyCommand(f[n - 1], queue[n])
  <1> DEFINE Step(r, x) == ApplyCommand(r, x)
             Chain(n, f) == f = [m \in 0 .. n |-> IF m = 0 THEN s ELSE Step(f[m - 1], queue[m])]
             T == {n \in 0 .. Len(queue) : \E f : Chain(n, f)}
  <1>1. ApplyCommands(s) = (CHOOSE f : Chain(Len(queue), f))[Len(queue)]
    BY DEF ApplyCommands, Folded
  <1> HIDE DEF Step
  <1>2. Chain(0, [m \in 0 .. 0 |-> s])
    OBVIOUS
  <1>3. ASSUME NEW n \in 0 .. Len(queue), n < Len(queue), n \in T
        PROVE  n + 1 \in T
    <2>1. PICK f : Chain(n, f)
      BY <1>3
    <2> DEFINE g == [m \in 0 .. n + 1 |-> IF m = n + 1 THEN Step(f[n], queue[n + 1]) ELSE f[m]]
    <2>2. ASSUME NEW m \in 0 .. n + 1
          PROVE  g[m] = IF m = 0 THEN s ELSE Step(g[m - 1], queue[m])
      <3>1. CASE m = n + 1
        BY <3>1
      <3>2. CASE m # n + 1
        BY <2>1, <3>2
      <3> QED BY <3>1, <3>2
    <2>3. g = [m \in 0 .. n + 1 |-> g[m]]
      OBVIOUS
    <2> HIDE DEF g
    <2>4. Chain(n + 1, g)
      BY <2>2, <2>3
    <2> QED BY <1>3, <2>4
  <1>4. \E f : Chain(Len(queue), f)
    BY <1>2, <1>3, Induct
  <1>5. PICK f : Chain(Len(queue), f) /\ ApplyCommands(s) = f[Len(queue)]
    BY <1>1, <1>4
  <1>6. f[0] = s
    <2>1. 0 \in 0 .. Len(queue)
      OBVIOUS
    <2> QED BY <1>5, <2>1
  <1>7. ASSUME NEW n \in 1 .. Len(queue)
        PROVE  f[n] = Step(f[n - 1], queue[n])
    <2>1. n \in 0 .. Len(queue) /\ n # 0
      OBVIOUS
    <2> QED BY <1>5, <2>1
  <1> QED BY <1>5, <1>6, <1>7 DEF Step

\* The runs a restart goes on with.
LEMMA ResumesFold ==
  ASSUME NEW s, NEW q, Len(q) \in Nat
  PROVE  \E f : /\ f[0] = s /\ f[Len(q)] = ResumeAll(s, q)
                /\ \A n \in 1 .. Len(q) : f[n] = ApplyResume(f[n - 1], q[n])
  <1> DEFINE Step(r, x) == ApplyResume(r, x)
             Chain(n, f) == f = [m \in 0 .. n |-> IF m = 0 THEN s ELSE Step(f[m - 1], q[m])]
             T == {n \in 0 .. Len(q) : \E f : Chain(n, f)}
  <1>1. ResumeAll(s, q) = (CHOOSE f : Chain(Len(q), f))[Len(q)]
    BY DEF ResumeAll, Folded
  <1> HIDE DEF Step
  <1>2. Chain(0, [m \in 0 .. 0 |-> s])
    OBVIOUS
  <1>3. ASSUME NEW n \in 0 .. Len(q), n < Len(q), n \in T
        PROVE  n + 1 \in T
    <2>1. PICK f : Chain(n, f)
      BY <1>3
    <2> DEFINE g == [m \in 0 .. n + 1 |-> IF m = n + 1 THEN Step(f[n], q[n + 1]) ELSE f[m]]
    <2>2. ASSUME NEW m \in 0 .. n + 1
          PROVE  g[m] = IF m = 0 THEN s ELSE Step(g[m - 1], q[m])
      <3>1. CASE m = n + 1
        BY <3>1
      <3>2. CASE m # n + 1
        BY <2>1, <3>2
      <3> QED BY <3>1, <3>2
    <2>3. g = [m \in 0 .. n + 1 |-> g[m]]
      OBVIOUS
    <2> HIDE DEF g
    <2>4. Chain(n + 1, g)
      BY <2>2, <2>3
    <2> QED BY <1>3, <2>4
  <1>4. \E f : Chain(Len(q), f)
    BY <1>2, <1>3, Induct
  <1>5. PICK f : Chain(Len(q), f) /\ ResumeAll(s, q) = f[Len(q)]
    BY <1>1, <1>4
  <1>6. f[0] = s
    <2>1. 0 \in 0 .. Len(q)
      OBVIOUS
    <2> QED BY <1>5, <2>1
  <1>7. ASSUME NEW n \in 1 .. Len(q)
        PROVE  f[n] = Step(f[n - 1], q[n])
    <2>1. n \in 0 .. Len(q) /\ n # 0
      OBVIOUS
    <2> QED BY <1>5, <2>1
  <1> QED BY <1>5, <1>6, <1>7 DEF Step

\* The schedules of a new program.
LEMMA KeepSchedulesFold ==
  ASSUME NEW s, NEW old, NEW new, Len(new.schedules) \in Nat
  PROVE  \E f : /\ f[0] = s /\ f[Len(new.schedules)] = KeepSchedules(s, old, new)
                /\ \A n \in 1 .. Len(new.schedules) : f[n] = CarrySchedule(f[n - 1], new.schedules[n], old, new)
  <1> DEFINE Step(r, x) == CarrySchedule(r, x, old, new)
             Chain(n, f) == f = [m \in 0 .. n |-> IF m = 0 THEN s ELSE Step(f[m - 1], new.schedules[m])]
             T == {n \in 0 .. Len(new.schedules) : \E f : Chain(n, f)}
  <1>1. KeepSchedules(s, old, new) = (CHOOSE f : Chain(Len(new.schedules), f))[Len(new.schedules)]
    BY DEF KeepSchedules, Folded
  <1> HIDE DEF Step
  <1>2. Chain(0, [m \in 0 .. 0 |-> s])
    OBVIOUS
  <1>3. ASSUME NEW n \in 0 .. Len(new.schedules), n < Len(new.schedules), n \in T
        PROVE  n + 1 \in T
    <2>1. PICK f : Chain(n, f)
      BY <1>3
    <2> DEFINE g == [m \in 0 .. n + 1 |-> IF m = n + 1 THEN Step(f[n], new.schedules[n + 1]) ELSE f[m]]
    <2>2. ASSUME NEW m \in 0 .. n + 1
          PROVE  g[m] = IF m = 0 THEN s ELSE Step(g[m - 1], new.schedules[m])
      <3>1. CASE m = n + 1
        BY <3>1
      <3>2. CASE m # n + 1
        BY <2>1, <3>2
      <3> QED BY <3>1, <3>2
    <2>3. g = [m \in 0 .. n + 1 |-> g[m]]
      OBVIOUS
    <2> HIDE DEF g
    <2>4. Chain(n + 1, g)
      BY <2>2, <2>3
    <2> QED BY <1>3, <2>4
  <1>4. \E f : Chain(Len(new.schedules), f)
    BY <1>2, <1>3, Induct
  <1>5. PICK f : Chain(Len(new.schedules), f) /\ KeepSchedules(s, old, new) = f[Len(new.schedules)]
    BY <1>1, <1>4
  <1>6. f[0] = s
    <2>1. 0 \in 0 .. Len(new.schedules)
      OBVIOUS
    <2> QED BY <1>5, <2>1
  <1>7. ASSUME NEW n \in 1 .. Len(new.schedules)
        PROVE  f[n] = Step(f[n - 1], new.schedules[n])
    <2>1. n \in 0 .. Len(new.schedules) /\ n # 0
      OBVIOUS
    <2> QED BY <1>5, <2>1
  <1> QED BY <1>5, <1>6, <1>7 DEF Step

\* The schedules that are taken out.
LEMMA LeaveSchedulesFold ==
  ASSUME NEW s, NEW old, NEW q, Len(q) \in Nat
  PROVE  \E f : /\ f[0] = s /\ f[Len(q)] = LeaveSchedules(s, q, old)
                /\ \A n \in 1 .. Len(q) : f[n] = LeaveSchedule(f[n - 1], q[n], old)
  <1> DEFINE Step(r, x) == LeaveSchedule(r, x, old)
             Chain(n, f) == f = [m \in 0 .. n |-> IF m = 0 THEN s ELSE Step(f[m - 1], q[m])]
             T == {n \in 0 .. Len(q) : \E f : Chain(n, f)}
  <1>1. LeaveSchedules(s, q, old) = (CHOOSE f : Chain(Len(q), f))[Len(q)]
    BY DEF LeaveSchedules, Folded
  <1> HIDE DEF Step
  <1>2. Chain(0, [m \in 0 .. 0 |-> s])
    OBVIOUS
  <1>3. ASSUME NEW n \in 0 .. Len(q), n < Len(q), n \in T
        PROVE  n + 1 \in T
    <2>1. PICK f : Chain(n, f)
      BY <1>3
    <2> DEFINE g == [m \in 0 .. n + 1 |-> IF m = n + 1 THEN Step(f[n], q[n + 1]) ELSE f[m]]
    <2>2. ASSUME NEW m \in 0 .. n + 1
          PROVE  g[m] = IF m = 0 THEN s ELSE Step(g[m - 1], q[m])
      <3>1. CASE m = n + 1
        BY <3>1
      <3>2. CASE m # n + 1
        BY <2>1, <3>2
      <3> QED BY <3>1, <3>2
    <2>3. g = [m \in 0 .. n + 1 |-> g[m]]
      OBVIOUS
    <2> HIDE DEF g
    <2>4. Chain(n + 1, g)
      BY <2>2, <2>3
    <2> QED BY <1>3, <2>4
  <1>4. \E f : Chain(Len(q), f)
    BY <1>2, <1>3, Induct
  <1>5. PICK f : Chain(Len(q), f) /\ LeaveSchedules(s, q, old) = f[Len(q)]
    BY <1>1, <1>4
  <1>6. f[0] = s
    <2>1. 0 \in 0 .. Len(q)
      OBVIOUS
    <2> QED BY <1>5, <2>1
  <1>7. ASSUME NEW n \in 1 .. Len(q)
        PROVE  f[n] = Step(f[n - 1], q[n])
    <2>1. n \in 0 .. Len(q) /\ n # 0
      OBVIOUS
    <2> QED BY <1>5, <2>1
  <1> QED BY <1>5, <1>6, <1>7 DEF Step

\* What is remembered after each of the runs that are ended: f[n] after the first n.
RunByRun(f, s, q, old, new) ==
  /\ f[0] = s /\ f[Len(q)] = EndRuns(s, q, old, new)
  /\ \A n \in 1 .. Len(q) : f[n] = EndRemovedRun(f[n - 1], q[n], old, new)

\* The runs of the plots that are taken out.
LEMMA EndRunsFold ==
  ASSUME NEW s, NEW old, NEW new, NEW q, Len(q) \in Nat
  PROVE  \E f : RunByRun(f, s, q, old, new)
  <1> DEFINE Step(r, x) == EndRemovedRun(r, x, old, new)
             Chain(n, f) == f = [m \in 0 .. n |-> IF m = 0 THEN s ELSE Step(f[m - 1], q[m])]
             T == {n \in 0 .. Len(q) : \E f : Chain(n, f)}
  <1>1. EndRuns(s, q, old, new) = (CHOOSE f : Chain(Len(q), f))[Len(q)]
    BY DEF EndRuns, Folded
  <1> HIDE DEF Step
  <1>2. Chain(0, [m \in 0 .. 0 |-> s])
    OBVIOUS
  <1>3. ASSUME NEW n \in 0 .. Len(q), n < Len(q), n \in T
        PROVE  n + 1 \in T
    <2>1. PICK f : Chain(n, f)
      BY <1>3
    <2> DEFINE g == [m \in 0 .. n + 1 |-> IF m = n + 1 THEN Step(f[n], q[n + 1]) ELSE f[m]]
    <2>2. ASSUME NEW m \in 0 .. n + 1
          PROVE  g[m] = IF m = 0 THEN s ELSE Step(g[m - 1], q[m])
      <3>1. CASE m = n + 1
        BY <3>1
      <3>2. CASE m # n + 1
        BY <2>1, <3>2
      <3> QED BY <3>1, <3>2
    <2>3. g = [m \in 0 .. n + 1 |-> g[m]]
      OBVIOUS
    <2> HIDE DEF g
    <2>4. Chain(n + 1, g)
      BY <2>2, <2>3
    <2> QED BY <1>3, <2>4
  <1>4. \E f : Chain(Len(q), f)
    BY <1>2, <1>3, Induct
  <1>5. PICK f : Chain(Len(q), f) /\ EndRuns(s, q, old, new) = f[Len(q)]
    BY <1>1, <1>4
  <1>6. f[0] = s
    <2>1. 0 \in 0 .. Len(q)
      OBVIOUS
    <2> QED BY <1>5, <2>1
  <1>7. ASSUME NEW n \in 1 .. Len(q)
        PROVE  f[n] = Step(f[n - 1], q[n])
    <2>1. n \in 0 .. Len(q) /\ n # 0
      OBVIOUS
    <2> QED BY <1>5, <2>1
  <1> QED BY <1>5, <1>6, <1>7 DEF Step, RunByRun

\* The runs of a record.
LEMMA LoadRunsFold ==
  ASSUME NEW s, NEW rec, NEW ok, Len(P.schedules) \in Nat
  PROVE  \E f : /\ f[0] = s /\ f[Len(P.schedules)] = LoadRuns(rec, ok, s)
                /\ \A n \in 1 .. Len(P.schedules) : f[n] = LoadRun(rec, ok, f[n - 1], P.schedules[n])
  <1> DEFINE Step(r, x) == LoadRun(rec, ok, r, x)
             Chain(n, f) == f = [m \in 0 .. n |-> IF m = 0 THEN s ELSE Step(f[m - 1], P.schedules[m])]
             T == {n \in 0 .. Len(P.schedules) : \E f : Chain(n, f)}
  <1>1. LoadRuns(rec, ok, s) = (CHOOSE f : Chain(Len(P.schedules), f))[Len(P.schedules)]
    BY DEF LoadRuns, Folded
  <1> HIDE DEF Step
  <1>2. Chain(0, [m \in 0 .. 0 |-> s])
    OBVIOUS
  <1>3. ASSUME NEW n \in 0 .. Len(P.schedules), n < Len(P.schedules), n \in T
        PROVE  n + 1 \in T
    <2>1. PICK f : Chain(n, f)
      BY <1>3
    <2> DEFINE g == [m \in 0 .. n + 1 |-> IF m = n + 1 THEN Step(f[n], P.schedules[n + 1]) ELSE f[m]]
    <2>2. ASSUME NEW m \in 0 .. n + 1
          PROVE  g[m] = IF m = 0 THEN s ELSE Step(g[m - 1], P.schedules[m])
      <3>1. CASE m = n + 1
        BY <3>1
      <3>2. CASE m # n + 1
        BY <2>1, <3>2
      <3> QED BY <3>1, <3>2
    <2>3. g = [m \in 0 .. n + 1 |-> g[m]]
      OBVIOUS
    <2> HIDE DEF g
    <2>4. Chain(n + 1, g)
      BY <2>2, <2>3
    <2> QED BY <1>3, <2>4
  <1>4. \E f : Chain(Len(P.schedules), f)
    BY <1>2, <1>3, Induct
  <1>5. PICK f : Chain(Len(P.schedules), f) /\ LoadRuns(rec, ok, s) = f[Len(P.schedules)]
    BY <1>1, <1>4
  <1>6. f[0] = s
    <2>1. 0 \in 0 .. Len(P.schedules)
      OBVIOUS
    <2> QED BY <1>5, <2>1
  <1>7. ASSUME NEW n \in 1 .. Len(P.schedules)
        PROVE  f[n] = Step(f[n - 1], P.schedules[n])
    <2>1. n \in 0 .. Len(P.schedules) /\ n # 0
      OBVIOUS
    <2> QED BY <1>5, <2>1
  <1> QED BY <1>5, <1>6, <1>7 DEF Step

\* What was told.
LEMMA TellsFold ==
  ASSUME NEW s, Len(rt'.told) \in Nat
  PROVE  \E f : /\ f[0] = s /\ f[Len(rt'.told)] = Tells(s)
                /\ \A n \in 1 .. Len(rt'.told) : f[n] = Heard(f[n - 1], rt'.told[n])
  <1> DEFINE Step(r, x) == Heard(r, x)
             Chain(n, f) == f = [m \in 0 .. n |-> IF m = 0 THEN s ELSE Step(f[m - 1], rt'.told[m])]
             T == {n \in 0 .. Len(rt'.told) : \E f : Chain(n, f)}
  <1>1. Tells(s) = (CHOOSE f : Chain(Len(rt'.told), f))[Len(rt'.told)]
    BY DEF Tells, Folded
  <1> HIDE DEF Step
  <1>2. Chain(0, [m \in 0 .. 0 |-> s])
    OBVIOUS
  <1>3. ASSUME NEW n \in 0 .. Len(rt'.told), n < Len(rt'.told), n \in T
        PROVE  n + 1 \in T
    <2>1. PICK f : Chain(n, f)
      BY <1>3
    <2> DEFINE g == [m \in 0 .. n + 1 |-> IF m = n + 1 THEN Step(f[n], rt'.told[n + 1]) ELSE f[m]]
    <2>2. ASSUME NEW m \in 0 .. n + 1
          PROVE  g[m] = IF m = 0 THEN s ELSE Step(g[m - 1], rt'.told[m])
      <3>1. CASE m = n + 1
        BY <3>1
      <3>2. CASE m # n + 1
        BY <2>1, <3>2
      <3> QED BY <3>1, <3>2
    <2>3. g = [m \in 0 .. n + 1 |-> g[m]]
      OBVIOUS
    <2> HIDE DEF g
    <2>4. Chain(n + 1, g)
      BY <2>2, <2>3
    <2> QED BY <1>3, <2>4
  <1>4. \E f : Chain(Len(rt'.told), f)
    BY <1>2, <1>3, Induct
  <1>5. PICK f : Chain(Len(rt'.told), f) /\ Tells(s) = f[Len(rt'.told)]
    BY <1>1, <1>4
  <1>6. f[0] = s
    <2>1. 0 \in 0 .. Len(rt'.told)
      OBVIOUS
    <2> QED BY <1>5, <2>1
  <1>7. ASSUME NEW n \in 1 .. Len(rt'.told)
        PROVE  f[n] = Step(f[n - 1], rt'.told[n])
    <2>1. n \in 0 .. Len(rt'.told) /\ n # 0
      OBVIOUS
    <2> QED BY <1>5, <2>1
  <1> QED BY <1>5, <1>6, <1>7 DEF Step

-----------------------------------------------------------------------------
(* The invariant. *)

StableActions ==
  [type : {"set"}, card : Cards, on : BOOLEAN] \cup [type : {"stop_plot"}, plot : Plots]
Orphans ==
  [id : Sids, end : Nat, ran : Nat \cup {Never}, endWall : Nat \cup {Never}, actions : Seq(StableActions),
   announce : BOOLEAN]
Tellings == {"started", "ended", "cut"} \X Sids
Resumes == [plot : Plots, end : Nat \cup {Never}]
Queueable ==
  [type : {"runPlot"}, plot : Plots, time : RunTimes] \cup [type : {"stopPlot"}, plot : Plots]
    \cup [type : {"switch"}, card : Cards, on : BOOLEAN]

\* What is remembered of a rule.
RuleMemory(m) == DOMAIN m = DOMAIN RuleFresh /\ m.step \in Nat \ {0}

\* What a runtime remembers between and within the steps of a pass.
Memory(s) ==
  /\ DOMAIN s = DOMAIN Fresh
  /\ s.booted \in BOOLEAN
  /\ s.level \in [Cards -> BOOLEAN] /\ s.copy \in [Cards -> BOOLEAN] /\ s.dirty \subseteq s.known
  /\ s.scheds \in [Sids -> Memories]
  /\ DOMAIN s.rules = RuleIds /\ \A i \in RuleIds : RuleMemory(s.rules[i])
  /\ s.orphans \in Seq(Orphans) /\ s.resumes \in Seq(Resumes) /\ s.told \in Seq(Tellings)

\* It is of program p.
OfProgram(p, s) ==
  /\ DOMAIN s.runs \subseteq DOMAIN p.plots
  /\ \A i \in Sids \ Ids(p) : s.scheds[i] = NoMemory

\* So are what was written and what is to be let go.
Remembered(p, s) ==
  /\ Memory(s) /\ OfProgram(p, s)
  /\ s.written \in [Cards -> {"none", "on", "off"}]
  /\ s.releases \subseteq [card : Cards, line : Lines \ InUse(p)]

\* A record.
Record(r) == r.scheds \in [Sids -> Memories]

World ==
  /\ now \in 0 .. Horizon /\ {passed, trusted, alarm, up} \subseteq BOOLEAN
  /\ bad \subseteq Lines /\ line \in [Lines -> BOOLEAN] /\ prog \in DOMAIN Program
  /\ troubles \in 0 .. MaxTroubles

Types ==
  /\ World /\ Remembered(P, rt)
  /\ queue \in Seq(Queueable) /\ Record(disk) /\ Record(older)
  /\ DOMAIN seen = DOMAIN NotSeen /\ seen.lost \subseteq Lines
  /\ ~up => rt = Fresh

Released == {r.card : r \in rt.releases}
ReleasedLines == {r.line : r \in rt.releases}

\* What was last written to a card's line is on it.
WrittenIsThere ==
  \A c \in P.cards : rt.written[c] # "none" => line[P.line[c]] = (rt.written[c] = "on")
\* A line that is not in use is off, or the next pass switches it off, or it is known to be lost.
UnusedOff == \A l \in Lines \ InUse(P) : line[l] => l \in ReleasedLines \cup seen.lost
\* A card that is not in the program has nothing written, once a pass has let go of it.
GoneForgotten == \A c \in Cards \ P.cards : rt.written[c] = "none" \/ c \in Released
\* Releases wait for the next pass only.
ReleasesWait == rt.releases = {} \/ seen.reloaded

LinesInv == WrittenIsThere /\ UnusedOff /\ GoneForgotten /\ ReleasesWait /\ LinesFollowCards

-----------------------------------------------------------------------------
(* The steps of a pass keep the types of what the runtime remembers, and   *)
(* neither what was written nor what is to be let go.                      *)

\* From s to t of program p.
Keeps(p, s, t) == Memory(t) /\ OfProgram(p, t) /\ t.written = s.written /\ t.releases = s.releases

\* The same runs and schedules, and the same of the lines.
Alike(s, t) ==
  /\ t.runs = s.runs /\ t.scheds = s.scheds /\ t.written = s.written /\ t.releases = s.releases
  /\ t.orphans = s.orphans /\ t.told = s.told /\ (s.due => t.due)

\* From s to t of program p, and nothing happens to a schedule.
Same(p, s, t) ==
  Keeps(p, s, t) /\ t.scheds = s.scheds /\ t.orphans = s.orphans /\ t.told = s.told /\ (s.due => t.due)

\* From s to t something is told of a schedule, which is left with the memory m.
Turns(s, t, what, i, m) ==
  /\ t.scheds = [s.scheds EXCEPT ![i] = m] /\ t.orphans = s.orphans
  /\ t.told = Append(s.told, <<what, i>>) /\ t.due

\* What becomes of the memory of a schedule that ends, and of one that starts.
Over(m) == m.end # Never /\ now >= m.end
Ended(m) == [m EXCEPT !.end = Never, !.endWall = Never]
Started(m, d) == [ran |-> Today, missed |-> m.missed, end |-> now + d.dur, endWall |-> Wall + d.dur]
StartsNow(m, d) ==
  /\ ~Over(m) /\ trusted /\ m.ran # Today
  /\ Today * Day + d.start <= Wall /\ Wall < Today * Day + d.start + d.win

\* From s to t a schedule of the program ends, starts, or neither.
Turn(s, t, d) ==
  LET m == s.scheds[d.id]
  IN  \/ Over(m) /\ Turns(s, t, "ended", d.id, Ended(m))
      \/ StartsNow(m, d) /\ Turns(s, t, "started", d.id, Started(m, d))
      \/ /\ ~Over(m)
         /\ \E x : t.scheds = [s.scheds EXCEPT ![d.id] = [m EXCEPT !.missed = x]]
         /\ t.orphans = s.orphans /\ t.told = s.told /\ (s.due => t.due) /\ (t.scheds = s.scheds \/ t.due)

\* The fields of a runtime's memory.
LEMMA Fields ==
  DOMAIN Fresh = {"booted", "alarm", "level", "changed", "copy", "known", "dirty", "written", "releases", "runs",
                  "scheds", "orphans", "resumes", "rules", "due", "told"}
  BY DEF Fresh

\* The programs are as IsProgram says.
LEMMA ProgramFacts ==
  /\ \A n \in DOMAIN Program : IsProgram(Program[n]) /\ DOMAIN Program[n].plots \subseteq Plots
  /\ prog \in DOMAIN Program => IsProgram(P) /\ DOMAIN P.plots \subseteq Plots
  BY PlotRunsAssumption DEF Plots, P

\* Copies of cards are set.
LEMMA CopiesSet ==
  ASSUME NEW s, Memory(s), NEW cs, NEW on \in BOOLEAN
  PROVE  Memory(SetCopies(s, cs, on)) /\ Alike(s, SetCopies(s, cs, on))
  BY Fields DEF SetCopies, Memory, Alike

\* Cards are set.
LEMMA CardsSet ==
  ASSUME NEW s, Memory(s), NEW cs, NEW on \in BOOLEAN
  PROVE  Memory(SetCards(s, cs, on)) /\ Alike(s, SetCards(s, cs, on))
  BY Fields DEF SetCards, Memory, Alike

\* Cards are set in a program.
LEMMA TargetsSet ==
  ASSUME NEW s, Memory(s), NEW p, NEW cs, NEW on \in BOOLEAN
  PROVE  Memory(SetTargets(s, p, cs, on)) /\ Alike(s, SetTargets(s, p, cs, on))
  <1> DEFINE t == SetCopies(s, cs \cap p.nab, on)
  <1>1. Memory(t) /\ Alike(s, t)
    BY CopiesSet
  <1> HIDE DEF t
  <1>2. /\ Memory(SetCards(t, (cs \cap p.cards) \ p.nab, on))
        /\ Alike(t, SetCards(t, (cs \cap p.cards) \ p.nab, on))
    BY <1>1, CardsSet
  <1> QED BY <1>1, <1>2 DEF SetTargets, t, Alike

\* What is alike is of the same program.
LEMMA AlikeKeeps ==
  ASSUME NEW p, NEW s, OfProgram(p, s), NEW t, Memory(t), Alike(s, t)
  PROVE  Same(p, s, t)
  BY DEF Same, Keeps, OfProgram, Alike

\* One step after another keeps what both keep.
LEMMA KeepsTogether ==
  ASSUME NEW p, NEW s, NEW t, Keeps(p, s, t), NEW u, Keeps(p, t, u)
  PROVE  Keeps(p, s, u)
  BY DEF Same, Keeps

\* And nothing happens to a schedule in either.
LEMMA SameTogether ==
  ASSUME NEW p, NEW s, NEW t, Same(p, s, t), NEW u, Same(p, t, u)
  PROVE  Same(p, s, u)
  BY DEF Same, Keeps

\* Something is told.
LEMMA TellKeeps ==
  ASSUME NEW p, NEW s, Memory(s), OfProgram(p, s), NEW what \in {"started", "ended", "cut"}, NEW i \in Sids
  PROVE  LET t == Tell(s, what, i)
         IN  /\ Keeps(p, s, t) /\ t.runs = s.runs /\ t.scheds = s.scheds /\ t.orphans = s.orphans
             /\ t.resumes = s.resumes /\ t.due = s.due /\ t.told = Append(s.told, <<what, i>>)
  <1>1. <<what, i>> \in Tellings
    BY DEF Tellings
  <1>2. Append(s.told, <<what, i>>) \in Seq(Tellings)
    BY <1>1 DEF Memory
  <1> QED BY <1>2, Fields DEF Tell, Memory, OfProgram, Keeps

\* A plot runs.
LEMMA RunPlotKeeps ==
  ASSUME NEW s, Memory(s), OfProgram(P, s), NEW q \in DOMAIN P.plots, NEW time
  PROVE  Same(P, s, RunPlot(s, q, time))
  <1> DEFINE t == SetCopies(s, P.plots[q], TRUE)
             v == IF time = Never THEN Never ELSE now + time
  <1>1. Memory(t) /\ Alike(s, t)
    BY CopiesSet
  <1>2. RunPlot(s, q, time) = [t EXCEPT !.runs = With(t.runs, q, v), !.due = TRUE]
    BY DEF RunPlot
  <1>3. DOMAIN With(t.runs, q, v) = {q} \cup DOMAIN t.runs
    BY DEF With
  <1> HIDE DEF t, v
  <1> QED BY <1>1, <1>2, <1>3, Fields DEF Same, Keeps, Memory, OfProgram, Alike

\* Runs end.
LEMMA WithoutRunsKeeps ==
  ASSUME NEW p, NEW s, Memory(s), OfProgram(p, s), NEW qs
  PROVE  Same(p, s, WithoutRuns(s, qs))
  <1>1. DOMAIN [q \in DOMAIN s.runs \ qs |-> s.runs[q]] = DOMAIN s.runs \ qs
    OBVIOUS
  <1>2. WithoutRuns(s, qs) = [s EXCEPT !.runs = [q \in DOMAIN s.runs \ qs |-> s.runs[q]]]
    BY DEF WithoutRuns
  <1> QED BY <1>1, <1>2, Fields DEF Same, Keeps, Memory, OfProgram

\* Something is due.
LEMMA DueKeeps ==
  ASSUME NEW s, Memory(s)
  PROVE  Memory([s EXCEPT !.due = TRUE]) /\ Alike(s, [s EXCEPT !.due = TRUE])
  BY Fields DEF Memory, Alike

\* A plot is stopped.
LEMMA StopPlotKeeps ==
  ASSUME NEW s, Memory(s), OfProgram(P, s), NEW q
  PROVE  Same(P, s, StopPlot(s, q))
  <1> DEFINE othersOpen == \E o \in DOMAIN P.plots \ {q} : \E c \in P.plots[o] : s.copy[c]
             pump == IF P.pump = NoCard \/ othersOpen THEN {} ELSE {P.pump}
             r == WithoutRuns(s, {q})
             t == SetCopies(r, pump \cup P.plots[q], FALSE)
  <1>1. Same(P, s, r)
    BY WithoutRunsKeeps
  <1>2. StopPlot(s, q) = [t EXCEPT !.due = TRUE]
    BY DEF StopPlot
  <1> HIDE DEF r, pump
  <1>3. Memory(t) /\ Alike(r, t)
    BY <1>1, CopiesSet DEF Same, Keeps
  <1> HIDE DEF t
  <1>4. Memory([t EXCEPT !.due = TRUE]) /\ Alike(t, [t EXCEPT !.due = TRUE])
    BY <1>3, DueKeeps
  <1> QED BY <1>1, <1>2, <1>3, <1>4 DEF Same, Keeps, Alike, OfProgram

\* What each step of a fold keeps, the fold keeps.
LEMMA FoldKeeps ==
  ASSUME NEW p, NEW N \in Nat, NEW f, Memory(f[0]), OfProgram(p, f[0]),
         \A n \in 1 .. N : Memory(f[n - 1]) /\ OfProgram(p, f[n - 1]) => Keeps(p, f[n - 1], f[n])
  PROVE  Keeps(p, f[0], f[N])
  <1> DEFINE T == {n \in 0 .. N : Keeps(p, f[0], f[n])}
  <1>1. 0 \in T
    BY DEF Same, Keeps
  <1>2. ASSUME NEW n \in 0 .. N, n < N, n \in T
        PROVE  n + 1 \in T
    <2>1. n + 1 \in 1 .. N /\ (n + 1) - 1 = n
      BY <1>2
    <2>2. Keeps(p, f[0], f[n])
      BY <1>2
    <2>3. Memory(f[n]) /\ OfProgram(p, f[n])
      BY <2>2 DEF Same, Keeps
    <2>4. Keeps(p, f[n], f[n + 1])
      BY <2>1, <2>3
    <2> QED BY <2>1, <2>2, <2>4, KeepsTogether
  <1> QED BY <1>1, <1>2, Induct

\* When nothing happens to a schedule in any of them.
LEMMA FoldSame ==
  ASSUME NEW p, NEW N \in Nat, NEW f, Memory(f[0]), OfProgram(p, f[0]),
         \A n \in 1 .. N : Memory(f[n - 1]) /\ OfProgram(p, f[n - 1]) => Same(p, f[n - 1], f[n])
  PROVE  Same(p, f[0], f[N])
  <1> DEFINE T == {n \in 0 .. N : Same(p, f[0], f[n])}
  <1>1. 0 \in T
    BY DEF Same, Keeps
  <1>2. ASSUME NEW n \in 0 .. N, n < N, n \in T
        PROVE  n + 1 \in T
    <2>1. n + 1 \in 1 .. N /\ (n + 1) - 1 = n
      BY <1>2
    <2>2. Same(p, f[0], f[n])
      BY <1>2
    <2>3. Memory(f[n]) /\ OfProgram(p, f[n])
      BY <2>2 DEF Same, Keeps
    <2>4. Same(p, f[n], f[n + 1])
      BY <2>1, <2>3
    <2> QED BY <2>1, <2>2, <2>4, SameTogether
  <1> QED BY <1>1, <1>2, Induct

\* A rule is remembered.
LEMMA RuleKeeps ==
  ASSUME NEW p, NEW s, Memory(s), OfProgram(p, s), NEW i \in RuleIds, NEW m, RuleMemory(m)
  PROVE  Same(p, s, [s EXCEPT !.rules = [s.rules EXCEPT ![i] = m]])
  BY Fields DEF Memory, OfProgram, Same, Keeps

\* An action is done.
LEMMA DoActionKeeps ==
  ASSUME NEW s, Memory(s), OfProgram(P, s), prog \in DOMAIN Program, NEW inCard \in BOOLEAN,
         NEW cs, NEW qs \in SUBSET DOMAIN P.plots, NEW a \in Actions(cs, qs)
  PROVE  Same(P, s, DoAction(s, inCard, a))
  <1>1. CASE a.type = "set"
    <2>1. a.on \in BOOLEAN
      BY <1>1 DEF Actions
    <2>2. DoAction(s, inCard, a) = IF inCard THEN SetCards(s, {a.card}, a.on) ELSE SetCopies(s, {a.card}, a.on)
      BY <1>1 DEF DoAction
    <2> QED BY <2>1, <2>2, CardsSet, CopiesSet, AlikeKeeps
  <1>2. CASE a.type = "run_plot"
    <2>1. a.plot \in DOMAIN P.plots
      BY <1>2 DEF Actions
    <2> QED BY <1>2, <2>1, RunPlotKeeps DEF DoAction
  <1>3. CASE a.type = "stop_plot"
    BY <1>3, StopPlotKeeps DEF DoAction
  <1>4. CASE a.type = "start_sequence"
    <2> DEFINE m == [s.rules[a.rule] EXCEPT !.active = TRUE, !.step = 1, !.at = Never]
    <2>1. a.rule \in RuleIds
      BY <1>4 DEF Actions
    <2>2. RuleMemory(m)
      BY <2>1 DEF Memory, RuleMemory, RuleFresh
    <2>3. DoAction(s, inCard, a) = [s EXCEPT !.rules = [s.rules EXCEPT ![a.rule] = m]]
      BY <1>4, Fields DEF DoAction, Memory
    <2> HIDE DEF m
    <2> QED BY <2>1, <2>2, <2>3, RuleKeeps
  <1>5. a.type \in {"set", "run_plot", "stop_plot", "start_sequence"}
    BY DEF Actions
  <1> QED BY <1>1, <1>2, <1>3, <1>4, <1>5

\* The actions of a rule or a schedule are done.
LEMMA DoActionsKeeps ==
  ASSUME NEW s, Memory(s), OfProgram(P, s), prog \in DOMAIN Program, NEW inCard \in BOOLEAN,
         NEW cs, NEW qs \in SUBSET DOMAIN P.plots, NEW q \in Seq(Actions(cs, qs))
  PROVE  Same(P, s, DoActions(s, inCard, q))
  <1>1. Len(q) \in Nat
    OBVIOUS
  <1>2. PICK f : /\ f[0] = s /\ f[Len(q)] = DoActions(s, inCard, q)
                 /\ \A n \in 1 .. Len(q) : f[n] = DoAction(f[n - 1], inCard, q[n])
    BY <1>1, DoActionsFold
  <1>3. ASSUME NEW n \in 1 .. Len(q), Memory(f[n - 1]), OfProgram(P, f[n - 1])
        PROVE  Same(P, f[n - 1], f[n])
    <2>1. q[n] \in Actions(cs, qs)
      BY <1>1
    <2>2. f[n] = DoAction(f[n - 1], inCard, q[n])
      BY <1>2
    <2> QED BY <1>3, <2>1, <2>2, DoActionKeeps
  <1> QED BY <1>1, <1>2, <1>3, FoldSame

\* Plots are stopped.
LEMMA StopPlotsKeeps ==
  ASSUME NEW s, Memory(s), OfProgram(P, s), NEW q, Len(q) \in Nat
  PROVE  Same(P, s, StopPlots(s, q))
  <1>1. Len(q) \in Nat
    OBVIOUS
  <1>2. PICK f : /\ f[0] = s /\ f[Len(q)] = StopPlots(s, q)
                 /\ \A n \in 1 .. Len(q) : f[n] = StopPlot(f[n - 1], q[n])
    BY <1>1, StopPlotsFold
  <1>3. ASSUME NEW n \in 1 .. Len(q), Memory(f[n - 1]), OfProgram(P, f[n - 1])
        PROVE  Same(P, f[n - 1], f[n])
    BY <1>2, <1>3, StopPlotKeeps
  <1> QED BY <1>1, <1>2, <1>3, FoldSame

-----------------------------------------------------------------------------
(* Rules. *)

Acts(p) == Seq(Actions(p.nab, DOMAIN p.plots))
Steps(p) == [delay : Nat, actions : Acts(p)]
Sequences(p) == {r \in Rules(p) : r.kind = "sequence"}

\* What a rule does.
LEMMA RuleFacts ==
  ASSUME NEW p, NEW r \in Rules(p)
  PROVE  /\ r.kind \in {"when", "on", "sequence"}
         /\ r.id \in RuleIds
         /\ r.kind = "when" => r.actions \in Acts(p) /\ r.orElse \in Acts(p)
         /\ r.kind = "on" => r.actions \in Acts(p)
         /\ r.kind = "sequence" => r.steps \in Seq(Steps(p))
  BY DEF Rules, Acts, Steps

\* The actions of a rule of the NAB, or of a schedule, are done.
LEMMA ActsKeep ==
  ASSUME NEW s, Memory(s), OfProgram(P, s), prog \in DOMAIN Program, NEW q \in Acts(P)
  PROVE  Same(P, s, DoActions(s, FALSE, q))
  BY DoActionsKeeps DEF Acts

\* A rule with a condition.
LEMMA RuleWhenKeeps ==
  ASSUME NEW s, Memory(s), OfProgram(P, s), prog \in DOMAIN Program, NEW r \in Rules(P), r.kind = "when"
  PROVE  Same(P, s, RuleWhen(s, r))
  <1> DEFINE m == s.rules[r.id]
             since == IF m.since = Never THEN now ELSE m.since
             mOn == [m EXCEPT !.since = since, !.fired = TRUE]
             mOff == [m EXCEPT !.since = Never, !.fired = FALSE]
             mHeld == [m EXCEPT !.since = since]
             on == [s EXCEPT !.rules[r.id] = [@ EXCEPT !.since = since, !.fired = TRUE]]
             off == [s EXCEPT !.rules[r.id] = [@ EXCEPT !.since = Never, !.fired = FALSE]]
             held == [s EXCEPT !.rules[r.id].since = since]
  <1>1. r.actions \in Acts(P) /\ r.orElse \in Acts(P) /\ r.id \in RuleIds
    BY RuleFacts
  <1>2. /\ on = [s EXCEPT !.rules = [s.rules EXCEPT ![r.id] = mOn]]
        /\ off = [s EXCEPT !.rules = [s.rules EXCEPT ![r.id] = mOff]]
        /\ held = [s EXCEPT !.rules = [s.rules EXCEPT ![r.id] = mHeld]]
    BY <1>1, Fields DEF Memory
  <1>a. RuleMemory(mOn) /\ RuleMemory(mOff) /\ RuleMemory(mHeld)
    BY <1>1 DEF Memory, RuleMemory, RuleFresh
  <1>3. RuleWhen(s, r) = IF Condition(s, r.cond)
                         THEN IF m.fired \/ now - since < r.hold THEN held ELSE DoActions(on, FALSE, r.actions)
                         ELSE IF m.fired THEN DoActions(off, FALSE, r.orElse) ELSE off
    BY DEF RuleWhen
  <1> HIDE DEF on, off, held, m, since, mOn, mOff, mHeld
  <1>4. Same(P, s, on) /\ Same(P, s, off) /\ Same(P, s, held)
    BY <1>1, <1>2, <1>a, RuleKeeps
  <1>5. Memory(on) /\ OfProgram(P, on) /\ Memory(off) /\ OfProgram(P, off)
    BY <1>4 DEF Same, Keeps
  <1>6. Same(P, on, DoActions(on, FALSE, r.actions)) /\ Same(P, off, DoActions(off, FALSE, r.orElse))
    BY <1>1, <1>5, ActsKeep
  <1>7. Same(P, s, DoActions(on, FALSE, r.actions)) /\ Same(P, s, DoActions(off, FALSE, r.orElse))
    BY <1>4, <1>6, SameTogether
  <1> QED BY <1>3, <1>4, <1>7

\* A rule with a limit.
LEMMA RuleLimitKeeps ==
  ASSUME NEW s, Memory(s), OfProgram(P, s), prog \in DOMAIN Program, NEW r \in CardRules(P)
  PROVE  Same(P, s, RuleLimit(s, r))
  <1> DEFINE m == s.rules[r.id]
             since == IF m.limitSince # Never THEN m.limitSince
                      ELSE IF s.changed[r.card] # Never THEN s.changed[r.card] ELSE now
             fires == ~m.limitFired /\ now - since >= r.max
             mAfter == [m EXCEPT !.limitSince = since, !.limitFired = m.limitFired \/ fires]
             mOff == [m EXCEPT !.limitSince = Never, !.limitFired = FALSE]
             after == [s EXCEPT !.rules[r.id] = [@ EXCEPT !.limitSince = since, !.limitFired = m.limitFired \/ fires]]
             off == [s EXCEPT !.rules[r.id] = [@ EXCEPT !.limitSince = Never, !.limitFired = FALSE]]
  <1>1. r.actions \in Seq(Actions(P.cards, {})) /\ r.id \in RuleIds
    BY DEF CardRules
  <1>3. RuleLimit(s, r) = IF ~s.level[r.card] THEN off
                          ELSE IF fires THEN DoActions(after, TRUE, r.actions) ELSE after
    BY DEF RuleLimit
  <1> HIDE DEF fires, since
  <1>2. /\ after = [s EXCEPT !.rules = [s.rules EXCEPT ![r.id] = mAfter]]
        /\ off = [s EXCEPT !.rules = [s.rules EXCEPT ![r.id] = mOff]]
    <2>1. "rules" \in DOMAIN s /\ r.id \in DOMAIN s.rules
      BY <1>1, Fields DEF Memory
    <2> QED BY <2>1
  <1>a. RuleMemory(mAfter) /\ RuleMemory(mOff)
    BY <1>1 DEF Memory, RuleMemory, RuleFresh
  <1> HIDE DEF after, off, fires, since, m, mAfter, mOff
  <1>4. Same(P, s, after) /\ Same(P, s, off)
    BY <1>1, <1>2, <1>a, RuleKeeps
  <1>5. Memory(after) /\ OfProgram(P, after)
    BY <1>4 DEF Same, Keeps
  <1>6. {} \in SUBSET DOMAIN P.plots /\ TRUE \in BOOLEAN
    OBVIOUS
  <1>7. Same(P, after, DoActions(after, TRUE, r.actions))
    BY <1>1, <1>5, <1>6, DoActionsKeeps
  <1>8. Same(P, s, DoActions(after, TRUE, r.actions))
    BY <1>4, <1>7, SameTogether
  <1> QED BY <1>3, <1>4, <1>8

\* One step of a sequence.
LEMMA SequenceStepKeeps ==
  ASSUME NEW s, Memory(s), OfProgram(P, s), prog \in DOMAIN Program, NEW y \in Sequences(P)
  PROVE  Same(P, s, SequenceStep(s, y))
  <1> DEFINE m == s.rules[y.id]
             at == IF m.at = Never THEN now + y.steps[m.step].delay ELSE m.at
             held == [s EXCEPT !.rules[y.id].at = at]
             t == DoActions(s, FALSE, y.steps[m.step].actions)
             next == [t EXCEPT !.rules[y.id] = [@ EXCEPT !.step = t.rules[y.id].step + 1, !.at = Never]]
  <1>1. SequenceStep(s, y) = IF ~m.active \/ m.step > Len(y.steps) THEN s ELSE IF now < at THEN held ELSE next
    BY DEF SequenceStep
  <1>2. y.id \in RuleIds /\ y.steps \in Seq(Steps(P))
    BY RuleFacts DEF Sequences
  <1>3. Same(P, s, s)
    BY DEF Same, Keeps
  <1>4. Same(P, s, held)
    <2> DEFINE mHeld == [m EXCEPT !.at = at]
    <2>1. held = [s EXCEPT !.rules = [s.rules EXCEPT ![y.id] = mHeld]]
      BY <1>2, Fields DEF Memory
    <2>2. RuleMemory(mHeld)
      BY <1>2 DEF Memory, RuleMemory, RuleFresh
    <2> HIDE DEF mHeld, held
    <2> QED BY <1>2, <2>1, <2>2, RuleKeeps
  <1>5. ASSUME ~(~m.active \/ m.step > Len(y.steps))
        PROVE  Same(P, s, next)
    <2> DEFINE mNext == [t.rules[y.id] EXCEPT !.step = t.rules[y.id].step + 1, !.at = Never]
    <2>1. m.step \in DOMAIN y.steps
      <3>1. m.step \in Nat \ {0}
        BY <1>2 DEF Memory, RuleMemory
      <3>2. Len(y.steps) \in Nat /\ DOMAIN y.steps = 1 .. Len(y.steps)
        BY <1>2
      <3>3. m.step \in 1 .. Len(y.steps)
        BY <1>5, <3>1, <3>2
      <3> QED BY <3>2, <3>3
    <2>2. y.steps[m.step] \in Steps(P)
      BY <1>2, <2>1
    <2>a. y.steps[m.step].actions \in Acts(P)
      BY <2>2 DEF Steps
    <2> HIDE DEF m
    <2>3. Same(P, s, t)
      BY <2>a, ActsKeep
    <2>4. Memory(t) /\ OfProgram(P, t)
      BY <2>3 DEF Same, Keeps
    <2> HIDE DEF t
    <2>5. next = [t EXCEPT !.rules = [t.rules EXCEPT ![y.id] = mNext]]
      <3>1. "rules" \in DOMAIN t /\ y.id \in DOMAIN t.rules
        BY <1>2, <2>4, Fields DEF Memory
      <3> QED BY <3>1
    <2>6. RuleMemory(mNext)
      BY <1>2, <2>4 DEF Memory, RuleMemory, RuleFresh
    <2> HIDE DEF mNext, next
    <2>7. Same(P, t, next)
      BY <1>2, <2>4, <2>5, <2>6, RuleKeeps
    <2> QED BY <2>3, <2>7, SameTogether
  <1> HIDE DEF m, at, held, next, t
  <1> QED BY <1>1, <1>3, <1>4, <1>5

\* The steps of a sequence that are due are done.
LEMMA StepsKeep ==
  ASSUME NEW s, Memory(s), OfProgram(P, s), prog \in DOMAIN Program, NEW y \in Sequences(P)
  PROVE  Same(P, s, SequenceSteps(s, y))
  <1>1. Len(y.steps) \in Nat
    BY DEF Sequences
  <1>2. PICK f : /\ f[0] = s /\ f[Len(y.steps)] = SequenceSteps(s, y)
                 /\ \A n \in 1 .. Len(y.steps) : f[n] = SequenceStep(f[n - 1], y)
    BY <1>1, StepsFold
  <1>3. ASSUME NEW n \in 1 .. Len(y.steps), Memory(f[n - 1]), OfProgram(P, f[n - 1])
        PROVE  Same(P, f[n - 1], f[n])
    BY <1>2, <1>3, SequenceStepKeeps
  <1> QED BY <1>1, <1>2, <1>3, FoldSame

\* A sequence.
LEMMA RuleSequenceKeeps ==
  ASSUME NEW s, Memory(s), OfProgram(P, s), prog \in DOMAIN Program, NEW y \in Sequences(P)
  PROVE  Same(P, s, RuleSequence(s, y))
  <1> DEFINE all == SequenceSteps(s, y)
             goes == all.rules[y.id].step <= Len(y.steps)
             aborted == [s EXCEPT !.rules[y.id].active = FALSE]
             done == [all EXCEPT !.rules[y.id].active = goes]
             mAborted == [s.rules[y.id] EXCEPT !.active = FALSE]
             mDone == [all.rules[y.id] EXCEPT !.active = goes]
  <1>1. RuleSequence(s, y) \in {s, aborted, done}
    BY DEF RuleSequence
  <1>2. y.id \in RuleIds
    BY RuleFacts DEF Sequences
  <1>3. Same(P, s, s)
    BY DEF Same, Keeps
  <1>4. Same(P, s, aborted)
    <2>1. aborted = [s EXCEPT !.rules = [s.rules EXCEPT ![y.id] = mAborted]]
      BY <1>2, Fields DEF Memory
    <2>2. RuleMemory(mAborted)
      BY <1>2 DEF Memory, RuleMemory, RuleFresh
    <2> HIDE DEF mAborted, aborted
    <2> QED BY <1>2, <2>1, <2>2, RuleKeeps
  <1>5. Same(P, s, done)
    <2>1. Same(P, s, all)
      BY StepsKeep
    <2>2. Memory(all) /\ OfProgram(P, all)
      BY <2>1 DEF Same, Keeps
    <2> HIDE DEF all, goes
    <2>3. done = [all EXCEPT !.rules = [all.rules EXCEPT ![y.id] = mDone]]
      BY <1>2, <2>2, Fields DEF Memory
    <2>4. RuleMemory(mDone)
      BY <1>2, <2>2 DEF Memory, RuleMemory, RuleFresh
    <2> HIDE DEF mDone, done
    <2>5. Same(P, all, done)
      BY <1>2, <2>2, <2>3, <2>4, RuleKeeps
    <2> QED BY <2>1, <2>5, SameTogether
  <1> HIDE DEF aborted, done
  <1> QED BY <1>1, <1>3, <1>4, <1>5

\* A rule of the NAB.
LEMMA EvalRuleKeeps ==
  ASSUME NEW s, Memory(s), OfProgram(P, s), prog \in DOMAIN Program, NEW r \in Rules(P), NEW events
  PROVE  Same(P, s, EvalRule(s, r, events))
  <1>1. CASE r.kind = "when"
    BY <1>1, RuleWhenKeeps DEF EvalRule
  <1>2. CASE r.kind = "on"
    <2>1. r.actions \in Acts(P)
      BY <1>2, RuleFacts
    <2>2. Same(P, s, DoActions(s, FALSE, r.actions)) /\ Same(P, s, s)
      BY <2>1, ActsKeep DEF Same, Keeps
    <2>3. EvalRule(s, r, events) = IF r.event \in events THEN DoActions(s, FALSE, r.actions) ELSE s
      BY <1>2 DEF EvalRule, RuleOn
    <2> QED BY <2>2, <2>3
  <1>3. CASE r.kind = "sequence"
    <2>1. r \in Sequences(P)
      BY <1>3 DEF Sequences
    <2> QED BY <1>3, <2>1, RuleSequenceKeeps DEF EvalRule
  <1> QED BY <1>1, <1>2, <1>3, RuleFacts

\* The cards' rules are evaluated.
LEMMA EvalCardsKeeps ==
  ASSUME NEW s, Memory(s), OfProgram(P, s), prog \in DOMAIN Program
  PROVE  Same(P, s, EvalCards(s))
  <1>1. Len(P.cardRules) \in Nat
    BY ProgramFacts DEF IsProgram
  <1>2. PICK f : /\ f[0] = s /\ f[Len(P.cardRules)] = EvalCards(s)
                 /\ \A n \in 1 .. Len(P.cardRules) : f[n] = RuleLimit(f[n - 1], P.cardRules[n])
    BY <1>1, CardRulesFold
  <1>3. ASSUME NEW n \in 1 .. Len(P.cardRules), Memory(f[n - 1]), OfProgram(P, f[n - 1])
        PROVE  Same(P, f[n - 1], f[n])
    <2>1. P.cardRules[n] \in CardRules(P)
      BY <1>1, ProgramFacts DEF IsProgram
    <2>2. f[n] = RuleLimit(f[n - 1], P.cardRules[n])
      BY <1>2
    <2> QED BY <1>3, <2>1, <2>2, RuleLimitKeeps
  <1> QED BY <1>1, <1>2, <1>3, FoldSame

\* The NAB's rules are evaluated.
LEMMA EvalNabKeeps ==
  ASSUME NEW s, Memory(s), OfProgram(P, s), prog \in DOMAIN Program, NEW events
  PROVE  Same(P, s, EvalNab(s, events))
  <1>1. Len(P.rules) \in Nat
    BY ProgramFacts DEF IsProgram
  <1>2. PICK f : /\ f[0] = s /\ f[Len(P.rules)] = EvalNab(s, events)
                 /\ \A n \in 1 .. Len(P.rules) : f[n] = EvalRule(f[n - 1], P.rules[n], events)
    BY <1>1, RulesFold
  <1>3. ASSUME NEW n \in 1 .. Len(P.rules), Memory(f[n - 1]), OfProgram(P, f[n - 1])
        PROVE  Same(P, f[n - 1], f[n])
    <2>1. P.rules[n] \in Rules(P)
      BY <1>1, ProgramFacts DEF IsProgram
    <2>2. f[n] = EvalRule(f[n - 1], P.rules[n], events)
      BY <1>2
    <2> QED BY <1>3, <2>1, <2>2, EvalRuleKeeps
  <1> QED BY <1>1, <1>2, <1>3, FoldSame

-----------------------------------------------------------------------------
(* Schedules. *)

\* The clock counts from 0.
LEMMA ClockFacts ==
  ASSUME now \in Nat
  PROVE  /\ \A ok : WallOf(ok) \in Nat
         /\ Wall \in Nat /\ Today \in Nat
  <1>1. /\ Day \in Nat \ {0} /\ Behind \in Nat
    BY PlotRunsAssumption
  <1>2. \A ok : WallOf(ok) \in Nat
    BY <1>1 DEF WallOf
  <1>3. \A n \in Nat : n \div Day \in Nat
    BY <1>1
  <1> QED BY <1>2, <1>3 DEF Wall, Today

\* The elements of a sequence that are in a set are a sequence of that set.
LEMMA SelectedType ==
  ASSUME NEW those, NEW q, Len(q) \in Nat
  PROVE  Selected(q, those) \in Seq(those)
  <1>1. PICK f : /\ f[0] = <<>> /\ f[Len(q)] = Selected(q, those)
                 /\ \A n \in 1 .. Len(q) : f[n] = IF q[n] \in those THEN Append(f[n - 1], q[n]) ELSE f[n - 1]
    BY SelectedFold
  <1> DEFINE T == {n \in 0 .. Len(q) : f[n] \in Seq(those)}
  <1>2. 0 \in T
    <2>1. 0 \in 0 .. Len(q) /\ <<>> \in Seq(those)
      OBVIOUS
    <2> QED BY <1>1, <2>1
  <1>3. ASSUME NEW n \in 0 .. Len(q), n < Len(q), n \in T
        PROVE  n + 1 \in T
    <2>1. n + 1 \in 1 .. Len(q) /\ (n + 1) - 1 = n
      BY <1>3
    <2>2. f[n + 1] = IF q[n + 1] \in those THEN Append(f[n], q[n + 1]) ELSE f[n]
      BY <1>1, <2>1
    <2>3. f[n] \in Seq(those)
      BY <1>3
    <2>4. f[n + 1] \in Seq(those)
      BY <2>2, <2>3
    <2> QED BY <2>1, <2>4
  <1> HIDE DEF T
  <1>4. Len(q) \in T
    BY <1>2, <1>3, Induct
  <1> QED BY <1>1, <1>4 DEF T

\* What a schedule does.
LEMMA ScheduleFacts ==
  ASSUME NEW p, IsProgram(p), NEW d \in SeqRange(p.schedules)
  PROVE  /\ d.id \in Sids /\ d.id \in Ids(p)
         /\ d.dur \in Nat
         /\ d.plot \in DOMAIN p.plots \cup {NoPlot}
         /\ d.actions \in Acts(p) /\ EndActions(d) \in Acts(p)
  <1>1. d \in Schedules(p)
    BY DEF IsProgram, SeqRange
  <1>2. /\ d.id \in Sids /\ d.dur \in Nat /\ d.plot \in DOMAIN p.plots \cup {NoPlot}
        /\ d.actions \in Acts(p) /\ d.ends \in Acts(p)
    BY <1>1 DEF Schedules, Acts
  <1>3. ASSUME d.plot # NoPlot
        PROVE  <<End(d.plot)>> \in Acts(p)
    <2>1. End(d.plot) \in Actions(p.nab, DOMAIN p.plots)
      BY <1>2, <1>3 DEF End, Actions
    <2> QED BY <2>1 DEF Acts
  <1>4. EndActions(d) \in Acts(p)
    <2>1. <<>> \in Acts(p)
      BY DEF Acts
    <2> QED BY <1>2, <1>3, <2>1 DEF EndActions
  <1> QED BY <1>2, <1>4 DEF Ids

\* The actions of an end that stay possible without the schedule.
LEMMA StableEndType ==
  ASSUME NEW p, IsProgram(p), DOMAIN p.plots \subseteq Plots, NEW d \in SeqRange(p.schedules), NEW n
  PROVE  StableEnd(n, d) \in Seq(StableActions)
  <1> DEFINE those == {a \in SeqRange(EndActions(d)) : a.type = "stop_plot" \/ (a.type = "set" /\ a.card \in n.nab)}
  <1>1. StableEnd(n, d) = Selected(EndActions(d), those)
    BY DEF StableEnd
  <1>2. EndActions(d) \in Acts(p)
    BY ScheduleFacts
  <1>3. Len(EndActions(d)) \in Nat
    BY <1>2 DEF Acts
  <1>4. those \subseteq StableActions
    <2> SUFFICES ASSUME NEW a \in those
                 PROVE  a \in StableActions
      OBVIOUS
    <2>1. a \in Actions(p.nab, DOMAIN p.plots)
      BY <1>2 DEF Acts, SeqRange
    <2>2. p.nab \subseteq Cards
      BY DEF IsProgram
    <2> QED BY <2>1, <2>2 DEF Actions, StableActions
  <1> HIDE DEF those
  <1>5. Selected(EndActions(d), those) \in Seq(those)
    BY <1>3, SelectedType
  <1> QED BY <1>1, <1>4, <1>5

\* A schedule's marks are remembered.
LEMMA MarkKeeps ==
  ASSUME NEW p, NEW s, Memory(s), OfProgram(p, s), NEW i \in Sids, i \in Ids(p), NEW m \in Memories, NEW due
  PROVE  Keeps(p, s, [s EXCEPT !.scheds = [s.scheds EXCEPT ![i] = m], !.due = due])
  BY Fields DEF Memory, OfProgram, Same, Keeps

\* A schedule that ends.
LEMMA ScheduleEndKeeps ==
  ASSUME NEW s, Memory(s), OfProgram(P, s), prog \in DOMAIN Program, NEW d \in SeqRange(P.schedules)
  PROVE  /\ Keeps(P, s, ScheduleEnd(s, d))
         /\ Turns(s, ScheduleEnd(s, d), "ended", d.id, Ended(s.scheds[d.id]))
  <1> DEFINE m == [s.scheds[d.id] EXCEPT !.end = Never, !.endWall = Never]
             t == [s EXCEPT !.scheds = [s.scheds EXCEPT ![d.id] = m], !.due = TRUE]
             u == Tell(t, "ended", d.id)
  <1>1. d.id \in Sids /\ d.id \in Ids(P) /\ EndActions(d) \in Acts(P)
    BY ProgramFacts, ScheduleFacts
  <1>2. m \in Memories
    <2>1. s.scheds[d.id] \in Memories
      BY <1>1 DEF Memory
    <2> QED BY <2>1 DEF Memories
  <1>3. ScheduleEnd(s, d) = DoActions(u, FALSE, EndActions(d))
    <2>1. [s EXCEPT !.scheds[d.id] = [@ EXCEPT !.end = Never, !.endWall = Never], !.due = TRUE] = t
      BY <1>1, Fields DEF Memory
    <2> HIDE DEF t
    <2> QED BY <2>1 DEF ScheduleEnd
  <1>m. m = Ended(s.scheds[d.id])
    BY DEF Ended
  <1> HIDE DEF m
  <1>4. Keeps(P, s, t)
    BY <1>1, <1>2, MarkKeeps
  <1>5. t.scheds = [s.scheds EXCEPT ![d.id] = m] /\ t.orphans = s.orphans /\ t.told = s.told /\ t.due
    BY Fields DEF Memory
  <1> HIDE DEF t
  <1>6. /\ Keeps(P, t, u) /\ u.scheds = t.scheds /\ u.orphans = t.orphans /\ u.due = t.due
        /\ u.told = Append(t.told, <<"ended", d.id>>)
    <2>1. Memory(t) /\ OfProgram(P, t)
      BY <1>4 DEF Keeps
    <2> QED BY <1>1, <2>1, TellKeeps
  <1> HIDE DEF u
  <1>7. Same(P, u, DoActions(u, FALSE, EndActions(d)))
    BY <1>1, <1>6, ActsKeep DEF Keeps
  <1>8. Keeps(P, s, ScheduleEnd(s, d))
    BY <1>3, <1>4, <1>6, <1>7, KeepsTogether DEF Same
  <1>9. Turns(s, ScheduleEnd(s, d), "ended", d.id, m)
    BY <1>3, <1>5, <1>6, <1>7 DEF Same, Turns
  <1> QED BY <1>m, <1>8, <1>9

\* A schedule that starts.
LEMMA ScheduleStartKeeps ==
  ASSUME NEW s, Memory(s), OfProgram(P, s), prog \in DOMAIN Program, now \in Nat, NEW d \in SeqRange(P.schedules)
  PROVE  /\ Keeps(P, s, ScheduleStart(s, d))
         /\ Turns(s, ScheduleStart(s, d), "started", d.id, Started(s.scheds[d.id], d))
  <1> DEFINE m == [ran |-> Today, missed |-> s.scheds[d.id].missed, end |-> now + d.dur, endWall |-> Wall + d.dur]
             t == [s EXCEPT !.scheds = [s.scheds EXCEPT ![d.id] = m], !.due = TRUE]
             u == Tell(t, "started", d.id)
  <1>1. d.id \in Sids /\ d.id \in Ids(P) /\ d.actions \in Acts(P) /\ d.dur \in Nat
    BY ProgramFacts, ScheduleFacts
  <1>2. m \in Memories
    <2>1. s.scheds[d.id].missed \in Nat \cup {Never}
      BY <1>1 DEF Memory, Memories
    <2>2. now + d.dur \in Nat /\ Wall + d.dur \in Nat /\ Today \in Nat
      BY <1>1, ClockFacts
    <2> QED BY <2>1, <2>2 DEF Memories
  <1>3. ScheduleStart(s, d) = DoActions(u, FALSE, d.actions)
    <2> HIDE DEF m
    <2>1. [s EXCEPT !.scheds[d.id] = m, !.due = TRUE] = t
      BY <1>1, Fields DEF Memory
    <2> HIDE DEF t
    <2> QED BY <2>1 DEF ScheduleStart, m
  <1>m. m = Started(s.scheds[d.id], d)
    BY DEF Started
  <1> HIDE DEF m
  <1>4. Keeps(P, s, t)
    BY <1>1, <1>2, MarkKeeps
  <1>5. t.scheds = [s.scheds EXCEPT ![d.id] = m] /\ t.orphans = s.orphans /\ t.told = s.told /\ t.due
    BY Fields DEF Memory
  <1> HIDE DEF t
  <1>6. /\ Keeps(P, t, u) /\ u.scheds = t.scheds /\ u.orphans = t.orphans /\ u.due = t.due
        /\ u.told = Append(t.told, <<"started", d.id>>)
    <2>1. Memory(t) /\ OfProgram(P, t)
      BY <1>4 DEF Keeps
    <2> QED BY <1>1, <2>1, TellKeeps
  <1> HIDE DEF u
  <1>7. Same(P, u, DoActions(u, FALSE, d.actions))
    BY <1>1, <1>6, ActsKeep DEF Keeps
  <1>8. Same(P, u, ScheduleStart(s, d))
    BY <1>3, <1>7
  <1> DEFINE v == ScheduleStart(s, d)
  <1> HIDE DEF v
  <1>9. /\ Keeps(P, u, v) /\ v.scheds = u.scheds /\ v.orphans = u.orphans /\ v.told = u.told
        /\ (u.due => v.due)
    BY <1>8 DEF v, Same
  <1>10. Keeps(P, s, v)
    <2>1. Keeps(P, s, u)
      BY <1>4, <1>6, KeepsTogether
    <2> QED BY <1>9, <2>1, KeepsTogether
  <1>11. Turns(s, v, "started", d.id, m)
    BY <1>5, <1>6, <1>9 DEF Turns
  <1> QED BY <1>m, <1>10, <1>11 DEF v

\* A schedule in a pass.
LEMMA RunScheduleKeeps ==
  ASSUME NEW s, Memory(s), OfProgram(P, s), prog \in DOMAIN Program, now \in Nat, NEW d \in SeqRange(P.schedules)
  PROVE  Keeps(P, s, RunSchedule(s, d)) /\ Turn(s, RunSchedule(s, d), d)
  <1> DEFINE m == [s.scheds[d.id] EXCEPT !.missed = Today]
             t == [s EXCEPT !.scheds = [s.scheds EXCEPT ![d.id] = m], !.due = TRUE]
  <1>1. d.id \in Sids /\ d.id \in Ids(P)
    BY ProgramFacts, ScheduleFacts
  <1>2. m \in Memories
    <2> DEFINE was == s.scheds[d.id]
    <2>1. was \in Memories
      BY <1>1 DEF Memory
    <2>2. Today \in Nat
      BY ClockFacts
    <2>3. m = [was EXCEPT !.missed = Today]
      OBVIOUS
    <2> HIDE DEF was, m, t
    <2> QED BY <2>1, <2>2, <2>3 DEF Memories
  <1>3. [s EXCEPT !.scheds[d.id].missed = Today, !.due = TRUE] = t
    BY <1>1, Fields DEF Memory
  <1>4. Keeps(P, s, t)
    <2> HIDE DEF m
    <2> QED BY <1>1, <1>2, MarkKeeps
  <1>5. /\ t.scheds = [s.scheds EXCEPT ![d.id] = m] /\ t.orphans = s.orphans /\ t.told = s.told
        /\ t.due
    BY Fields DEF Memory
  <1>6. s.scheds = [s.scheds EXCEPT ![d.id] = [s.scheds[d.id] EXCEPT !.missed = s.scheds[d.id].missed]]
    BY <1>1 DEF Memory, Memories
  <1> HIDE DEF t
  <1>7. /\ Keeps(P, s, s)
        /\ Keeps(P, s, ScheduleEnd(s, d)) /\ Turns(s, ScheduleEnd(s, d), "ended", d.id, Ended(s.scheds[d.id]))
        /\ Keeps(P, s, ScheduleStart(s, d))
        /\ Turns(s, ScheduleStart(s, d), "started", d.id, Started(s.scheds[d.id], d))
    BY ScheduleEndKeeps, ScheduleStartKeeps DEF Keeps
  <1>8. \/ Over(s.scheds[d.id]) /\ RunSchedule(s, d) = ScheduleEnd(s, d)
        \/ StartsNow(s.scheds[d.id], d) /\ RunSchedule(s, d) = ScheduleStart(s, d)
        \/ ~Over(s.scheds[d.id]) /\ RunSchedule(s, d) \in {s, t}
    <2> DEFINE mine == s.scheds[d.id]
               begin == ScheduleStart(s, d)
               stop == ScheduleEnd(s, d)
    <2>1. \/ Over(mine) /\ RunSchedule(s, d) = stop
          \/ ~Over(mine) /\ StartsNow(mine, d) /\ RunSchedule(s, d) = begin
          \/ ~Over(mine) /\ RunSchedule(s, d) \in {s, [s EXCEPT !.scheds[d.id].missed = Today, !.due = TRUE]}
      <3> HIDE DEF begin, stop, m
      <3> QED BY DEF RunSchedule, Over, StartsNow, begin, stop
    <2> HIDE DEF mine, begin, stop
    <2>2. \/ Over(mine) /\ RunSchedule(s, d) = stop
          \/ StartsNow(mine, d) /\ RunSchedule(s, d) = begin
          \/ ~Over(mine) /\ RunSchedule(s, d) \in {s, t}
      BY <1>3, <2>1
    <2> QED BY <2>2 DEF mine, begin, stop
  <1>9. CASE ~Over(s.scheds[d.id]) /\ RunSchedule(s, d) \in {s, t}
    BY <1>4, <1>5, <1>6, <1>7, <1>9 DEF Turn
  <1>10. CASE Over(s.scheds[d.id]) /\ RunSchedule(s, d) = ScheduleEnd(s, d)
    BY <1>7, <1>10 DEF Turn
  <1>11. CASE StartsNow(s.scheds[d.id], d) /\ RunSchedule(s, d) = ScheduleStart(s, d)
    BY <1>7, <1>11 DEF Turn
  <1> QED BY <1>8, <1>9, <1>10, <1>11

\* Schedules start and end.
LEMMA StartsAndEndsKeeps ==
  ASSUME NEW s, Memory(s), OfProgram(P, s), prog \in DOMAIN Program, now \in Nat
  PROVE  Keeps(P, s, StartsAndEnds(s))
  <1>1. Len(P.schedules) \in Nat
    BY ProgramFacts DEF IsProgram
  <1>2. PICK f : /\ f[0] = s /\ f[Len(P.schedules)] = StartsAndEnds(s)
                 /\ \A n \in 1 .. Len(P.schedules) : f[n] = RunSchedule(f[n - 1], P.schedules[n])
    BY <1>1, SchedulesFold
  <1>3. ASSUME NEW n \in 1 .. Len(P.schedules), Memory(f[n - 1]), OfProgram(P, f[n - 1])
        PROVE  Keeps(P, f[n - 1], f[n])
    <2>1. P.schedules[n] \in SeqRange(P.schedules)
      BY <1>1, ProgramFacts DEF IsProgram, SeqRange
    <2>2. f[n] = RunSchedule(f[n - 1], P.schedules[n])
      BY <1>2
    <2> QED BY <1>3, <2>1, <2>2, RunScheduleKeeps
  <1> QED BY <1>1, <1>2, <1>3, FoldKeeps

\* An action of the end of a schedule that was taken out.
LEMMA EndActionKeeps ==
  ASSUME NEW s, Memory(s), OfProgram(P, s), prog \in DOMAIN Program, NEW a \in StableActions
  PROVE  Same(P, s, EndAction(s, a))
  <1>1. CASE a.type = "set"
    <2>1. a.on \in BOOLEAN
      BY <1>1 DEF StableActions
    <2>2. Same(P, s, SetTargets(s, P, {a.card}, a.on))
      BY <2>1, TargetsSet, AlikeKeeps
    <2> QED BY <1>1, <2>2 DEF EndAction
  <1>2. CASE a.type = "stop_plot"
    <2>1. Same(P, s, s) /\ Same(P, s, StopPlot(s, a.plot))
      BY StopPlotKeeps DEF Same, Keeps
    <2> QED BY <1>2, <2>1 DEF EndAction
  <1>3. a.type \in {"set", "stop_plot"}
    BY DEF StableActions
  <1> QED BY <1>1, <1>2, <1>3

\* The actions of an end are done.
LEMMA EndByKeeps ==
  ASSUME NEW s, Memory(s), OfProgram(P, s), prog \in DOMAIN Program, NEW q \in Seq(StableActions)
  PROVE  Same(P, s, EndBy(s, q))
  <1>1. Len(q) \in Nat
    OBVIOUS
  <1>2. PICK f : /\ f[0] = s /\ f[Len(q)] = EndBy(s, q)
                 /\ \A n \in 1 .. Len(q) : f[n] = EndAction(f[n - 1], q[n])
    BY <1>1, EndByFold
  <1>3. ASSUME NEW n \in 1 .. Len(q), Memory(f[n - 1]), OfProgram(P, f[n - 1])
        PROVE  Same(P, f[n - 1], f[n])
    <2>1. q[n] \in StableActions
      BY <1>1
    <2>2. f[n] = EndAction(f[n - 1], q[n])
      BY <1>2
    <2> QED BY <1>3, <2>1, <2>2, EndActionKeeps
  <1> QED BY <1>1, <1>2, <1>3, FoldSame

\* The end of a schedule that was taken out.
LEMMA EndOrphanKeeps ==
  ASSUME NEW s, Memory(s), OfProgram(P, s), prog \in DOMAIN Program, NEW o \in Orphans
  PROVE  LET t == EndOrphan(s, o)
         IN  /\ Keeps(P, s, t) /\ t.scheds = s.scheds /\ t.orphans = s.orphans /\ t.due
             /\ t.told = IF o.announce THEN Append(s.told, <<"ended", o.id>>) ELSE s.told
  <1> DEFINE t == IF o.announce THEN Tell(s, "ended", o.id) ELSE s
             u == [t EXCEPT !.due = TRUE]
  <1>1. o.id \in Sids /\ o.actions \in Seq(StableActions)
    BY DEF Orphans
  <1>2. /\ Keeps(P, s, t) /\ t.scheds = s.scheds /\ t.orphans = s.orphans
        /\ t.told = IF o.announce THEN Append(s.told, <<"ended", o.id>>) ELSE s.told
    <2>1. CASE o.announce
      <3> DEFINE v == Tell(s, "ended", o.id)
      <3>1. /\ Keeps(P, s, v) /\ v.scheds = s.scheds /\ v.orphans = s.orphans
            /\ v.told = Append(s.told, <<"ended", o.id>>)
        BY <1>1, TellKeeps
      <3> HIDE DEF v
      <3>2. t = v
        BY <2>1 DEF v
      <3> HIDE DEF t
      <3> QED BY <2>1, <3>1, <3>2
    <2>2. CASE ~o.announce
      <3>1. Keeps(P, s, s)
        BY DEF Keeps
      <3>2. t = s
        BY <2>2
      <3> HIDE DEF t
      <3> QED BY <2>2, <3>1, <3>2
    <2> HIDE DEF t
    <2> QED BY <2>1, <2>2
  <1>3. EndOrphan(s, o) = EndBy(u, o.actions)
    BY DEF EndOrphan
  <1> HIDE DEF t
  <1>4. Memory(u) /\ Alike(t, u) /\ u.due
    BY <1>2, DueKeeps, Fields DEF Keeps, Memory
  <1> HIDE DEF u
  <1>5. Keeps(P, s, u)
    BY <1>2, <1>4 DEF Keeps, Alike, OfProgram
  <1>6. Same(P, u, EndBy(u, o.actions))
    BY <1>1, <1>5, EndByKeeps DEF Keeps
  <1>7. Keeps(P, s, EndOrphan(s, o))
    BY <1>3, <1>5, <1>6, KeepsTogether DEF Same
  <1> QED BY <1>2, <1>3, <1>4, <1>6, <1>7 DEF Same, Alike

\* What was taken out ends.
LEMMA EndOrphansKeeps ==
  ASSUME NEW s, Memory(s), OfProgram(P, s), prog \in DOMAIN Program, NEW q \in Seq(Orphans)
  PROVE  Keeps(P, s, EndOrphans(s, q))
  <1>1. Len(q) \in Nat
    OBVIOUS
  <1>2. PICK f : /\ f[0] = s /\ f[Len(q)] = EndOrphans(s, q)
                 /\ \A n \in 1 .. Len(q) : f[n] = EndOrphan(f[n - 1], q[n])
    BY <1>1, EndOrphansFold
  <1>3. ASSUME NEW n \in 1 .. Len(q), Memory(f[n - 1]), OfProgram(P, f[n - 1])
        PROVE  Keeps(P, f[n - 1], f[n])
    <2>1. q[n] \in Orphans
      BY <1>1
    <2>2. f[n] = EndOrphan(f[n - 1], q[n])
      BY <1>2
    <2> QED BY <1>3, <2>1, <2>2, EndOrphanKeeps
  <1> QED BY <1>1, <1>2, <1>3, FoldKeeps

\* The schedules in a pass.
LEMMA RunSchedulesKeeps ==
  ASSUME NEW s, Memory(s), OfProgram(P, s), prog \in DOMAIN Program, now \in Nat
  PROVE  Keeps(P, s, RunSchedules(s))
  <1> DEFINE r == StartsAndEnds(s)
             due == {o \in SeqRange(r.orphans) : now >= o.end}
             wait == SeqRange(r.orphans) \ due
             waiting == Selected(r.orphans, wait)
             ending == Selected(r.orphans, due)
             t == [r EXCEPT !.orphans = waiting]
  <1>1. Keeps(P, s, r)
    BY StartsAndEndsKeeps
  <1>2. RunSchedules(s) = EndOrphans(t, ending)
    BY DEF RunSchedules
  <1> HIDE DEF r
  <1>3. SeqRange(r.orphans) \subseteq Orphans /\ Len(r.orphans) \in Nat
    BY <1>1 DEF Same, Keeps, Memory, SeqRange
  <1>4. due \subseteq Orphans /\ wait \subseteq Orphans
    BY <1>3
  <1> HIDE DEF due, wait
  <1>5. waiting \in Seq(Orphans) /\ ending \in Seq(Orphans)
    <2>1. waiting \in Seq(wait) /\ ending \in Seq(due)
      BY <1>3, SelectedType
    <2> QED BY <1>4, <2>1
  <1> HIDE DEF waiting, ending
  <1>6. Keeps(P, r, t)
    BY <1>1, <1>5, Fields DEF Same, Keeps, Memory, OfProgram
  <1> HIDE DEF t
  <1>7. Keeps(P, t, EndOrphans(t, ending))
    BY <1>5, <1>6, EndOrphansKeeps DEF Same, Keeps
  <1>8. Keeps(P, s, t)
    BY <1>1, <1>6, KeepsTogether
  <1> QED BY <1>2, <1>7, <1>8, KeepsTogether

-----------------------------------------------------------------------------
(* Passes. *)

\* A command.
LEMMA ApplyCommandKeeps ==
  ASSUME NEW s, Memory(s), OfProgram(P, s), NEW c \in Queueable
  PROVE  Same(P, s, ApplyCommand(s, c))
  <1>1. Same(P, s, s)
    BY DEF Same, Keeps
  <1>2. CASE c.type = "runPlot"
    <2>1. c.plot \in DOMAIN P.plots => Same(P, s, RunPlot(s, c.plot, c.time))
      BY RunPlotKeeps
    <2> QED BY <1>1, <1>2, <2>1 DEF ApplyCommand
  <1>3. CASE c.type = "stopPlot"
    <2>1. Same(P, s, StopPlot(s, c.plot))
      BY StopPlotKeeps
    <2> QED BY <1>1, <1>3, <2>1 DEF ApplyCommand
  <1>4. CASE c.type = "switch"
    <2>1. c.on \in BOOLEAN
      BY <1>4 DEF Queueable
    <2>2. Same(P, s, SetCards(s, {c.card}, c.on))
      BY <2>1, CardsSet, AlikeKeeps
    <2> QED BY <1>1, <1>4, <2>2 DEF ApplyCommand
  <1>5. c.type \in {"runPlot", "stopPlot", "switch"}
    BY DEF Queueable
  <1> QED BY <1>2, <1>3, <1>4, <1>5

\* The commands are applied.
LEMMA ApplyCommandsKeeps ==
  ASSUME NEW s, Memory(s), OfProgram(P, s), queue \in Seq(Queueable)
  PROVE  Same(P, s, ApplyCommands(s))
  <1>1. Len(queue) \in Nat
    OBVIOUS
  <1>2. PICK f : /\ f[0] = s /\ f[Len(queue)] = ApplyCommands(s)
                 /\ \A n \in 1 .. Len(queue) : f[n] = ApplyCommand(f[n - 1], queue[n])
    BY <1>1, CommandsFold
  <1>3. ASSUME NEW n \in 1 .. Len(queue), Memory(f[n - 1]), OfProgram(P, f[n - 1])
        PROVE  Same(P, f[n - 1], f[n])
    <2>1. queue[n] \in Queueable
      BY <1>1
    <2>2. f[n] = ApplyCommand(f[n - 1], queue[n])
      BY <1>2
    <2> QED BY <1>3, <2>1, <2>2, ApplyCommandKeeps
  <1> QED BY <1>1, <1>2, <1>3, FoldSame

\* A run that a restart goes on with.
LEMMA ApplyResumeKeeps ==
  ASSUME NEW s, Memory(s), OfProgram(P, s), NEW x
  PROVE  Same(P, s, ApplyResume(s, x))
  <1> DEFINE t == SetCopies(s, P.plots[x.plot], TRUE)
             u == [t EXCEPT !.runs = With(t.runs, x.plot, x.end)]
  <1>1. Same(P, s, s)
    BY DEF Same, Keeps
  <1>2. ApplyResume(s, x) = IF x.plot \in DOMAIN P.plots THEN u ELSE s
    BY DEF ApplyResume
  <1>3. Memory(t) /\ Alike(s, t)
    BY CopiesSet
  <1>4. DOMAIN With(t.runs, x.plot, x.end) = {x.plot} \cup DOMAIN t.runs
    BY DEF With
  <1> HIDE DEF t
  <1>5. ASSUME x.plot \in DOMAIN P.plots
        PROVE  Same(P, s, u)
    BY <1>3, <1>4, <1>5, Fields DEF Same, Keeps, Memory, OfProgram, Alike
  <1> QED BY <1>1, <1>2, <1>5

\* A restart goes on with the runs.
LEMMA ResumeAllKeeps ==
  ASSUME NEW s, Memory(s), OfProgram(P, s), NEW q, Len(q) \in Nat
  PROVE  Same(P, s, ResumeAll(s, q))
  <1>1. Len(q) \in Nat
    OBVIOUS
  <1>2. PICK f : /\ f[0] = s /\ f[Len(q)] = ResumeAll(s, q)
                 /\ \A n \in 1 .. Len(q) : f[n] = ApplyResume(f[n - 1], q[n])
    BY <1>1, ResumesFold
  <1>3. ASSUME NEW n \in 1 .. Len(q), Memory(f[n - 1]), OfProgram(P, f[n - 1])
        PROVE  Same(P, f[n - 1], f[n])
    BY <1>2, <1>3, ApplyResumeKeeps
  <1> QED BY <1>1, <1>2, <1>3, FoldSame

\* Before the first step.
LEMMA SampledKeeps ==
  ASSUME NEW s, Memory(s), OfProgram(P, s)
  PROVE  LET t == Sampled(s)
         IN  /\ Keeps(P, s, t) /\ t.scheds = s.scheds /\ t.orphans = s.orphans /\ t.due = s.due
             /\ t.booted = s.booted /\ t.told = <<>>
  <1>1. <<>> \in Seq(Tellings)
    OBVIOUS
  <1> QED BY <1>1, Fields DEF Sampled, Same, Keeps, Memory, OfProgram

\* The runs that a restart goes on with.
LEMMA ApplyResumesKeeps ==
  ASSUME NEW s, Memory(s), OfProgram(P, s)
  PROVE  Same(P, s, ApplyResumes(s))
  <1> DEFINE t == [s EXCEPT !.resumes = <<>>]
  <1>1. <<>> \in Seq(Resumes) /\ Len(s.resumes) \in Nat
    BY DEF Memory
  <1>2. Same(P, s, t)
    BY <1>1, Fields DEF Same, Keeps, Memory, OfProgram
  <1>3. ApplyResumes(s) = ResumeAll(t, s.resumes)
    BY DEF ApplyResumes
  <1> HIDE DEF t
  <1>4. Same(P, t, ResumeAll(t, s.resumes))
    BY <1>1, <1>2, ResumeAllKeeps DEF Same, Keeps
  <1> QED BY <1>2, <1>3, <1>4, SameTogether

\* The NAB reads its copies.
LEMMA NabReadsKeeps ==
  ASSUME NEW s, Memory(s), OfProgram(P, s)
  PROVE  Same(P, s, NabReads(s))
  BY Fields DEF NabReads, Same, Keeps, Memory, OfProgram

\* The NAB writes what it set.
LEMMA NabWritesKeeps ==
  ASSUME NEW s, Memory(s), OfProgram(P, s)
  PROVE  Same(P, s, NabWrites(s))
  BY Fields DEF NabWrites, Same, Keeps, Memory, OfProgram

\* The elements of a finite set, in a sequence.
LEMMA SetToSeqType ==
  ASSUME NEW S, IsFiniteSet(S)
  PROVE  SetToSeq(S) \in Seq(S)
  <1>1. PICK n \in Nat : ExistsBijection(1 .. n, S)
    BY FS_NatBijection
  <1>2. PICK g : g \in Bijection(1 .. n, S)
    BY <1>1 DEF ExistsBijection
  <1>3. Cardinality(S) = n
    BY <1>1, FS_CountingElements
  <1>4. g \in [1 .. n -> S] /\ \A a, b \in 1 .. n : g[a] = g[b] => a = b
    BY <1>2 DEF Bijection, Injection, IsInjective
  <1>5. \E f \in [1 .. Cardinality(S) -> S] : IsInjective(f)
    BY <1>3, <1>4 DEF IsInjective
  <1>6. SetToSeq(S) \in [1 .. n -> S]
    BY <1>3, <1>5 DEF SetToSeq
  <1> QED BY <1>6

\* Runs that are over end.
LEMMA ExpireRunsKeeps ==
  ASSUME NEW s, Memory(s), OfProgram(P, s), prog \in DOMAIN Program
  PROVE  Same(P, s, ExpireRuns(s))
  <1> DEFINE over == {q \in DOMAIN s.runs : s.runs[q] # Never /\ now >= s.runs[q]}
  <1>1. IsFiniteSet(over)
    <2>1. IsFiniteSet(DOMAIN P.plots) /\ over \subseteq DOMAIN P.plots
      BY ProgramFacts DEF IsProgram, OfProgram
    <2> HIDE DEF over
    <2> QED BY <2>1, FS_Subset
  <1>2. ExpireRuns(s) = StopPlots(s, SetToSeq(over))
    BY DEF ExpireRuns
  <1> HIDE DEF over
  <1>3. Len(SetToSeq(over)) \in Nat
    BY <1>1, SetToSeqType
  <1> QED BY <1>2, <1>3, StopPlotsKeeps

\* The boot pass.
LEMMA BootPassKeeps ==
  ASSUME NEW s, Memory(s), OfProgram(P, s), prog \in DOMAIN Program
  PROVE  Same(P, s, BootPass(s))
  <1> DEFINE a == EvalCards(s)
             b == NabReads(a)
             c == EvalNab(b, {"boot"})
             d == NabWrites(c)
             e == [d EXCEPT !.booted = TRUE]
  <1>1. BootPass(s) = e
    BY DEF BootPass
  <1>2. Same(P, s, a)
    BY EvalCardsKeeps
  <1> HIDE DEF a
  <1>3. Same(P, a, b)
    BY <1>2, NabReadsKeeps DEF Same, Keeps
  <1> HIDE DEF b
  <1>4. Same(P, b, c)
    BY <1>3, EvalNabKeeps DEF Same, Keeps
  <1> HIDE DEF c
  <1>5. Same(P, c, d)
    BY <1>4, NabWritesKeeps DEF Same, Keeps
  <1> HIDE DEF d
  <1>6. Same(P, d, e)
    BY <1>5, Fields DEF Same, Keeps, Memory, OfProgram
  <1> HIDE DEF e
  <1>7. Same(P, s, c)
    BY <1>2, <1>3, <1>4, SameTogether
  <1> QED BY <1>1, <1>5, <1>6, <1>7, SameTogether

\* Every pass after it.
LEMMA FullPassKeeps ==
  ASSUME NEW s, Memory(s), OfProgram(P, s), prog \in DOMAIN Program, now \in Nat, queue \in Seq(Queueable)
  PROVE  Keeps(P, s, FullPass(s))
  <1> DEFINE a == ApplyCommands(s)
             b == ApplyResumes(a)
             c == EvalCards(b)
             d == NabReads(c)
             e == RunSchedules(d)
             f == EvalNab(e, {})
             g == ExpireRuns(f)
             h == NabWrites(g)
  <1>1. FullPass(s) = h
    BY DEF FullPass
  <1>2. Keeps(P, s, a)
    BY ApplyCommandsKeeps DEF Same
  <1> HIDE DEF a
  <1>3. Keeps(P, a, b)
    BY <1>2, ApplyResumesKeeps DEF Same, Keeps
  <1> HIDE DEF b
  <1>4. Keeps(P, b, c)
    BY <1>3, EvalCardsKeeps DEF Same, Keeps
  <1> HIDE DEF c
  <1>5. Keeps(P, c, d)
    BY <1>4, NabReadsKeeps DEF Same, Keeps
  <1> HIDE DEF d
  <1>6. Keeps(P, d, e)
    BY <1>5, RunSchedulesKeeps DEF Same, Keeps
  <1> HIDE DEF e
  <1>7. Keeps(P, e, f)
    BY <1>6, EvalNabKeeps DEF Same, Keeps
  <1> HIDE DEF f
  <1>8. Keeps(P, f, g)
    BY <1>7, ExpireRunsKeeps DEF Same, Keeps
  <1> HIDE DEF g
  <1>9. Keeps(P, g, h)
    BY <1>8, NabWritesKeeps DEF Same, Keeps
  <1> HIDE DEF h
  <1>10. Keeps(P, s, d)
    BY <1>2, <1>3, <1>4, <1>5, KeepsTogether
  <1>11. Keeps(P, s, g)
    BY <1>6, <1>7, <1>8, <1>10, KeepsTogether
  <1> QED BY <1>1, <1>9, <1>11, KeepsTogether

\* A pass, up to what it writes.
LEMMA EvaluatedKeeps ==
  ASSUME NEW s, Memory(s), OfProgram(P, s), prog \in DOMAIN Program, now \in Nat, queue \in Seq(Queueable)
  PROVE  Keeps(P, s, Evaluated(s))
  <1>1. Keeps(P, s, Sampled(s))
    BY SampledKeeps
  <1>2. Keeps(P, Sampled(s), BootPass(Sampled(s))) /\ Keeps(P, Sampled(s), FullPass(Sampled(s)))
    BY <1>1, BootPassKeeps, FullPassKeeps DEF Same, Keeps
  <1>3. Keeps(P, s, BootPass(Sampled(s))) /\ Keeps(P, s, FullPass(Sampled(s)))
    BY <1>1, <1>2, KeepsTogether
  <1> QED BY <1>3 DEF Evaluated

-----------------------------------------------------------------------------
(* Take-overs.  The memory stays typed throughout, and nothing but the     *)
(* plan at the end touches what was written and what is to be let go.      *)

\* The same runs, and the same of the lines.
Holds(s, t) == Memory(t) /\ t.runs = s.runs /\ t.written = s.written /\ t.releases = s.releases

\* What each step of a fold holds, the fold holds.
LEMMA FoldHolds ==
  ASSUME NEW N \in Nat, NEW f, Memory(f[0]), \A n \in 1 .. N : Memory(f[n - 1]) => Holds(f[n - 1], f[n])
  PROVE  Holds(f[0], f[N])
  <1> DEFINE T == {n \in 0 .. N : Holds(f[0], f[n])}
  <1>1. 0 \in T
    BY DEF Holds
  <1>2. ASSUME NEW n \in 0 .. N, n < N, n \in T
        PROVE  n + 1 \in T
    <2>1. n + 1 \in 1 .. N /\ (n + 1) - 1 = n
      BY <1>2
    <2>2. Holds(f[0], f[n])
      BY <1>2
    <2>3. Holds(f[n], f[n + 1])
      BY <2>1, <2>2 DEF Holds
    <2>4. Holds(f[0], f[n + 1])
      BY <2>2, <2>3 DEF Holds
    <2> QED BY <2>1, <2>4
  <1> QED BY <1>1, <1>2, Induct

\* The values and the rules are carried over.
LEMMA CarryHolds ==
  ASSUME NEW s, Memory(s), NEW old, NEW new
  PROVE  Holds(s, CarryRules(CarryValues(s, old, new), old, new))
  <1> DEFINE t == CarryValues(s, old, new)
  <1>1. Holds(s, t)
    BY Fields DEF CarryValues, Memory, Holds
  <1> HIDE DEF t
  <1>2. RuleMemory(RuleFresh)
    BY DEF RuleMemory, RuleFresh
  <1>3. Holds(t, CarryRules(t, old, new))
    BY <1>1, <1>2, Fields DEF CarryRules, Memory, Holds
  <1> QED BY <1>1, <1>3 DEF Holds, t

\* Who waits for an end.
LEMMA OrphanType ==
  ASSUME NEW i \in Sids, NEW m \in Memories, m.end # Never, NEW q \in Seq(StableActions), NEW announce \in BOOLEAN
  PROVE  OrphanOf(i, m, q, announce) \in Orphans
  BY DEF OrphanOf, Orphans, Memories

\* What a program's schedule of an id is.
LEMMA ScheduleOfType ==
  ASSUME NEW p, NEW i \in Ids(p)
  PROVE  ScheduleOf(p, i) \in SeqRange(p.schedules)
  BY DEF ScheduleOf, Ids

\* More ends wait.
LEMMA OrphansHold ==
  ASSUME NEW s, Memory(s), NEW q \in Seq(Orphans)
  PROVE  Holds(s, [s EXCEPT !.orphans = q])
  BY Fields DEF Memory, Holds

\* A schedule of the new program.
LEMMA CarryScheduleHolds ==
  ASSUME NEW s, Memory(s), NEW old, IsProgram(old), DOMAIN old.plots \subseteq Plots,
         NEW new, IsProgram(new), DOMAIN new.plots \subseteq Plots, NEW d \in SeqRange(new.schedules)
  PROVE  Holds(s, CarrySchedule(s, d, old, new))
  <1> DEFINE m == s.scheds[d.id]
             putBack == {o \in SeqRange(s.orphans) : o.id = d.id /\ o.announce}
             back == Selected(s.orphans, putBack)
             end == StableEnd(old, ScheduleOf(old, d.id))
             orphan == OrphanOf(d.id, m, end, FALSE)
             moved == Append(s.orphans, orphan)
             t == [s EXCEPT !.orphans = moved]
             o == back[1]
             rest == Selected(s.orphans, SeqRange(s.orphans) \ putBack)
             mark == [ran |-> o.ran, missed |-> Never, end |-> o.end, endWall |-> o.endWall]
             others == IF o.actions = StableEnd(new, d) THEN rest ELSE Append(rest, [o EXCEPT !.announce = FALSE])
             u == [s EXCEPT !.scheds[d.id] = mark, !.orphans = others]
  <1>1. d.id \in Sids
    BY ScheduleFacts
  <1>2. CarrySchedule(s, d, old, new) =
          IF d.id \in Ids(old) THEN IF m.end = Never \/ end = StableEnd(new, d) THEN s ELSE t
          ELSE IF back = <<>> THEN s ELSE u
    BY DEF CarrySchedule
  <1>3. Holds(s, s)
    BY DEF Holds
  <1>4. ASSUME d.id \in Ids(old), m.end # Never
        PROVE  Holds(s, t)
    <2>1. m \in Memories /\ s.orphans \in Seq(Orphans)
      BY <1>1 DEF Memory
    <2> HIDE DEF m
    <2>2. end \in Seq(StableActions)
      BY <1>4, ScheduleOfType, StableEndType
    <2> HIDE DEF end
    <2>3. orphan \in Orphans
      BY <1>1, <1>4, <2>1, <2>2, OrphanType
    <2> HIDE DEF orphan
    <2>4. moved \in Seq(Orphans)
      BY <2>1, <2>3
    <2> HIDE DEF moved
    <2> QED BY <2>4, OrphansHold
  <1>5. ASSUME back # <<>>
        PROVE  Holds(s, u)
    <2>1. s.orphans \in Seq(Orphans) /\ Len(s.orphans) \in Nat
      BY DEF Memory
    <2>2. SeqRange(s.orphans) \subseteq Orphans
      BY <2>1 DEF SeqRange
    <2>3. putBack \subseteq Orphans /\ SeqRange(s.orphans) \ putBack \subseteq Orphans
      BY <2>2
    <2> HIDE DEF putBack
    <2>4. back \in Seq(putBack) /\ rest \in Seq(SeqRange(s.orphans) \ putBack)
      BY <2>1, SelectedType
    <2>5. back \in Seq(Orphans) /\ rest \in Seq(Orphans)
      BY <2>3, <2>4
    <2> HIDE DEF back, rest
    <2>6. o \in Orphans
      BY <1>5, <2>5
    <2> HIDE DEF o
    <2>7. mark \in Memories
      BY <2>6 DEF Orphans, Memories
    <2>8. [o EXCEPT !.announce = FALSE] \in Orphans
      BY <2>6 DEF Orphans
    <2>9. others \in Seq(Orphans)
      BY <2>5, <2>8
    <2> HIDE DEF others, mark
    <2> QED BY <1>1, <2>7, <2>9, Fields DEF Memory, Holds
  <1> HIDE DEF t, u, m, end, back
  <1> QED BY <1>2, <1>3, <1>4, <1>5

\* A schedule that is taken out.
LEMMA LeaveScheduleHolds ==
  ASSUME NEW s, Memory(s), NEW old, IsProgram(old), DOMAIN old.plots \subseteq Plots,
         NEW d \in SeqRange(old.schedules)
  PROVE  Holds(s, LeaveSchedule(s, d, old))
  <1> DEFINE m == s.scheds[d.id]
             end == StableEnd(old, d)
             orphan == OrphanOf(d.id, m, end, TRUE)
             more == IF m.end = Never THEN s.orphans ELSE Append(s.orphans, orphan)
  <1>1. LeaveSchedule(s, d, old) = [s EXCEPT !.orphans = more]
    BY Fields DEF LeaveSchedule, Memory
  <1>2. d.id \in Sids
    BY ScheduleFacts
  <1>3. m \in Memories /\ s.orphans \in Seq(Orphans)
    BY <1>2 DEF Memory
  <1> HIDE DEF m
  <1>4. end \in Seq(StableActions)
    BY StableEndType
  <1> HIDE DEF end
  <1>5. m.end # Never => orphan \in Orphans
    BY <1>2, <1>3, <1>4, OrphanType
  <1> HIDE DEF orphan
  <1>6. more \in Seq(Orphans)
    BY <1>3, <1>5
  <1> HIDE DEF more
  <1> QED BY <1>1, <1>6, OrphansHold

\* The schedules of the new program.
LEMMA KeepSchedulesHolds ==
  ASSUME NEW s, Memory(s), NEW old, IsProgram(old), DOMAIN old.plots \subseteq Plots,
         NEW new, IsProgram(new), DOMAIN new.plots \subseteq Plots
  PROVE  Holds(s, KeepSchedules(s, old, new))
  <1>1. Len(new.schedules) \in Nat
    BY DEF IsProgram
  <1>2. PICK f : /\ f[0] = s /\ f[Len(new.schedules)] = KeepSchedules(s, old, new)
                 /\ \A n \in 1 .. Len(new.schedules) : f[n] = CarrySchedule(f[n - 1], new.schedules[n], old, new)
    BY <1>1, KeepSchedulesFold
  <1>3. ASSUME NEW n \in 1 .. Len(new.schedules), Memory(f[n - 1])
        PROVE  Holds(f[n - 1], f[n])
    <2>1. new.schedules[n] \in SeqRange(new.schedules)
      BY DEF IsProgram, SeqRange
    <2> QED BY <1>2, <1>3, <2>1, CarryScheduleHolds
  <1> QED BY <1>1, <1>2, <1>3, FoldHolds

\* The schedules that are taken out.
LEMMA LeaveSchedulesHolds ==
  ASSUME NEW s, Memory(s), NEW old, IsProgram(old), DOMAIN old.plots \subseteq Plots,
         NEW q, Len(q) \in Nat, \A n \in 1 .. Len(q) : q[n] \in SeqRange(old.schedules)
  PROVE  Holds(s, LeaveSchedules(s, q, old))
  <1>1. Len(q) \in Nat
    OBVIOUS
  <1>2. PICK r : r = LeaveSchedules(s, q, old)
    OBVIOUS
  <1>3. PICK f : /\ f[0] = s /\ f[Len(q)] = r
                 /\ \A n \in 1 .. Len(q) : f[n] = LeaveSchedule(f[n - 1], q[n], old)
    BY <1>1, <1>2, LeaveSchedulesFold
  <1>4. ASSUME NEW n \in 1 .. Len(q), Memory(f[n - 1])
        PROVE  Holds(f[n - 1], f[n])
    BY <1>3, <1>4, LeaveScheduleHolds
  <1> QED BY <1>1, <1>2, <1>3, <1>4, FoldHolds

\* The schedules after a take-over: those that are not in the new program remember nothing.
LEMMA CarrySchedulesHolds ==
  ASSUME NEW s, Memory(s), NEW old, IsProgram(old), DOMAIN old.plots \subseteq Plots,
         NEW new, IsProgram(new), DOMAIN new.plots \subseteq Plots
  PROVE  /\ Holds(s, CarrySchedules(s, old, new))
         /\ \A i \in Sids \ Ids(new) : CarrySchedules(s, old, new).scheds[i] = NoMemory
  <1> DEFINE gone == {d \in SeqRange(old.schedules) : d.id \notin Ids(new)}
             q == Selected(old.schedules, gone)
             kept == KeepSchedules(s, old, new)
             left == LeaveSchedules(kept, q, old)
             marks == [i \in Sids |-> IF i \in Ids(new) THEN left.scheds[i] ELSE NoMemory]
             t == [left EXCEPT !.scheds = marks]
  <1>1. CarrySchedules(s, old, new) = t
    BY DEF CarrySchedules
  <1>2. Holds(s, kept)
    BY KeepSchedulesHolds
  <1> HIDE DEF kept
  <1>3. q \in Seq(SeqRange(old.schedules))
    <2>1. Len(old.schedules) \in Nat
      BY DEF IsProgram
    <2>2. q \in Seq(gone) /\ gone \subseteq SeqRange(old.schedules)
      BY <2>1, SelectedType
    <2> HIDE DEF q, gone
    <2> QED BY <2>2
  <1> HIDE DEF q
  <1>4. Holds(kept, left)
    <2>1. Len(q) \in Nat /\ \A n \in 1 .. Len(q) : q[n] \in SeqRange(old.schedules)
      BY <1>3
    <2> QED BY <1>2, <2>1, LeaveSchedulesHolds DEF Holds
  <1> HIDE DEF left
  <1>5. NoMemory \in Memories
    BY DEF NoMemory, Memories
  <1>6. marks \in [Sids -> Memories] /\ \A i \in Sids \ Ids(new) : marks[i] = NoMemory
    BY <1>4, <1>5 DEF Holds, Memory
  <1> HIDE DEF marks
  <1>7. Holds(left, t) /\ t.scheds = marks
    BY <1>4, <1>6, Fields DEF Holds, Memory
  <1> QED BY <1>1, <1>2, <1>4, <1>6, <1>7 DEF Holds

\* The runs of the plots that are taken out.
LEMMA EndRunsKeeps ==
  ASSUME NEW old, NEW new, NEW s, Memory(s), OfProgram(new, s), NEW q, Len(q) \in Nat
  PROVE  Same(new, s, EndRuns(s, q, old, new))
  <1>0. PICK f : RunByRun(f, s, q, old, new)
    BY EndRunsFold
  <1>1. /\ f[0] = s /\ f[Len(q)] = EndRuns(s, q, old, new)
        /\ \A n \in 1 .. Len(q) : f[n] = EndRemovedRun(f[n - 1], q[n], old, new)
    BY <1>0 DEF RunByRun
  <1>2. ASSUME NEW r, Memory(r), OfProgram(new, r), NEW o
        PROVE  Same(new, r, EndRemovedRun(r, o, old, new))
    <2> DEFINE held == UNION {new.plots[x] : x \in DOMAIN r.runs \cap DOMAIN new.plots}
               valves == old.plots[o] \ held
               others == UNION {new.plots[x] : x \in DOMAIN new.plots} \ valves
               pump == IF old.pump = NoCard \/ \E c \in others : r.level[c] THEN {} ELSE {old.pump}
    <2>1. EndRemovedRun(r, o, old, new) = SetTargets(r, new, pump \cup valves, FALSE)
      BY DEF EndRemovedRun
    <2> HIDE DEF pump, valves
    <2> QED BY <1>2, <2>1, TargetsSet, AlikeKeeps
  <1>3. ASSUME NEW n \in 1 .. Len(q), Memory(f[n - 1]), OfProgram(new, f[n - 1])
        PROVE  Same(new, f[n - 1], f[n])
    BY <1>1, <1>2, <1>3
  <1> QED BY <1>1, <1>3, FoldSame

\* All of them.
LEMMA EndRemovedRunsKeeps ==
  ASSUME NEW s, Memory(s), NEW old, IsProgram(old), DOMAIN s.runs \subseteq DOMAIN old.plots,
         NEW new, \A i \in Sids \ Ids(new) : s.scheds[i] = NoMemory
  PROVE  Same(new, s, EndRemovedRuns(s, old, new))
  <1> DEFINE removed == DOMAIN s.runs \ DOMAIN new.plots
             t == WithoutRuns(s, removed)
             q == SetToSeq(removed)
  <1>1. EndRemovedRuns(s, old, new) = EndRuns(t, q, old, new)
    BY DEF EndRemovedRuns
  <1>2. Len(q) \in Nat
    <2>1. IsFiniteSet(DOMAIN old.plots) /\ removed \subseteq DOMAIN old.plots
      BY DEF IsProgram
    <2>2. IsFiniteSet(removed)
      BY <2>1, FS_Subset
    <2> HIDE DEF removed
    <2> QED BY <2>2, SetToSeqType
  <1> HIDE DEF q
  <1>3. Same(new, s, t)
    <2>1. DOMAIN [x \in DOMAIN s.runs \ removed |-> s.runs[x]] = DOMAIN s.runs \ removed
      OBVIOUS
    <2>2. t = [s EXCEPT !.runs = [x \in DOMAIN s.runs \ removed |-> s.runs[x]]]
      BY DEF WithoutRuns
    <2>3. DOMAIN s.runs \ removed \subseteq DOMAIN new.plots
      OBVIOUS
    <2> HIDE DEF t, removed
    <2> QED BY <2>1, <2>2, <2>3, Fields DEF Same, Keeps, Memory, OfProgram
  <1> HIDE DEF t
  <1>4. Same(new, t, EndRuns(t, q, old, new))
    BY <1>2, <1>3, EndRunsKeeps DEF Same, Keeps
  <1> QED BY <1>1, <1>3, <1>4, SameTogether

\* A take-over: what the runtime remembers is of the new program, and what becomes of the lines was planned.
LEMMA TakeOverTypes ==
  ASSUME NEW s, Memory(s), NEW old, IsProgram(old), DOMAIN old.plots \subseteq Plots, OfProgram(old, s),
         NEW new, IsProgram(new), DOMAIN new.plots \subseteq Plots
  PROVE  /\ Memory(TakeOver(s, old, new)) /\ OfProgram(new, TakeOver(s, old, new))
         /\ \E t : /\ t.written = s.written /\ t.releases = s.releases
                   /\ {"written", "releases"} \subseteq DOMAIN t
                   /\ TakeOver(s, old, new).written = PlanReleases(t, old, new).written
                   /\ TakeOver(s, old, new).releases = PlanReleases(t, old, new).releases
  <1> DEFINE a == CarryRules(CarryValues(s, old, new), old, new)
             b == CarrySchedules(a, old, new)
             c == EndRemovedRuns(b, old, new)
             d == PlanReleases(c, old, new)
             e == [d EXCEPT !.due = TRUE, !.told = <<>>]
  <1>1. TakeOver(s, old, new) = e
    BY DEF TakeOver
  <1>2. Holds(s, a)
    BY CarryHolds
  <1> HIDE DEF a
  <1>3. Holds(a, b) /\ \A i \in Sids \ Ids(new) : b.scheds[i] = NoMemory
    BY <1>2, CarrySchedulesHolds DEF Holds
  <1> HIDE DEF b
  <1>4. Memory(b) /\ DOMAIN b.runs \subseteq DOMAIN old.plots
    BY <1>2, <1>3 DEF Holds, OfProgram
  <1>5. Keeps(new, b, c)
    BY <1>3, <1>4, EndRemovedRunsKeeps DEF Same
  <1> HIDE DEF c
  <1>6. c.written = s.written /\ c.releases = s.releases
    BY <1>2, <1>3, <1>5 DEF Holds, Same, Keeps
  <1>7. {"written", "releases"} \subseteq DOMAIN c
    BY <1>5, Fields DEF Same, Keeps, Memory
  <1>8. Memory(d) /\ OfProgram(new, d)
    BY <1>5, Fields DEF PlanReleases, Same, Keeps, Memory, OfProgram
  <1> HIDE DEF d
  <1>9. Memory(e) /\ OfProgram(new, e) /\ e.written = d.written /\ e.releases = d.releases
    <2>1. <<>> \in Seq(Tellings)
      OBVIOUS
    <2> QED BY <1>8, <2>1, Fields DEF Memory, OfProgram
  <1> HIDE DEF e
  <1> QED BY <1>1, <1>6, <1>7, <1>9 DEF d

-----------------------------------------------------------------------------
(* A start on a record. *)

\* What a start takes from a record for a schedule.
LEMMA MemoryOfType ==
  ASSUME NEW rec, Record(rec), NEW ok, now \in Nat, NEW i \in Sids
  PROVE  MemoryOf(rec, ok, i) \in Memories /\ (i \notin Ids(P) => MemoryOf(rec, ok, i) = NoMemory)
  <1> DEFINE m == rec.scheds[i]
  <1>1. m \in Memories /\ NoMemory \in Memories
    BY DEF Record, NoMemory, Memories
  <1>2. CASE i \notin Ids(P)
    BY <1>1, <1>2 DEF MemoryOf
  <1>3. CASE i \in Ids(P) /\ (CutShort(rec, ok, i) \/ m.endWall = Never)
    <2>1. MemoryOf(rec, ok, i) = [m EXCEPT !.endWall = Never]
      BY <1>3 DEF MemoryOf
    <2> HIDE DEF m
    <2> QED BY <1>1, <1>3, <2>1 DEF Memories
  <1>4. CASE i \in Ids(P) /\ ~CutShort(rec, ok, i) /\ m.endWall # Never
    <2>1. MemoryOf(rec, ok, i) = [m EXCEPT !.end = now + m.endWall - WallOf(ok)]
      BY <1>4 DEF MemoryOf
    <2>2. WallOf(ok) < m.endWall
      BY <1>4 DEF CutShort
    <2> HIDE DEF m
    <2>3. m.endWall \in Nat
      BY <1>1, <1>4 DEF Memories
    <2>4. now + m.endWall - WallOf(ok) \in Nat
      BY <2>2, <2>3, ClockFacts
    <2> QED BY <1>1, <1>4, <2>1, <2>4 DEF Memories
  <1> QED BY <1>2, <1>3, <1>4

\* A schedule's run of the record.
LEMMA LoadRunKeeps ==
  ASSUME NEW s, Memory(s), OfProgram(P, s), prog \in DOMAIN Program, NEW rec, NEW ok, NEW d \in SeqRange(P.schedules)
  PROVE  Keeps(P, s, LoadRun(rec, ok, s, d))
  <1> DEFINE x == [plot |-> d.plot, end |-> s.scheds[d.id].end]
             more == Append(s.resumes, x)
             t == [s EXCEPT !.resumes = more]
  <1>1. d.id \in Sids /\ d.plot \in DOMAIN P.plots \cup {NoPlot} /\ DOMAIN P.plots \subseteq Plots
    BY ProgramFacts, ScheduleFacts
  <1>2. LoadRun(rec, ok, s, d) = IF CutShort(rec, ok, d.id) THEN Tell(s, "cut", d.id)
                                 ELSE IF s.scheds[d.id].end = Never \/ d.plot = NoPlot THEN s ELSE t
    BY DEF LoadRun
  <1>3. Keeps(P, s, s) /\ Keeps(P, s, Tell(s, "cut", d.id))
    BY <1>1, TellKeeps DEF Keeps
  <1>4. ASSUME d.plot # NoPlot
        PROVE  Keeps(P, s, t)
    <2>1. s.scheds[d.id].end \in Nat \cup {Never}
      BY <1>1 DEF Memory, Memories
    <2>2. x \in Resumes
      BY <1>1, <1>4, <2>1 DEF Resumes
    <2> HIDE DEF x
    <2>3. more \in Seq(Resumes)
      BY <2>2 DEF Memory
    <2> HIDE DEF more
    <2> QED BY <2>3, Fields DEF Same, Keeps, Memory, OfProgram
  <1> HIDE DEF t
  <1> QED BY <1>2, <1>3, <1>4

\* The schedules' runs of the record.
LEMMA LoadRunsKeep ==
  ASSUME NEW s, Memory(s), OfProgram(P, s), prog \in DOMAIN Program, NEW rec, NEW ok
  PROVE  Keeps(P, s, LoadRuns(rec, ok, s))
  <1>1. Len(P.schedules) \in Nat
    BY ProgramFacts DEF IsProgram
  <1>2. PICK f : /\ f[0] = s /\ f[Len(P.schedules)] = LoadRuns(rec, ok, s)
                 /\ \A n \in 1 .. Len(P.schedules) : f[n] = LoadRun(rec, ok, f[n - 1], P.schedules[n])
    BY <1>1, LoadRunsFold
  <1>3. ASSUME NEW n \in 1 .. Len(P.schedules), Memory(f[n - 1]), OfProgram(P, f[n - 1])
        PROVE  Keeps(P, f[n - 1], f[n])
    <2>1. P.schedules[n] \in SeqRange(P.schedules)
      BY <1>1, ProgramFacts DEF IsProgram, SeqRange
    <2> QED BY <1>2, <1>3, <2>1, LoadRunKeeps
  <1> QED BY <1>1, <1>2, <1>3, FoldKeeps

\* A runtime that has just been made.
LEMMA FreshFacts ==
  /\ Memory(Fresh) /\ \A p : OfProgram(p, Fresh)
  /\ Fresh.written = [c \in Cards |-> "none"] /\ Fresh.releases = {}
  <1>1. NoMemory \in Memories /\ RuleMemory(RuleFresh)
    BY DEF NoMemory, Memories, RuleMemory, RuleFresh
  <1>2. <<>> \in Seq(Orphans) /\ <<>> \in Seq(Resumes) /\ <<>> \in Seq(Tellings)
    OBVIOUS
  <1>3. DOMAIN <<>> = {}
    OBVIOUS
  <1> QED BY <1>1, <1>2, <1>3, Fields DEF Memory, OfProgram, Fresh, AllOff

\* A start.
LEMMA ColdLoadTypes ==
  ASSUME NEW rec, Record(rec), NEW ok, now \in Nat, prog \in DOMAIN Program
  PROVE  /\ Memory(ColdLoad(rec, ok)) /\ OfProgram(P, ColdLoad(rec, ok))
         /\ ColdLoad(rec, ok).written = Fresh.written /\ ColdLoad(rec, ok).releases = {}
  <1> DEFINE marks == [i \in Sids |-> MemoryOf(rec, ok, i)]
             s == [Fresh EXCEPT !.scheds = marks, !.due = TRUE]
  <1>1. ColdLoad(rec, ok) = LoadRuns(rec, ok, s)
    BY DEF ColdLoad
  <1>2. marks \in [Sids -> Memories] /\ \A i \in Sids \ Ids(P) : marks[i] = NoMemory
    BY MemoryOfType
  <1> HIDE DEF marks
  <1>3. Memory(s) /\ OfProgram(P, s) /\ s.written = Fresh.written /\ s.releases = {}
    BY <1>2, FreshFacts, Fields DEF Memory, OfProgram
  <1> HIDE DEF s
  <1>4. Keeps(P, s, LoadRuns(rec, ok, s))
    BY <1>3, LoadRunsKeep
  <1> QED BY <1>1, <1>3, <1>4 DEF Same, Keeps

-----------------------------------------------------------------------------
(* The history of what was told. *)

\* The same of the lines.
SameSeen(h, k) == DOMAIN k = DOMAIN NotSeen /\ k.lost = h.lost /\ k.reloaded = h.reloaded

\* The fields of the history.
LEMMA SeenFields ==
  DOMAIN NotSeen = {"open", "begun", "fresh", "amiss", "byHand", "leaving", "lost", "reloaded", "late", "stale"}
  BY DEF NotSeen

\* One telling.
LEMMA HeardSame ==
  ASSUME NEW h, DOMAIN h = DOMAIN NotSeen, NEW t \in Tellings
  PROVE  SameSeen(h, Heard(h, t))
  <1>1. CASE t[1] = "started"
    <2> DEFINE i == t[2]
               again == h.open[i] # Never \/ <<i, Today>> \in h.begun
               open == [h.open EXCEPT ![i] = rt'.scheds[i].end]
               begun == h.begun \cup {<<i, Today>>}
               amiss == h.amiss \/ again
    <2>1. Heard(h, t) = [h EXCEPT !.open[i] = rt'.scheds[i].end, !.begun = begun, !.amiss = amiss]
      BY <1>1 DEF Heard
    <2> HIDE DEF begun, amiss
    <2> QED BY <2>1, SeenFields DEF SameSeen
  <1>2. CASE t[1] = "ended"
    <2> DEFINE i == t[2]
               amiss == h.amiss \/ h.open[i] = Never \/ now < h.open[i]
    <2>1. Heard(h, t) = [h EXCEPT !.open[i] = Never, !.amiss = amiss]
      BY <1>2 DEF Heard
    <2> HIDE DEF amiss
    <2> QED BY <2>1, SeenFields DEF SameSeen
  <1>3. CASE t[1] = "cut"
    <2> DEFINE i == t[2]
               amiss == h.amiss \/ h.open[i] = Never
    <2>1. Heard(h, t) = [h EXCEPT !.open[i] = Never, !.amiss = amiss]
      BY <1>3 DEF Heard
    <2> HIDE DEF amiss
    <2> QED BY <2>1, SeenFields DEF SameSeen
  <1>4. t[1] \in {"started", "ended", "cut"}
    BY DEF Tellings
  <1> QED BY <1>1, <1>2, <1>3, <1>4

\* All that a pass or a start tells.
LEMMA TellsSame ==
  ASSUME NEW h, DOMAIN h = DOMAIN NotSeen, rt'.told \in Seq(Tellings)
  PROVE  SameSeen(h, Tells(h))
  <1>1. Len(rt'.told) \in Nat
    OBVIOUS
  <1>2. PICK f : /\ f[0] = h /\ f[Len(rt'.told)] = Tells(h)
                 /\ \A n \in 1 .. Len(rt'.told) : f[n] = Heard(f[n - 1], rt'.told[n])
    BY <1>1, TellsFold
  <1> DEFINE N == Len(rt'.told)
             T == {n \in 0 .. N : SameSeen(h, f[n])}
  <1>3. 0 \in T
    BY <1>1, <1>2 DEF SameSeen
  <1>4. ASSUME NEW n \in 0 .. N, n < N, n \in T
        PROVE  n + 1 \in T
    <2>1. n + 1 \in 1 .. N /\ (n + 1) - 1 = n
      BY <1>1, <1>4
    <2>2. SameSeen(h, f[n])
      BY <1>4
    <2>3. f[n + 1] = Heard(f[n], rt'.told[n + 1]) /\ rt'.told[n + 1] \in Tellings
      BY <1>2, <2>1
    <2>4. SameSeen(f[n], f[n + 1])
      BY <2>2, <2>3, HeardSame DEF SameSeen
    <2>5. SameSeen(h, f[n + 1])
      BY <2>2, <2>4 DEF SameSeen
    <2> QED BY <1>1, <2>1, <2>5
  <1> HIDE DEF T
  <1>5. N \in T
    BY <1>1, <1>3, <1>4, Induct
  <1> QED BY <1>2, <1>5 DEF T

-----------------------------------------------------------------------------
(* The types. *)

\* What a process remembers of a schedule can be recorded.
LEMMA RecordOfType ==
  ASSUME NEW s, Memory(s)
  PROVE  Record(RecordOf(s))
  <1>1. ASSUME NEW i \in Sids
        PROVE  [s.scheds[i] EXCEPT !.end = Never] \in Memories
    <2>1. s.scheds[i] \in Memories
      BY DEF Memory
    <2> QED BY <2>1 DEF Memories
  <1>2. RecordOf(s).scheds = [i \in Sids |-> [s.scheds[i] EXCEPT !.end = Never]]
    BY DEF RecordOf
  <1> QED BY <1>1, <1>2 DEF Record

\* A runtime that has just been made is of any program.
LEMMA FreshRemembered ==
  ASSUME NEW p
  PROVE  Remembered(p, Fresh)
  BY FreshFacts DEF Remembered

\* What a pass does with what the runtime remembers, and with the history of the lines.
LEMMA PassFacts ==
  ASSUME Types, Pass
  PROVE  LET s == Evaluated(rt)
         IN  /\ Memory(s) /\ OfProgram(P, s) /\ s.written = rt.written /\ s.releases = rt.releases
             /\ Memory(rt') /\ OfProgram(P, rt') /\ rt'.level = s.level
             /\ rt'.written = Flushed(s).written /\ rt'.releases = {}
             /\ line' = LinesAfter(s)
             /\ DOMAIN seen' = DOMAIN NotSeen /\ seen'.reloaded = FALSE
             /\ seen'.lost = {l \in seen.lost \cup (ToRelease(s) \cap bad) : LinesAfter(s)[l]}
  <1> DEFINE s == Evaluated(rt)
             t == Flushed(s)
             h == Tells(seen)
             byHand == {c \in h.byHand \cup Switched : s.level[c] \/ c \in Closers(s)}
             lost == {l \in h.lost \cup (ToRelease(s) \cap bad) : LinesAfter(s)[l]}
             fresh == s.due /\ rt.booted
             k == [h EXCEPT !.fresh = fresh, !.byHand = byHand, !.lost = lost, !.reloaded = FALSE]
             due == t.due /\ ~rt.booted
  <1>1. Memory(s) /\ OfProgram(P, s) /\ s.written = rt.written /\ s.releases = rt.releases
    <2>1. now \in Nat /\ prog \in DOMAIN Program
      BY PlotRunsAssumption DEF Types, World
    <2>2. Keeps(P, rt, s)
      BY <2>1, EvaluatedKeeps DEF Types, Remembered
    <2> QED BY <2>2 DEF Same, Keeps
  <1>2. rt' = [t EXCEPT !.due = due] /\ line' = LinesAfter(s) /\ seen' = Forgets(k, P, s)
    BY DEF Pass
  <1>3. Memory(t) /\ OfProgram(P, t) /\ t.releases = {} /\ t.level = s.level
    <2> HIDE DEF s
    <2> QED BY <1>1, Fields DEF Flushed, Memory, OfProgram
  <1> HIDE DEF s, t, due
  <1>4. /\ Memory(rt') /\ OfProgram(P, rt') /\ rt'.level = s.level
        /\ rt'.written = t.written /\ rt'.releases = {}
    BY <1>2, <1>3, Fields DEF Memory, OfProgram
  <1>5. SameSeen(seen, h)
    BY <1>4, TellsSame DEF Types, Memory
  <1> HIDE DEF h, byHand, fresh, lost
  <1>6. DOMAIN k = DOMAIN NotSeen /\ k.lost = lost /\ k.reloaded = FALSE
    BY <1>5, SeenFields DEF SameSeen
  <1> HIDE DEF k
  <1>7. DOMAIN seen' = DOMAIN NotSeen /\ seen'.lost = lost /\ seen'.reloaded = FALSE
    BY <1>2, <1>6, SeenFields DEF Forgets
  <1>8. lost = {l \in seen.lost \cup (ToRelease(s) \cap bad) : LinesAfter(s)[l]}
    BY <1>5 DEF lost, SameSeen
  <1> QED BY <1>1, <1>2, <1>4, <1>7, <1>8 DEF s, t

\* A pass.
LEMMA PassTypes ==
  ASSUME Types, Pass
  PROVE  Types'
  <1> DEFINE s == Evaluated(rt)
  <1>1. /\ Memory(s) /\ s.written = rt.written
        /\ Memory(rt') /\ OfProgram(P, rt')
        /\ rt'.written = Flushed(s).written /\ rt'.releases = {}
        /\ line' = LinesAfter(s)
        /\ DOMAIN seen' = DOMAIN NotSeen
        /\ seen'.lost = {l \in seen.lost \cup (ToRelease(s) \cap bad) : LinesAfter(s)[l]}
    BY PassFacts
  <1>2. disk' \in {disk, RecordOf(s)} /\ older' = disk /\ queue' \in {queue, <<>>} /\ passed' = rt.booted
    BY DEF Pass
  <1> HIDE DEF s
  <1>3. UNCHANGED <<now, trusted, alarm, bad, up, prog, troubles>> /\ P' = P /\ up
    BY DEF Pass, P
  <1>4. line' \in [Lines -> BOOLEAN]
    BY <1>1 DEF LinesAfter, Memory, Types, World
  <1>5. rt'.written \in [Cards -> {"none", "on", "off"}]
    <2>1. s.written \in [Cards -> {"none", "on", "off"}] /\ "written" \in DOMAIN s /\ "releases" \in DOMAIN s
      BY <1>1, Fields DEF Types, Remembered, Memory
    <2> DEFINE left == {r.card : r \in s.releases} \ P.cards
               done == {c \in ToWrite(s) : P.line[c] \notin bad}
               words == [c \in Cards |-> IF c \in done THEN Word(s.level[c])
                                         ELSE IF c \in left THEN "none" ELSE s.written[c]]
    <2>2. Flushed(s).written = words
      BY <2>1 DEF Flushed
    <2>3. \A on : Word(on) \in {"on", "off"}
      BY DEF Word
    <2> QED BY <1>1, <2>1, <2>2, <2>3
  <1>6. Remembered(P, rt')
    BY <1>1, <1>5 DEF Remembered
  <1>7. World'
    BY <1>2, <1>3, <1>4 DEF Types, World, Remembered, Memory
  <1>8. queue' \in Seq(Queueable) /\ Record(disk') /\ Record(older')
    <2>1. <<>> \in Seq(Queueable)
      OBVIOUS
    <2> QED BY <1>1, <1>2, <2>1, RecordOfType DEF Types
  <1>9. seen'.lost \subseteq Lines
    BY <1>1 DEF Types, World
  <1> QED BY <1>1, <1>3, <1>6, <1>7, <1>8, <1>9 DEF Types

\* A tick.
LEMMA TickTypes ==
  ASSUME Types, Tick
  PROVE  Types'
  <1>1. now + 1 \in 0 .. Horizon
    BY PlotRunsAssumption DEF Types, World, Tick
  <1>2. seen' = [seen EXCEPT !.leaving = {}] /\ P' = P
    BY DEF Tick, P
  <1>3. DOMAIN seen' = DOMAIN NotSeen /\ seen'.lost = seen.lost
    BY <1>2, SeenFields DEF Types
  <1>4. World'
    BY <1>1 DEF Types, World, Tick
  <1>5. UNCHANGED <<up, rt, queue, disk, older>>
    BY DEF Tick
  <1> QED BY <1>2, <1>3, <1>4, <1>5 DEF Types

\* A trouble is counted.
LEMMA TroubleCounted ==
  ASSUME Types, NEW t, Trouble(t)
  PROVE  troubles' \in 0 .. MaxTroubles
  BY PlotRunsAssumption DEF Types, World, Trouble

\* A command.
LEMMA CommandTypes ==
  ASSUME Types, NEW c \in Commands(P), Command(c)
  PROVE  Types'
  <1>1. DOMAIN P.plots \subseteq Plots /\ HandCards \subseteq Cards
    BY ProgramFacts, PlotRunsAssumption DEF Types, World
  <1>2. c \in Queueable
    BY <1>1 DEF Commands, Queueable
  <1>3. <<c>> \in Seq(Queueable) /\ queue' = <<c>>
    BY <1>2 DEF Command
  <1>4. UNCHANGED <<now, passed, trusted, alarm, bad, line, up, prog, rt, disk, older, seen>> /\ P' = P
    BY DEF Command, P
  <1>5. troubles' \in 0 .. MaxTroubles
    BY TroubleCounted DEF Command
  <1> QED BY <1>3, <1>4, <1>5 DEF Types, World

\* What the world does to a node, and the clock.
LEMMA WorldTypes ==
  ASSUME Types, AlarmChange \/ ClockTrusted \/ \E l \in WeakLines : WritesFail(l)
  PROVE  Types'
  <1>1. /\ UNCHANGED <<now, passed, line, up, prog, rt, queue, disk, older, seen>> /\ P' = P
        /\ trusted' \in BOOLEAN /\ alarm' \in BOOLEAN
    BY DEF AlarmChange, ClockTrusted, WritesFail, P, Types, World
  <1>2. bad' \subseteq Lines
    BY PlotRunsAssumption DEF AlarmChange, ClockTrusted, WritesFail, Types, World
  <1>3. troubles' \in 0 .. MaxTroubles
    BY TroubleCounted DEF AlarmChange, ClockTrusted, WritesFail, Types, World
  <1> QED BY <1>1, <1>2, <1>3 DEF Types, World

\* A process ends.
LEMMA EndsTypes ==
  ASSUME Types, Ends, UNCHANGED <<now, alarm, bad, prog>>, line' \in [Lines -> BOOLEAN], Record(disk'),
         troubles' \in 0 .. MaxTroubles, DOMAIN seen' = DOMAIN NotSeen, seen'.lost \subseteq Lines
  PROVE  Types'
  <1>1. rt' = Fresh /\ P' = P /\ Remembered(P, Fresh)
    BY FreshRemembered DEF Ends, P
  <1>2. queue' \in Seq(Queueable)
    <2>1. <<>> \in Seq(Queueable)
      OBVIOUS
    <2> QED BY <2>1 DEF Ends
  <1>3. World'
    BY DEF Types, World, Ends
  <1>4. Record(older')
    BY DEF Types, Ends
  <1> QED BY <1>1, <1>2, <1>3, <1>4 DEF Types

\* The next process does not know of some of the history.
LEMMA UnreadSame ==
  ASSUME DOMAIN seen = DOMAIN NotSeen
  PROVE  DOMAIN Unread(seen) = DOMAIN NotSeen /\ Unread(seen).lost = seen.lost /\ Unread(seen).reloaded = FALSE
  BY SeenFields DEF Unread

\* What is let go of in a stop is a set of lines.
LEMMA ToReleaseType ==
  ASSUME Types
  PROVE  ToRelease(rt) \subseteq Lines
  BY DEF Types, Remembered, ToRelease

\* A stop.
LEMMA StopTypes ==
  ASSUME Types, Stop
  PROVE  Types'
  <1> DEFINE lost == {l \in seen.lost \cup ToRelease(rt) : line'[l]}
  <1>1. line' \in [Lines -> BOOLEAN]
    BY DEF Stop, Types, World
  <1>2. Record(disk')
    BY RecordOfType DEF Stop, Types, Remembered
  <1>3. troubles' \in 0 .. MaxTroubles
    BY TroubleCounted DEF Stop
  <1>4. DOMAIN seen' = DOMAIN NotSeen /\ seen'.lost = lost
    <2>1. seen' = [Unread(seen) EXCEPT !.lost = {l \in Unread(seen).lost \cup ToRelease(rt) : line'[l]}]
      BY DEF Stop
    <2> QED BY <2>1, UnreadSame, SeenFields DEF Types
  <1>5. lost \subseteq Lines
    BY ToReleaseType DEF Types
  <1> HIDE DEF lost
  <1>6. Ends /\ UNCHANGED <<now, alarm, bad, prog>>
    BY DEF Stop
  <1> QED BY <1>1, <1>2, <1>3, <1>4, <1>5, <1>6, EndsTypes

\* A kill.
LEMMA KillTypes ==
  ASSUME Types, Kill
  PROVE  Types'
  <1> DEFINE lost == {l \in seen.lost \cup ToRelease(rt) : line'[l]}
             stale == rt.due \/ disk' # disk
  <1>1. line' \in [Lines -> BOOLEAN]
    BY DEF Kill, Types, World
  <1>2. Record(disk')
    BY DEF Kill, Types
  <1>3. troubles' \in 0 .. MaxTroubles
    BY TroubleCounted DEF Kill
  <1>4. DOMAIN seen' = DOMAIN NotSeen /\ seen'.lost = lost
    <2>1. seen' = [Unread(seen) EXCEPT !.lost = {l \in Unread(seen).lost \cup ToRelease(rt) : line'[l]},
                                       !.stale = stale]
      BY DEF Kill
    <2> HIDE DEF stale
    <2> QED BY <2>1, UnreadSame, SeenFields DEF Types
  <1>5. lost \subseteq Lines
    BY ToReleaseType DEF Types
  <1> HIDE DEF lost
  <1>6. Ends /\ UNCHANGED <<now, alarm, bad, prog>>
    BY DEF Kill
  <1> QED BY <1>1, <1>2, <1>3, <1>4, <1>5, <1>6, EndsTypes

\* What a start does with what the runtime remembers, and with the history of the lines.
LEMMA RestartFacts ==
  ASSUME Types, Restart
  PROVE  /\ Memory(rt') /\ OfProgram(P, rt') /\ rt'.written = [c \in Cards |-> "none"] /\ rt'.releases = {}
         /\ DOMAIN seen' = DOMAIN NotSeen /\ seen'.lost = seen.lost /\ seen'.reloaded = seen.reloaded
  <1>1. Memory(rt') /\ OfProgram(P, rt') /\ rt'.written = [c \in Cards |-> "none"] /\ rt'.releases = {}
    <2>1. rt' = ColdLoad(disk, trusted')
      BY DEF Restart
    <2>2. Record(disk) /\ now \in Nat /\ prog \in DOMAIN Program
      BY PlotRunsAssumption DEF Types, World
    <2> QED BY <2>1, <2>2, ColdLoadTypes, FreshFacts
  <1> DEFINE open == [i \in Sids |-> OpenAgain(i)]
             h == [seen EXCEPT !.open = open]
             k == Tells(h)
             late == IF trusted' THEN k.late ELSE k.late + Behind
  <1>2. seen' = [k EXCEPT !.late = late, !.begun = BegunAgain, !.stale = FALSE]
    BY DEF Restart
  <1> HIDE DEF open, late
  <1>3. SameSeen(seen, h)
    BY SeenFields DEF Types, SameSeen
  <1> HIDE DEF h
  <1>4. SameSeen(h, k)
    BY <1>1, <1>3, TellsSame DEF SameSeen, Memory
  <1> HIDE DEF k
  <1>5. DOMAIN seen' = DOMAIN NotSeen /\ seen'.lost = seen.lost /\ seen'.reloaded = seen.reloaded
    BY <1>2, <1>3, <1>4, SeenFields DEF SameSeen
  <1> QED BY <1>1, <1>5

\* A start.
LEMMA RestartTypes ==
  ASSUME Types, Restart
  PROVE  Types'
  <1>1. Remembered(P, rt')
    BY RestartFacts DEF Remembered
  <1>2. UNCHANGED <<now, alarm, bad, line, prog, disk, older, troubles>> /\ P' = P /\ up'
    BY DEF Restart, P
  <1>3. queue' \in Seq(Queueable)
    <2>1. <<>> \in Seq(Queueable)
      OBVIOUS
    <2> QED BY <2>1 DEF Restart
  <1>4. World'
    BY <1>2 DEF Types, World, Restart
  <1> QED BY <1>1, <1>2, <1>3, <1>4, RestartFacts DEF Types

\* Outputs that a take-over takes from their lines, those of which nothing is known to be written any more, and
\* those whose lines are let go of.
Taken(old, new) == {c \in old.cards : c \notin new.cards \/ new.line[c] # old.line[c]}
Anew(old, new) == {c \in Taken(old, new) : c \in new.cards \/ old.line[c] \in InUse(new)}
Planned(old, new, written) ==
  {c \in Taken(old, new) : old.line[c] \notin InUse(new) /\ (c \in new.cards \/ written[c] # "none")}

\* What a take-over does with what the runtime remembers, and with the history of the lines.
LEMMA ReloadFacts ==
  ASSUME Types, NEW n \in DOMAIN Program, Reload(n)
  PROVE  /\ Memory(rt') /\ OfProgram(Program[n], rt')
         /\ rt'.written = [c \in Cards |-> IF c \in Anew(P, Program[n]) THEN "none" ELSE rt.written[c]]
         /\ rt'.releases = {r \in rt.releases : r.line \notin InUse(Program[n])}
                             \cup {[card |-> c, line |-> P.line[c]] : c \in Planned(P, Program[n], rt.written)}
         /\ DOMAIN seen' = DOMAIN NotSeen /\ seen'.lost = seen.lost \cup NotDriven(Program[n])
         /\ seen'.reloaded = TRUE
  <1> DEFINE new == Program[n]
             leaving == seen.leaving \cup LeavingValves(new)
             lost == seen.lost \cup NotDriven(new)
             k == [seen EXCEPT !.reloaded = TRUE, !.leaving = leaving, !.lost = lost]
  <1>1. /\ IsProgram(P) /\ DOMAIN P.plots \subseteq Plots
        /\ IsProgram(new) /\ DOMAIN new.plots \subseteq Plots
    BY ProgramFacts DEF Types, World
  <1>2. rt' = TakeOver(rt, P, new) /\ seen' = Forgets(k, new, TakeOver(rt, P, new))
    BY DEF Reload
  <1> HIDE DEF new, leaving, lost
  <1>3. /\ Memory(rt') /\ OfProgram(new, rt')
        /\ \E t : /\ t.written = rt.written /\ t.releases = rt.releases
                  /\ {"written", "releases"} \subseteq DOMAIN t
                  /\ rt'.written = PlanReleases(t, P, new).written
                  /\ rt'.releases = PlanReleases(t, P, new).releases
    BY <1>1, <1>2, TakeOverTypes DEF Types, Remembered
  <1>4. /\ rt'.written = [c \in Cards |-> IF c \in Anew(P, new) THEN "none" ELSE rt.written[c]]
        /\ rt'.releases = {r \in rt.releases : r.line \notin InUse(new)}
                            \cup {[card |-> c, line |-> P.line[c]] : c \in Planned(P, new, rt.written)}
    <2>1. PICK t : /\ t.written = rt.written /\ t.releases = rt.releases
                   /\ {"written", "releases"} \subseteq DOMAIN t
                   /\ rt'.written = PlanReleases(t, P, new).written
                   /\ rt'.releases = PlanReleases(t, P, new).releases
      BY <1>3
    <2> DEFINE off(c) == c \notin new.cards \/ new.line[c] # P.line[c]
               used(c) == P.line[c] \in InUse(new)
               anew == {c \in P.cards : off(c) /\ (c \in new.cards \/ used(c))}
               planned == {c \in P.cards : off(c) /\ ~used(c) /\ (c \in new.cards \/ t.written[c] # "none")}
    <2>2. anew = Anew(P, new)
      BY DEF Anew, Taken
    <2>3. planned = Planned(P, new, rt.written)
      BY <2>1 DEF Planned, Taken
    <2>4. /\ PlanReleases(t, P, new).written = [c \in Cards |-> IF c \in anew THEN "none" ELSE t.written[c]]
          /\ PlanReleases(t, P, new).releases =
               {r \in t.releases : r.line \notin InUse(new)} \cup {[card |-> c, line |-> P.line[c]] : c \in planned}
      BY <2>1 DEF PlanReleases
    <2> HIDE DEF anew, planned
    <2> QED BY <2>1, <2>2, <2>3, <2>4
  <1>5. DOMAIN k = DOMAIN NotSeen /\ k.lost = lost /\ k.reloaded = TRUE
    BY SeenFields DEF Types
  <1> HIDE DEF k
  <1>6. DOMAIN seen' = DOMAIN NotSeen /\ seen'.lost = lost /\ seen'.reloaded = TRUE
    BY <1>2, <1>5, SeenFields DEF Forgets
  <1> QED BY <1>3, <1>4, <1>6 DEF new, lost

\* A take-over.
LEMMA ReloadTypes ==
  ASSUME Types, NEW n \in DOMAIN Program, Reload(n)
  PROVE  Types'
  <1> DEFINE new == Program[n]
  <1>1. /\ P' = new /\ prog' = n /\ up
        /\ UNCHANGED <<now, passed, trusted, alarm, bad, line, up, queue, disk, older>>
    BY DEF Reload, P
  <1>2. IsProgram(P) /\ IsProgram(new)
    BY ProgramFacts DEF Types, World
  <1> HIDE DEF new
  <1>3. rt'.written \in [Cards -> {"none", "on", "off"}]
    BY ReloadFacts DEF Types, Remembered
  <1>4. rt'.releases \subseteq [card : Cards, line : Lines \ InUse(new)]
    <2> SUFFICES ASSUME NEW r \in rt'.releases
                 PROVE  r \in [card : Cards, line : Lines \ InUse(new)]
      OBVIOUS
    <2>1. \/ r \in rt.releases /\ r.line \notin InUse(new)
          \/ \E c \in Planned(P, new, rt.written) : r = [card |-> c, line |-> P.line[c]]
      <3> DEFINE kept == {x \in rt.releases : x.line \notin InUse(new)}
                 added == {[card |-> c, line |-> P.line[c]] : c \in Planned(P, new, rt.written)}
      <3>1. rt'.releases = kept \cup added
        BY ReloadFacts DEF new
      <3>2. r \in kept \/ r \in added
        BY <3>1
      <3> QED BY <3>2
    <2>2. CASE r \in rt.releases /\ r.line \notin InUse(new)
      BY <2>2 DEF Types, Remembered
    <2>3. ASSUME NEW c \in Planned(P, new, rt.written), r = [card |-> c, line |-> P.line[c]]
          PROVE  r \in [card : Cards, line : Lines \ InUse(new)]
      <3>1. c \in P.cards /\ P.line[c] \notin InUse(new)
        BY DEF Planned, Taken
      <3> QED BY <1>2, <2>3, <3>1 DEF IsProgram
    <2> QED BY <2>1, <2>2, <2>3
  <1>5. Remembered(new, rt')
    BY <1>3, <1>4, ReloadFacts DEF Remembered, new
  <1>6. NotDriven(new) \subseteq Lines
    BY <1>2 DEF NotDriven, InUse, IsProgram
  <1>7. seen'.lost \subseteq Lines
    BY <1>6, ReloadFacts DEF Types, new
  <1>8. troubles' \in 0 .. MaxTroubles
    BY TroubleCounted DEF Reload
  <1>9. World'
    BY <1>1, <1>8 DEF Types, World
  <1> QED BY <1>1, <1>5, <1>7, <1>9, ReloadFacts DEF Types

\* The first state.
LEMMA InitTypes ==
  ASSUME Init
  PROVE  Types
  <1>1. World
    <2>1. 0 \in 0 .. Horizon /\ 0 \in 0 .. MaxTroubles /\ FirstProgram \in DOMAIN Program
      BY PlotRunsAssumption
    <2>2. line \in [Lines -> BOOLEAN] /\ bad \subseteq Lines /\ {passed, trusted, alarm, up} \subseteq BOOLEAN
      BY DEF Init
    <2> QED BY <2>1, <2>2 DEF Init, World
  <1>2. rt = Fresh /\ disk = RecordOf(Fresh) /\ older = RecordOf(Fresh)
    BY DEF Init
  <1>3. Remembered(P, rt)
    BY <1>2, FreshRemembered
  <1>4. Record(disk) /\ Record(older)
    BY <1>2, FreshFacts, RecordOfType
  <1>5. queue \in Seq(Queueable)
    <2>1. <<>> \in Seq(Queueable)
      OBVIOUS
    <2> QED BY <2>1 DEF Init
  <1>6. DOMAIN seen = DOMAIN NotSeen /\ seen.lost \subseteq Lines
    BY DEF Init, NotSeen
  <1> QED BY <1>1, <1>2, <1>3, <1>4, <1>5, <1>6 DEF Types

\* Every step keeps the types.
LEMMA TypesStep ==
  ASSUME Types, [Next]_vars
  PROVE  Types'
  <1>1. CASE Pass
    BY <1>1, PassTypes
  <1>2. CASE Tick
    BY <1>2, TickTypes
  <1>3. CASE AlarmChange \/ ClockTrusted \/ \E l \in WeakLines : WritesFail(l)
    BY <1>3, WorldTypes
  <1>4. CASE \E c \in Commands(P) : Command(c)
    BY <1>4, CommandTypes
  <1>5. CASE \E n \in DOMAIN Program : Reload(n)
    BY <1>5, ReloadTypes
  <1>6. CASE Stop
    BY <1>6, StopTypes
  <1>7. CASE Kill
    BY <1>7, KillTypes
  <1>8. CASE Restart
    BY <1>8, RestartTypes
  <1>9. CASE UNCHANGED vars
    BY <1>9 DEF vars, Types, World, P
  <1> QED BY <1>1, <1>2, <1>3, <1>4, <1>5, <1>6, <1>7, <1>8, <1>9 DEF Next

\* TypeOK, at all times: the runtime's tables have their types, a run is of a plot of the program, a release is of a
\* line that the program does not use, and a schedule that is not in the program remembers nothing (BlockRuntime.load_ir).
THEOREM TypesHold == Spec => []TypeOK
  <1>1. Types => TypeOK
    <2> SUFFICES ASSUME Types
                 PROVE  TypeOK
      OBVIOUS
    <2>1. \A r \in rt.releases : r.line \notin InUse(P)
      BY DEF Types, Remembered
    <2>2. DOMAIN rt.runs \subseteq DOMAIN P.plots /\ \A i \in Sids \ Ids(P) : rt.scheds[i] = NoMemory
      BY DEF Types, Remembered, OfProgram
    <2>3. /\ rt.level \in [Cards -> BOOLEAN] /\ rt.copy \in [Cards -> BOOLEAN] /\ rt.dirty \subseteq rt.known
          /\ rt.written \in [Cards -> {"none", "on", "off"}] /\ rt.scheds \in [Sids -> Memories]
      BY DEF Types, Remembered, Memory
    <2> QED BY <2>1, <2>2, <2>3 DEF Types, World, TypeOK
  <1>2. Types /\ [Next]_vars => Types'
    BY TypesStep
  <1> QED BY <1>1, <1>2, InitTypes, PTL DEF Spec

-----------------------------------------------------------------------------
(* The lines follow the cards. *)

\* Where the cards of a program are.
LEMMA LineFacts ==
  ASSUME NEW p, IsProgram(p)
  PROVE  /\ p.cards \subseteq Cards
         /\ \A c \in p.cards : p.line[c] \in Lines \ p.inputs /\ p.line[c] \in InUse(p)
         /\ \A c, d \in p.cards : p.line[c] = p.line[d] => c = d
         /\ \A l \in InUse(p) \ p.inputs : \E c \in p.cards : p.line[c] = l
  BY DEF IsProgram, InUse

\* What a pass writes, and remembers to have written.
LEMMA PassLines ==
  ASSUME Types, Pass
  PROVE  LET s == Evaluated(rt)
         IN  /\ \A c \in P.cards : P.line[c] \in bad => line'[P.line[c]] = line[P.line[c]]
                                                        /\ rt'.written[c] = rt.written[c]
             /\ \A c \in P.cards : P.line[c] \notin bad =>
                  /\ rt'.written[c] = Word(s.level[c])
                  /\ line'[P.line[c]] = IF rt.written[c] # Word(s.level[c]) THEN s.level[c] ELSE line[P.line[c]]
             /\ \A c \in Cards \ P.cards : rt'.written[c] = IF c \in Released THEN "none" ELSE rt.written[c]
             /\ \A l \in Lines \ InUse(P) : line'[l] = (line[l] /\ (l \in bad \/ l \notin ReleasedLines))
             /\ seen'.lost = {l \in seen.lost \cup (bad \cap (ReleasedLines \ InUse(P))) : line'[l]}
  <1> DEFINE s == Evaluated(rt)
             left == {r.card : r \in s.releases} \ P.cards
             done == {c \in ToWrite(s) : P.line[c] \notin bad}
             words == [c \in Cards |-> IF c \in done THEN Word(s.level[c])
                                       ELSE IF c \in left THEN "none" ELSE s.written[c]]
  <1>1. IsProgram(P)
    BY ProgramFacts DEF Types, World
  <1>2. /\ Memory(s) /\ s.written = rt.written /\ s.releases = rt.releases
        /\ rt'.written = Flushed(s).written /\ line' = LinesAfter(s)
        /\ seen'.lost = {l \in seen.lost \cup (ToRelease(s) \cap bad) : LinesAfter(s)[l]}
    BY PassFacts
  <1> HIDE DEF s
  <1>3. s.level \in [Cards -> BOOLEAN] /\ {"written", "releases"} \subseteq DOMAIN s
    BY <1>2, Fields DEF Memory
  <1>4. rt'.written = words
    BY <1>2, <1>3 DEF Flushed
  <1>5. left = Released \ P.cards /\ ToRelease(s) = ReleasedLines \ InUse(P)
    BY <1>2 DEF Released, ReleasedLines, ToRelease
  <1>6. \A c \in P.cards : c \in ToWrite(s) <=> rt.written[c] # Word(s.level[c])
    BY <1>2 DEF ToWrite
  <1>7. ToWrite(s) \subseteq P.cards
    BY DEF ToWrite
  <1> HIDE DEF left
  <1>8. ASSUME NEW c \in P.cards
        PROVE  /\ P.line[c] \in bad => rt'.written[c] = rt.written[c]
               /\ P.line[c] \notin bad => rt'.written[c] = Word(s.level[c])
    <2>1. c \in Cards /\ c \notin left
      BY <1>1, <1>5, LineFacts
    <2>2. rt'.written[c] = IF c \in done THEN Word(s.level[c]) ELSE rt.written[c]
      BY <1>2, <1>4, <2>1
    <2>3. c \in done <=> (rt.written[c] # Word(s.level[c]) /\ P.line[c] \notin bad)
      BY <1>6
    <2> HIDE DEF done
    <2> QED BY <2>2, <2>3
  <1>9. ASSUME NEW c \in P.cards
        PROVE  /\ P.line[c] \in bad => line'[P.line[c]] = line[P.line[c]]
               /\ P.line[c] \notin bad =>
                    line'[P.line[c]] = IF rt.written[c] # Word(s.level[c]) THEN s.level[c] ELSE line[P.line[c]]
    <2> DEFINE l == P.line[c]
    <2>1. l \in Lines /\ l \notin P.inputs /\ l \in InUse(P) /\ c \in Cards
      BY <1>1, LineFacts
    <2>2. \A d \in ToWrite(s) : P.line[d] = l => d = c
      BY <1>1, <1>7, LineFacts
    <2>3. (\E d \in ToWrite(s) : P.line[d] = l) <=> c \in ToWrite(s)
      BY <2>2
    <2>4. c \in ToWrite(s) => ((\E d \in ToWrite(s) : P.line[d] = l /\ s.level[d]) <=> s.level[c])
      BY <2>2
    <2>5. l \notin ToRelease(s)
      BY <2>1 DEF ToRelease
    <2>6. s.level[c] \in BOOLEAN
      BY <1>3, <2>1
    <2> HIDE DEF l
    <2>7. line'[l] = IF l \in bad THEN line[l]
                     ELSE IF c \in ToWrite(s) THEN \E d \in ToWrite(s) : P.line[d] = l /\ s.level[d] ELSE line[l]
      BY <1>2, <2>1, <2>3, <2>5 DEF LinesAfter
    <2> QED BY <1>6, <2>4, <2>6, <2>7 DEF l
  <1>10. ASSUME NEW c \in Cards \ P.cards
         PROVE  rt'.written[c] = IF c \in Released THEN "none" ELSE rt.written[c]
    <2>1. c \notin done
      BY <1>7
    <2>2. c \in left <=> c \in Released
      BY <1>5
    <2> HIDE DEF done
    <2> QED BY <1>2, <1>4, <2>1, <2>2
  <1>11. ASSUME NEW l \in Lines \ InUse(P)
         PROVE  line'[l] = (line[l] /\ (l \in bad \/ l \notin ReleasedLines))
    <2>1. l \notin P.inputs /\ ~\E c \in ToWrite(s) : P.line[c] = l
      BY <1>7 DEF InUse
    <2>2. line[l] \in BOOLEAN
      BY DEF Types, World
    <2>3. line'[l] = IF l \in bad THEN line[l] ELSE IF l \in ToRelease(s) THEN FALSE ELSE line[l]
      BY <1>2, <2>1 DEF LinesAfter
    <2> QED BY <1>5, <2>2, <2>3
  <1>12. seen'.lost = {l \in seen.lost \cup (bad \cap (ReleasedLines \ InUse(P))) : line'[l]}
    BY <1>2, <1>5
  <1> QED BY <1>8, <1>9, <1>10, <1>11, <1>12 DEF s

\* A pass.
LEMMA PassFollows ==
  ASSUME Types, LinesInv, Pass
  PROVE  LinesInv'
  <1> DEFINE s == Evaluated(rt)
  <1>1. IsProgram(P) /\ P' = P /\ bad' = bad
    BY ProgramFacts DEF Types, World, Pass, P
  <1>2. s.level \in [Cards -> BOOLEAN] /\ rt'.level = s.level /\ rt'.releases = {}
    BY PassFacts DEF Memory
  <1>3. \A on \in BOOLEAN : Word(on) # "none" /\ (Word(on) = "on" <=> on)
    BY DEF Word
  <1>4. line' \in [Lines -> BOOLEAN] /\ line \in [Lines -> BOOLEAN]
    BY PassTypes DEF Types, World
  <1>5. WrittenIsThere'
    <2> SUFFICES ASSUME NEW c \in P.cards, rt'.written[c] # "none"
                 PROVE  line'[P.line[c]] = (rt'.written[c] = "on")
      BY <1>1 DEF WrittenIsThere
    <2>1. s.level[c] \in BOOLEAN
      BY <1>1, <1>2, LineFacts
    <2>2. rt.written[c] # "none" => line[P.line[c]] = (rt.written[c] = "on")
      BY DEF LinesInv, WrittenIsThere
    <2>3. CASE P.line[c] \in bad
      BY <2>2, <2>3, PassLines
    <2>4. CASE P.line[c] \notin bad
      <3>1. /\ rt'.written[c] = Word(s.level[c])
            /\ line'[P.line[c]] = IF rt.written[c] # Word(s.level[c]) THEN s.level[c] ELSE line[P.line[c]]
        BY <2>4, PassLines
      <3> HIDE DEF s
      <3> QED BY <1>3, <2>1, <2>2, <3>1
    <2> QED BY <2>3, <2>4
  <1>6. ASSUME NEW l \in Lines \ InUse(P), line'[l]
        PROVE  l \in seen'.lost
    <2>1. line[l] /\ (l \in bad \/ l \notin ReleasedLines)
      BY <1>4, <1>6, PassLines
    <2>2. l \in ReleasedLines \cup seen.lost
      BY <2>1 DEF LinesInv, UnusedOff
    <2>3. seen'.lost = {x \in seen.lost \cup (bad \cap (ReleasedLines \ InUse(P))) : line'[x]}
      BY PassLines
    <2> QED BY <1>6, <2>1, <2>2, <2>3
  <1>7. UnusedOff'
    BY <1>1, <1>6 DEF UnusedOff
  <1>8. GoneForgotten'
    <2> SUFFICES ASSUME NEW c \in Cards \ P.cards
                 PROVE  rt'.written[c] = "none"
      BY <1>1 DEF GoneForgotten
    <2> QED BY PassLines DEF LinesInv, GoneForgotten
  <1>9. ReleasesWait'
    BY <1>2 DEF ReleasesWait
  <1>10. LinesFollowCards'
    <2> SUFFICES ASSUME NEW l \in Lines \ (P.inputs \cup bad \cup seen'.lost)
                 PROVE  line'[l] = \E c \in P.cards : P.line[c] = l /\ rt'.level[c]
      BY <1>1 DEF LinesFollowCards, Settled
    <2>1. CASE l \in InUse(P)
      <3>1. PICK c \in P.cards : P.line[c] = l
        BY <1>1, <2>1, LineFacts
      <3>2. s.level[c] \in BOOLEAN
        BY <1>1, <1>2, LineFacts
      <3>3. /\ rt'.written[c] = Word(s.level[c])
        BY <3>1, PassLines
      <3> HIDE DEF s
      <3>4. line'[l] = s.level[c]
        BY <1>3, <1>5, <1>1, <3>1, <3>2, <3>3, <1>4 DEF WrittenIsThere
      <3>5. (\E d \in P.cards : P.line[d] = l /\ rt'.level[d]) <=> rt'.level[c]
        BY <1>1, <3>1, LineFacts
      <3> QED BY <1>2, <3>2, <3>4, <3>5
    <2>2. CASE l \notin InUse(P)
      <3>1. ~line'[l]
        BY <1>6, <2>2
      <3>2. \A c \in P.cards : P.line[c] # l
        BY <2>2 DEF InUse
      <3> QED BY <1>4, <3>1, <3>2
    <2> QED BY <2>1, <2>2
  <1> QED BY <1>5, <1>7, <1>8, <1>9, <1>10 DEF LinesInv

\* Steps that leave the process and the lines as they are.
LEMMA UnchangedFollows ==
  ASSUME Types, LinesInv, UNCHANGED <<line, prog, rt>>, seen'.lost = seen.lost, seen'.reloaded = seen.reloaded,
         ~passed' \/ UNCHANGED <<up, passed, bad>>
  PROVE  LinesInv'
  <1>1. P' = P
    BY DEF P
  <1>2. LinesFollowCards'
    <2>1. CASE ~passed'
      BY <2>1 DEF LinesFollowCards, Settled
    <2>2. CASE UNCHANGED <<up, passed, bad>>
      BY <1>1, <2>2 DEF LinesInv, LinesFollowCards, Settled
    <2> QED BY <2>1, <2>2
  <1> QED BY <1>1, <1>2
          DEF LinesInv, WrittenIsThere, UnusedOff, GoneForgotten, ReleasesWait, Released, ReleasedLines

\* Ticks, commands, and what the world does.
LEMMA OthersFollow ==
  ASSUME Types, LinesInv,
         Tick \/ AlarmChange \/ ClockTrusted \/ (\E c \in Commands(P) : Command(c))
           \/ \E l \in WeakLines : WritesFail(l)
  PROVE  LinesInv'
  <1>1. UNCHANGED <<line, prog, rt>> /\ ~passed'
    BY DEF Tick, AlarmChange, ClockTrusted, Command, WritesFail, Types, World
  <1>2. seen' \in {seen, [seen EXCEPT !.leaving = {}]}
    BY DEF Tick, AlarmChange, ClockTrusted, Command, WritesFail
  <1>3. seen'.lost = seen.lost /\ seen'.reloaded = seen.reloaded
    BY <1>2, SeenFields DEF Types
  <1> QED BY <1>1, <1>3, UnchangedFollows

\* A process with nothing written and nothing to be let go.
LEMMA NewProcessFollows ==
  ASSUME Types, prog' = prog, ~(up' /\ passed'), rt'.written = [c \in Cards |-> "none"], rt'.releases = {},
         \A l \in Lines \ InUse(P) : line'[l] => l \in seen'.lost
  PROVE  LinesInv'
  <1>1. IsProgram(P) /\ P' = P
    BY ProgramFacts DEF Types, World, P
  <1>2. \A c \in P.cards : rt'.written[c] = "none"
    BY <1>1, LineFacts
  <1> QED BY <1>1, <1>2
          DEF LinesInv, WrittenIsThere, UnusedOff, GoneForgotten, ReleasesWait, LinesFollowCards, Settled

\* The process ends, with what it did not let go of known to be lost.
LEMMA EndFollows ==
  ASSUME Types, LinesInv, Stop \/ Kill
  PROVE  LinesInv'
  <1>1. prog' = prog /\ ~up' /\ rt'.written = [c \in Cards |-> "none"] /\ rt'.releases = {}
    BY FreshFacts DEF Stop, Kill, Ends
  <1>2. seen'.lost = {l \in seen.lost \cup ToRelease(rt) : line'[l]}
    <2> DEFINE lost == {l \in seen.lost \cup ToRelease(rt) : line'[l]}
               stale == rt.due \/ disk' # disk
    <2>1. \/ seen' = [Unread(seen) EXCEPT !.lost = {l \in Unread(seen).lost \cup ToRelease(rt) : line'[l]}]
          \/ seen' = [Unread(seen) EXCEPT !.lost = {l \in Unread(seen).lost \cup ToRelease(rt) : line'[l]},
                                          !.stale = stale]
      BY DEF Stop, Kill
    <2> HIDE DEF stale
    <2> QED BY <2>1, UnreadSame, SeenFields DEF Types
  <1>3. ASSUME NEW l \in Lines \ InUse(P), line'[l]
        PROVE  l \in seen'.lost
    <2>1. line[l]
      BY <1>3 DEF Stop, Kill
    <2>2. l \in ReleasedLines \cup seen.lost
      BY <2>1 DEF LinesInv, UnusedOff
    <2>3. l \in ToRelease(rt) \cup seen.lost
      BY <2>2 DEF ToRelease, ReleasedLines
    <2> QED BY <1>2, <1>3, <2>3
  <1> QED BY <1>1, <1>3, NewProcessFollows

\* A start.
LEMMA RestartFollows ==
  ASSUME Types, LinesInv, Restart
  PROVE  LinesInv'
  <1>1. prog' = prog /\ ~passed' /\ line' = line /\ rt.releases = {}
    BY FreshFacts DEF Restart, Types
  <1>2. ASSUME NEW l \in Lines \ InUse(P), line'[l]
        PROVE  l \in seen'.lost
    <2>1. l \in ReleasedLines \cup seen.lost
      BY <1>1, <1>2 DEF LinesInv, UnusedOff
    <2> QED BY <1>1, <2>1, RestartFacts DEF ReleasedLines
  <1> QED BY <1>1, <1>2, RestartFacts, NewProcessFollows

\* A take-over, with nothing left to be let go by an earlier one.
LEMMA ReloadFollows ==
  ASSUME Types, LinesInv, ~ReloadsMeet, NEW n \in DOMAIN Program, Reload(n)
  PROVE  LinesInv'
  <1> DEFINE new == Program[n]
             planned == Planned(P, new, rt.written)
  <1>1. IsProgram(P) /\ IsProgram(new) /\ P' = new /\ line' = line /\ ~passed'
    BY ProgramFacts DEF Types, World, Reload, P
  <1> HIDE DEF new
  <1>2. rt.releases = {} /\ Released = {} /\ ReleasedLines = {}
    BY DEF LinesInv, ReleasesWait, Reload, Released, ReleasedLines
  <1>3. /\ rt'.written = [c \in Cards |-> IF c \in Anew(P, new) THEN "none" ELSE rt.written[c]]
        /\ rt'.releases = {[card |-> c, line |-> P.line[c]] : c \in planned}
        /\ seen'.lost = seen.lost \cup NotDriven(new) /\ seen'.reloaded
    <2> DEFINE kept == {r \in rt.releases : r.line \notin InUse(new)}
               added == {[card |-> c, line |-> P.line[c]] : c \in planned}
    <2>1. rt'.releases = kept \cup added
      BY ReloadFacts DEF new
    <2>2. kept = {}
      BY <1>2
    <2> HIDE DEF kept, added
    <2>3. rt'.releases = added
      BY <2>1, <2>2
    <2> QED BY <2>3, ReloadFacts DEF new, added
  <1>4. Released' = planned /\ ReleasedLines' = {P.line[c] : c \in planned}
    <2> HIDE DEF planned
    <2>1. \A c \in planned : \E r \in rt'.releases : r.card = c /\ r.line = P.line[c]
      <3> SUFFICES ASSUME NEW c \in planned
                   PROVE  \E r \in rt'.releases : r.card = c /\ r.line = P.line[c]
        OBVIOUS
      <3>1. [card |-> c, line |-> P.line[c]] \in rt'.releases
        BY <1>3
      <3> QED BY <3>1
    <2>2. \A r \in rt'.releases : r.card \in planned /\ r.line = P.line[r.card]
      BY <1>3
    <2>3. Released' = planned
      BY <2>1, <2>2 DEF Released
    <2>4. ReleasedLines' = {P.line[c] : c \in planned}
      BY <2>1, <2>2 DEF ReleasedLines
    <2> QED BY <2>3, <2>4
  <1> HIDE DEF planned
  <1>5. \A c \in Cards \ P.cards : rt.written[c] = "none"
    BY <1>2 DEF LinesInv, GoneForgotten
  <1>6. WrittenIsThere'
    <2> SUFFICES ASSUME NEW c \in new.cards, rt'.written[c] # "none"
                 PROVE  line[new.line[c]] = (rt'.written[c] = "on")
      BY <1>1 DEF WrittenIsThere
    <2>1. c \in Cards
      BY <1>1, LineFacts
    <2>2. c \notin Anew(P, new) /\ rt'.written[c] = rt.written[c]
      BY <1>3, <2>1
    <2>3. c \in P.cards
      BY <1>5, <2>1, <2>2
    <2>4. new.line[c] = P.line[c]
      BY <2>2, <2>3 DEF Anew, Taken
    <2> QED BY <2>2, <2>3, <2>4 DEF LinesInv, WrittenIsThere
  <1>7. UnusedOff'
    <2> SUFFICES ASSUME NEW l \in Lines \ InUse(new), line[l]
                 PROVE  l \in {P.line[c] : c \in planned} \cup seen'.lost
      BY <1>1, <1>4 DEF UnusedOff
    <2>1. CASE l \notin InUse(P)
      BY <1>2, <1>3, <2>1 DEF LinesInv, UnusedOff
    <2>2. CASE l \in InUse(P) /\ l \in NotDriven(new)
      BY <1>3, <2>2
    <2>3. CASE l \in InUse(P) /\ l \notin NotDriven(new)
      <3>1. PICK c \in P.cards : P.line[c] = l /\ rt.written[c] # "none"
        BY <2>3 DEF NotDriven
      <3>2. c \in new.cards => new.line[c] \in InUse(new)
        BY <1>1, LineFacts
      <3>3. c \in planned
        BY <3>1, <3>2 DEF planned, Planned, Taken
      <3> QED BY <3>1, <3>3
    <2> QED BY <2>1, <2>2, <2>3
  <1>8. GoneForgotten'
    <2> SUFFICES ASSUME NEW c \in Cards \ new.cards
                 PROVE  rt'.written[c] = "none" \/ c \in planned
      BY <1>1, <1>4 DEF GoneForgotten
    <2>1. rt'.written[c] = IF c \in Anew(P, new) THEN "none" ELSE rt.written[c]
      BY <1>3
    <2>2. c \in P.cards => c \in Taken(P, new)
      BY DEF Taken
    <2> QED BY <1>5, <2>1, <2>2 DEF Anew, planned, Planned
  <1>9. ReleasesWait' /\ LinesFollowCards'
    BY <1>1, <1>3 DEF ReleasesWait, LinesFollowCards, Settled
  <1> QED BY <1>6, <1>7, <1>8, <1>9 DEF LinesInv

\* The first state.
LEMMA InitFollows ==
  ASSUME Init
  PROVE  LinesInv
  <1>1. IsProgram(P)
    BY InitTypes, ProgramFacts DEF Types, World
  <1>2. rt.written = [c \in Cards |-> "none"] /\ rt.releases = {} /\ ~passed /\ line = [l \in Lines |-> FALSE]
    BY FreshFacts DEF Init
  <1>3. \A c \in P.cards : rt.written[c] = "none"
    BY <1>1, <1>2, LineFacts
  <1> QED BY <1>2, <1>3
          DEF LinesInv, WrittenIsThere, UnusedOff, GoneForgotten, ReleasesWait, LinesFollowCards, Settled

\* Every step keeps the invariant of the lines.
LEMMA LinesStep ==
  ASSUME Types, LinesInv, ~ReloadsMeet, [Next]_vars
  PROVE  LinesInv'
  <1>1. CASE Pass
    BY <1>1, PassFollows
  <1>2. CASE Tick \/ AlarmChange \/ ClockTrusted \/ (\E c \in Commands(P) : Command(c))
                \/ \E l \in WeakLines : WritesFail(l)
    BY <1>2, OthersFollow
  <1>3. CASE \E n \in DOMAIN Program : Reload(n)
    BY <1>3, ReloadFollows
  <1>4. CASE Stop \/ Kill
    BY <1>4, EndFollows
  <1>5. CASE Restart
    BY <1>5, RestartFollows
  <1>6. CASE UNCHANGED vars
    BY <1>6, UnchangedFollows DEF vars
  <1> QED BY <1>1, <1>2, <1>3, <1>4, <1>5, <1>6 DEF Next

\* LinesFollowCards, at all times, when a pass sees each program before the next is loaded: after a pass a line is on
\* when the card on it is, and off when no card is, whatever programs took over from one another (_plan_releases,
\* _release_outputs, _write_outputs), but for a line whose release failed or was lost, and one never written.
THEOREM LinesFollow ==
  ASSUME ~ReloadsMeet
  PROVE  Spec => []LinesFollowCards
  <1> DEFINE Inv == Types /\ LinesInv
  <1>1. Init => Inv
    BY InitTypes, InitFollows
  <1>2. Inv /\ [Next]_vars => Inv'
    BY TypesStep, LinesStep
  <1>3. Inv => LinesFollowCards
    BY DEF LinesInv
  <1> QED BY <1>1, <1>2, <1>3, PTL DEF Spec

-----------------------------------------------------------------------------
(* Runs end as they started.  What is told in a pass or in a start is told *)
(* once of each schedule, so that the history can be read off what was     *)
(* told, whatever the order.                                               *)

\* A run that began on day ran and ends at endWall is over, on any clock, before its schedule's next start.
Bounded(i, ran, endWall) ==
  /\ ran \in Nat /\ endWall \in Nat
  /\ \A n \in DOMAIN Program : \A d \in SeqRange(Program[n].schedules) :
       d.id = i => endWall + Behind <= (ran + 1) * Day + d.start

\* It ends later than planned by what was lost on a clock that was behind.
Goes(i, m, late) ==
  /\ Bounded(i, m.ran, m.endWall)
  /\ m.endWall <= m.end /\ m.end <= m.endWall + Behind /\ m.end <= m.endWall + late

\* What is remembered of a schedule, and what is recorded of it.
Sound(i, m, late) ==
  /\ m.ran <= now \div Day
  /\ m.end = Never <=> m.endWall = Never
  /\ m.end # Never => Goes(i, m, late)
Recorded(i, m) ==
  /\ m.end = Never /\ m.ran <= now \div Day
  /\ m.endWall # Never => Bounded(i, m.ran, m.endWall)

\* The ends, to be told, of a schedule that was taken out.
Announced(s, i) == {k \in DOMAIN s.orphans : s.orphans[k].announce /\ s.orphans[k].id = i}

\* A schedule of the program: the history knows its run, and no start after its last.
InProgram(s, h, i) ==
  /\ Announced(s, i) = {}
  /\ Sound(i, s.scheds[i], h.late)
  /\ h.open[i] = s.scheds[i].endWall
  /\ \A b \in h.begun : b[1] = i => b[2] <= s.scheds[i].ran

\* One that is not: its run, if it has one, is an end that waits.
Waits(o, h, i) ==
  /\ o.ran <= now \div Day /\ Goes(i, o, h.late)
  /\ h.open[i] = o.endWall
  /\ \A b \in h.begun : b[1] = i => b[2] <= o.ran
TakenOut(s, h, i) ==
  /\ \A j, k \in Announced(s, i) : j = k
  /\ h.open[i] = Never <=> Announced(s, i) = {}
  /\ \A k \in Announced(s, i) : Waits(s.orphans[k], h, i)

\* Of the schedules, those of ids are in the program.
Course(s, h, ids) == \A i \in Sids : IF i \in ids THEN InProgram(s, h, i) ELSE TakenOut(s, h, i)
Known(s, h, ids) == \A b \in h.begun : b[1] \in ids \/ Announced(s, b[1]) # {}

\* What runs, and what waits, ends later.
Sooner(s) ==
  /\ \A i \in Sids : s.scheds[i].end # Never => now < s.scheds[i].end
  /\ \A o \in SeqRange(s.orphans) : now < o.end

\* The history of the runs.
History(h) ==
  /\ DOMAIN h = DOMAIN NotSeen /\ h.open \in [Sids -> Nat \cup {Never}] /\ h.begun \subseteq Sids \X Nat
  /\ h.late \in Nat /\ ~h.amiss

\* While the process runs, what it remembers agrees with the history, and the record with what it remembers unless
\* something is due to be recorded; while it does not, the record agrees with the history unless it is an old one.
Running(s, h, p, rec) ==
  /\ ~h.stale /\ Course(s, h, Ids(p)) /\ Known(s, h, Ids(p))
  /\ ~s.due => rec.scheds = [i \in Sids |-> [s.scheds[i] EXCEPT !.end = Never]]
Resting(h, p, rec) ==
  /\ \A i \in Ids(p) : h.open[i] = rec.scheds[i].endWall
  /\ \A b \in h.begun : b[1] \in Ids(p) => b[2] <= rec.scheds[b[1]].ran

RunsInv ==
  /\ History(seen)
  /\ \A i \in Sids : Recorded(i, disk.scheds[i]) /\ Recorded(i, older.scheds[i])
  /\ up => Running(rt, seen, P, disk) /\ (passed => Sooner(rt))
  /\ ~up /\ ~seen.stale => Resting(seen, P, disk)

\* A sequence with one element more.
LEMMA Appended ==
  ASSUME NEW S, NEW q \in Seq(S), NEW x
  PROVE  /\ SeqRange(Append(q, x)) = SeqRange(q) \cup {x}
         /\ DOMAIN q = 1 .. Len(q) /\ Len(q) \in Nat
         /\ DOMAIN Append(q, x) = 1 .. Len(q) + 1
         /\ \A k \in 1 .. Len(q) : Append(q, x)[k] = q[k]
         /\ Append(q, x)[Len(q) + 1] = x
  <1>1. DOMAIN q = 1 .. Len(q) /\ Len(q) \in Nat
    OBVIOUS
  <1>2. /\ DOMAIN Append(q, x) = 1 .. Len(q) + 1
        /\ \A k \in 1 .. Len(q) + 1 : Append(q, x)[k] = IF k = Len(q) + 1 THEN x ELSE q[k]
    <2>1. q \in Seq(S \cup {x}) /\ x \in S \cup {x}
      OBVIOUS
    <2> QED BY <2>1
  <1>3. ASSUME NEW y \in SeqRange(Append(q, x))
        PROVE  y \in SeqRange(q) \cup {x}
    BY <1>1, <1>2 DEF SeqRange
  <1>4. ASSUME NEW y \in SeqRange(q)
        PROVE  y \in SeqRange(Append(q, x))
    <2>1. PICK k \in 1 .. Len(q) : y = q[k]
      BY <1>1 DEF SeqRange
    <2>2. k \in 1 .. Len(q) + 1 /\ k # Len(q) + 1
      BY <1>1
    <2> QED BY <1>2, <2>1, <2>2 DEF SeqRange
  <1>5. x \in SeqRange(Append(q, x))
    <2>1. Len(q) + 1 \in 1 .. Len(q) + 1
      BY <1>1
    <2> QED BY <1>2, <2>1 DEF SeqRange
  <1> QED BY <1>1, <1>2, <1>3, <1>4, <1>5

\* Told once of each schedule.
Once(told) == \A j, k \in DOMAIN told : told[j][2] = told[k][2] => j = k

\* One telling more, of a schedule of which nothing was told.
LEMMA OnceMore ==
  ASSUME NEW q \in Seq(Tellings), Once(q), NEW x \in Tellings, \A y \in SeqRange(q) : y[2] # x[2]
  PROVE  Once(Append(q, x)) /\ SeqRange(Append(q, x)) = SeqRange(q) \cup {x} /\ Append(q, x) \in Seq(Tellings)
  <1>1. /\ SeqRange(Append(q, x)) = SeqRange(q) \cup {x}
        /\ DOMAIN q = 1 .. Len(q) /\ Len(q) \in Nat
        /\ DOMAIN Append(q, x) = 1 .. Len(q) + 1
        /\ \A k \in 1 .. Len(q) : Append(q, x)[k] = q[k]
        /\ Append(q, x)[Len(q) + 1] = x
    BY Appended
  <1>2. \A k \in 1 .. Len(q) : q[k][2] # x[2]
    BY <1>1 DEF SeqRange
  <1> DEFINE r == Append(q, x)
  <1> HIDE DEF r
  <1>3. ASSUME NEW j \in 1 .. Len(q) + 1, NEW k \in 1 .. Len(q) + 1, r[j][2] = r[k][2]
        PROVE  j = k
    <2>1. CASE j \in 1 .. Len(q) /\ k \in 1 .. Len(q)
      BY <1>1, <1>3, <2>1 DEF Once, r
    <2>2. CASE j = Len(q) + 1 \/ k = Len(q) + 1
      <3>1. \A l \in 1 .. Len(q) : r[l][2] # x[2]
        BY <1>1, <1>2 DEF r
      <3>2. r[Len(q) + 1][2] = x[2]
        BY <1>1 DEF r
      <3>3. \A l \in 1 .. Len(q) + 1 : l \in 1 .. Len(q) \/ l = Len(q) + 1
        BY <1>1
      <3> QED BY <1>3, <2>2, <3>1, <3>2, <3>3
    <2> QED BY <1>1, <2>1, <2>2
  <1>4. Once(r)
    BY <1>1, <1>3 DEF Once, r
  <1> QED BY <1>1, <1>4 DEF r

\* Where the elements that are selected were: once each, and all that are in the set.
LEMMA SelectedPlaces ==
  ASSUME NEW those, NEW q, Len(q) \in Nat
  PROVE  LET r == Selected(q, those)
         IN  \E e \in [1 .. Len(r) -> 1 .. Len(q)] :
               /\ r \in Seq(those)
               /\ \A k \in 1 .. Len(r) : r[k] = q[e[k]]
               /\ \A k, l \in 1 .. Len(r) : e[k] = e[l] => k = l
               /\ \A j \in 1 .. Len(q) : q[j] \in those => \E k \in 1 .. Len(r) : e[k] = j
  <1> DEFINE Places(n, r) ==
               /\ r \in Seq(those)
               /\ \E e \in [1 .. Len(r) -> 1 .. n] :
                    /\ \A k \in 1 .. Len(r) : r[k] = q[e[k]]
                    /\ \A k, l \in 1 .. Len(r) : e[k] = e[l] => k = l
                    /\ \A j \in 1 .. n : q[j] \in those => \E k \in 1 .. Len(r) : e[k] = j
  <1>1. PICK f : /\ f[0] = <<>> /\ f[Len(q)] = Selected(q, those)
                 /\ \A n \in 1 .. Len(q) : f[n] = IF q[n] \in those THEN Append(f[n - 1], q[n]) ELSE f[n - 1]
    BY SelectedFold
  <1> DEFINE T == {n \in 0 .. Len(q) : Places(n, f[n])}
  <1>2. 0 \in T
    <2> DEFINE none == <<>>
               e == [k \in {} |-> 0]
    <2>1. none \in Seq(those) /\ Len(none) = 0 /\ 1 .. 0 = {}
      OBVIOUS
    <2> HIDE DEF none
    <2>2. e \in [1 .. Len(none) -> 1 .. 0]
      BY <2>1
    <2> HIDE DEF e
    <2>3. /\ \A k \in 1 .. Len(none) : none[k] = q[e[k]]
          /\ \A k, l \in 1 .. Len(none) : e[k] = e[l] => k = l
          /\ \A j \in 1 .. 0 : q[j] \in those => \E k \in 1 .. Len(none) : e[k] = j
      BY <2>1
    <2>4. Places(0, none)
      BY <2>1, <2>2, <2>3
    <2> HIDE DEF Places
    <2>5. Places(0, f[0])
      BY <1>1, <2>4 DEF none
    <2> QED BY <2>5
  <1>3. ASSUME NEW n \in 0 .. Len(q), n < Len(q), n \in T
        PROVE  n + 1 \in T
    <2>1. n + 1 \in 1 .. Len(q) /\ (n + 1) - 1 = n /\ n \in Nat
      BY <1>3
    <2>2. f[n + 1] = IF q[n + 1] \in those THEN Append(f[n], q[n + 1]) ELSE f[n]
      BY <1>1, <2>1
    <2> DEFINE r == f[n]
               N == Len(r)
    <2>3. r \in Seq(those) /\ N \in Nat
      BY <1>3
    <2>4. PICK e \in [1 .. N -> 1 .. n] :
             /\ \A k \in 1 .. N : r[k] = q[e[k]]
             /\ \A k, l \in 1 .. N : e[k] = e[l] => k = l
             /\ \A j \in 1 .. n : q[j] \in those => \E k \in 1 .. N : e[k] = j
      BY <1>3
    <2> HIDE DEF r, T
    <2>5. CASE q[n + 1] \in those
      <3> DEFINE t == Append(r, q[n + 1])
                 g == [k \in 1 .. N + 1 |-> IF k = N + 1 THEN n + 1 ELSE e[k]]
      <3>1. f[n + 1] = t
        BY <2>2, <2>5 DEF r
      <3>2. t \in Seq(those) /\ Len(t) = N + 1
        BY <2>3, <2>5
      <3>3. t[N + 1] = q[n + 1] /\ \A k \in 1 .. N : t[k] = r[k]
        BY <2>3, Appended
      <3> HIDE DEF t
      <3> HIDE DEF N
      <3>4. \A k \in 1 .. N + 1 : k \in 1 .. N \/ k = N + 1
        BY <2>3
      <3>5. \A k \in 1 .. N : k # N + 1 /\ k \in 1 .. N + 1 /\ e[k] \in 1 .. n
        BY <2>3, <2>4
      <3>6. g \in [1 .. N + 1 -> 1 .. n + 1]
        BY <2>1, <2>3, <3>4, <3>5
      <3>7. g[N + 1] = n + 1 /\ \A k \in 1 .. N : g[k] = e[k]
        BY <2>3, <3>5
      <3> HIDE DEF g
      <3>8. \A k \in 1 .. N + 1 : t[k] = q[g[k]]
        BY <2>4, <3>3, <3>4, <3>7
      <3>9. \A k, l \in 1 .. N + 1 : g[k] = g[l] => k = l
        <4>1. \A k \in 1 .. N : g[k] # n + 1
          BY <2>1, <3>5, <3>7
        <4> QED BY <2>4, <3>4, <3>7, <4>1
      <3>10. ASSUME NEW j \in 1 .. n + 1, q[j] \in those
             PROVE  \E k \in 1 .. N + 1 : g[k] = j
        <4>1. CASE j = n + 1
          <5>1. N + 1 \in 1 .. N + 1
            BY <2>3
          <5> QED BY <3>7, <4>1, <5>1
        <4>2. CASE j # n + 1
          <5>1. j \in 1 .. n
            BY <2>1, <4>2
          <5>2. PICK k \in 1 .. N : e[k] = j
            BY <2>4, <3>10, <5>1
          <5> QED BY <3>5, <3>7, <5>2
        <4> QED BY <4>1, <4>2
      <3>11. Places(n + 1, t)
        BY <3>2, <3>6, <3>8, <3>9, <3>10
      <3> HIDE DEF Places
      <3>12. Places(n + 1, f[n + 1])
        BY <3>1, <3>11
      <3> QED BY <2>1, <3>12 DEF T
    <2>6. CASE q[n + 1] \notin those
      <3>1. f[n + 1] = r
        BY <2>2, <2>6 DEF r
      <3>2. e \in [1 .. N -> 1 .. n + 1]
        BY <2>1, <2>4
      <3>3. \A j \in 1 .. n + 1 : q[j] \in those => j \in 1 .. n
        BY <2>1, <2>6
      <3>4. Places(n + 1, r)
        BY <2>3, <2>4, <3>2, <3>3
      <3> HIDE DEF Places
      <3>5. Places(n + 1, f[n + 1])
        BY <3>1, <3>4
      <3> QED BY <2>1, <3>5 DEF T
    <2> QED BY <2>5, <2>6
  <1> HIDE DEF T
  <1>4. Len(q) \in T
    BY <1>2, <1>3, Induct
  <1>5. Places(Len(q), Selected(q, those))
    <2> HIDE DEF Places
    <2>1. Places(Len(q), f[Len(q)])
      BY <1>4 DEF T
    <2> QED BY <1>1, <2>1
  <1> QED BY <1>5

\* Each schedule has an id of its own.
OneEach(p) == \A j, k \in DOMAIN p.schedules : p.schedules[j].id = p.schedules[k].id => j = k

\* The next schedule has the id of none before it.
LEMMA NextIsAnother ==
  ASSUME NEW p, OneEach(p), NEW N \in Nat, DOMAIN p.schedules = 1 .. N, NEW n \in Nat, n + 1 \in 1 .. N
  PROVE  \A k \in 1 .. n : p.schedules[k].id # p.schedules[n + 1].id
  <1>1. ASSUME NEW k \in 1 .. n
        PROVE  k \in DOMAIN p.schedules /\ n + 1 \in DOMAIN p.schedules /\ k # n + 1
    OBVIOUS
  <1> QED BY <1>1 DEF OneEach

\* What became of a schedule of the program in a pass: its memory was m and is n.
Became(d, m, n, told) ==
  \/ Over(m) /\ n = Ended(m) /\ <<"ended", d.id>> \in SeqRange(told)
  \/ StartsNow(m, d) /\ n = Started(m, d) /\ <<"started", d.id>> \in SeqRange(told)
  \/ /\ ~Over(m) /\ \E x : n = [m EXCEPT !.missed = x]
     /\ \A y \in SeqRange(told) : y[2] # d.id

\* The turn of one schedule, of which nothing was told yet.
LEMMA TurnTells ==
  ASSUME NEW s, Memory(s), NEW t, NEW d, d.id \in Sids, Turn(s, t, d),
         Once(s.told), \A y \in SeqRange(s.told) : y[2] # d.id
  PROVE  /\ Once(t.told) /\ SeqRange(s.told) \subseteq SeqRange(t.told)
         /\ \A y \in SeqRange(t.told) : y \in SeqRange(s.told) \/ y[2] = d.id
         /\ t.orphans = s.orphans /\ (s.due => t.due)
         /\ t.due \/ (t.scheds = s.scheds /\ t.told = s.told)
         /\ \A i \in Sids : i # d.id => t.scheds[i] = s.scheds[i]
         /\ Became(d, s.scheds[d.id], t.scheds[d.id], t.told)
  <1> DEFINE m == s.scheds[d.id]
  <1>1. s.scheds \in [Sids -> Memories] /\ s.told \in Seq(Tellings)
    BY DEF Memory
  <1>2. ASSUME NEW what \in {"ended", "started"}, NEW n, Turns(s, t, what, d.id, n)
        PROVE  /\ Once(t.told) /\ SeqRange(t.told) = SeqRange(s.told) \cup {<<what, d.id>>}
               /\ t.orphans = s.orphans /\ t.due /\ t.scheds[d.id] = n
               /\ \A i \in Sids : i # d.id => t.scheds[i] = s.scheds[i]
    <2>1. <<what, d.id>> \in Tellings /\ <<what, d.id>>[2] = d.id
      BY DEF Tellings
    <2>2. Once(t.told) /\ SeqRange(t.told) = SeqRange(s.told) \cup {<<what, d.id>>}
      BY <1>1, <1>2, <2>1, OnceMore DEF Turns
    <2> QED BY <1>1, <1>2, <2>2 DEF Turns
  <1>3. CASE Over(m) /\ Turns(s, t, "ended", d.id, Ended(m))
    BY <1>2, <1>3 DEF Became
  <1>4. CASE StartsNow(m, d) /\ Turns(s, t, "started", d.id, Started(m, d))
    BY <1>2, <1>4 DEF Became
  <1>5. CASE /\ ~Over(m)
             /\ \E x : t.scheds = [s.scheds EXCEPT ![d.id] = [m EXCEPT !.missed = x]]
             /\ t.orphans = s.orphans /\ t.told = s.told /\ (s.due => t.due) /\ (t.scheds = s.scheds \/ t.due)
    <2>1. PICK x : t.scheds = [s.scheds EXCEPT ![d.id] = [m EXCEPT !.missed = x]]
      BY <1>5
    <2>2. t.scheds[d.id] = [m EXCEPT !.missed = x] /\ \A i \in Sids : i # d.id => t.scheds[i] = s.scheds[i]
      BY <1>1, <2>1
    <2> HIDE DEF m
    <2>3. Became(d, m, t.scheds[d.id], t.told)
      BY <1>5, <2>2 DEF Became
    <2> QED BY <1>5, <2>2, <2>3 DEF m
  <1> QED BY <1>3, <1>4, <1>5 DEF Turn

\* What became of a schedule, after the turn of another.
LEMMA StillBecame ==
  ASSUME NEW d, NEW m, NEW n, NEW told, NEW more, Became(d, m, n, told), SeqRange(told) \subseteq SeqRange(more),
         \A y \in SeqRange(more) : y \in SeqRange(told) \/ y[2] # d.id
  PROVE  Became(d, m, n, more)
  BY DEF Became

\* The schedules of the program take their turns.
LEMMA StartsAndEndsTurn ==
  ASSUME NEW s, Memory(s), OfProgram(P, s), prog \in DOMAIN Program, now \in Nat, OneEach(P), s.told = <<>>
  PROVE  LET t == StartsAndEnds(s)
         IN  /\ Keeps(P, s, t) /\ t.orphans = s.orphans /\ (s.due => t.due)
             /\ t.due \/ (t.scheds = s.scheds /\ t.told = <<>>)
             /\ Once(t.told) /\ \A y \in SeqRange(t.told) : y[2] \in Ids(P)
             /\ \A i \in Sids \ Ids(P) : t.scheds[i] = s.scheds[i]
             /\ \A d \in SeqRange(P.schedules) : Became(d, s.scheds[d.id], t.scheds[d.id], t.told)
  <1> DEFINE N == Len(P.schedules)
             q == P.schedules
  <1>1. N \in Nat /\ DOMAIN q = 1 .. N /\ \A n \in 1 .. N : q[n] \in SeqRange(q)
    BY ProgramFacts DEF IsProgram, SeqRange
  <1>2. PICK f : /\ f[0] = s /\ f[N] = StartsAndEnds(s)
                 /\ \A n \in 1 .. N : f[n] = RunSchedule(f[n - 1], q[n])
    BY <1>1, SchedulesFold
  <1>3. \A d \in SeqRange(q) : d.id \in Sids /\ d.id \in Ids(P)
    BY ProgramFacts, ScheduleFacts
  <1> DEFINE Turned(n, t) ==
               /\ Keeps(P, s, t) /\ t.orphans = s.orphans /\ (s.due => t.due)
               /\ t.due \/ (t.scheds = s.scheds /\ t.told = <<>>)
               /\ Once(t.told) /\ \A y \in SeqRange(t.told) : \E k \in 1 .. n : y[2] = q[k].id
               /\ \A i \in Sids : (\A k \in 1 .. n : q[k].id # i) => t.scheds[i] = s.scheds[i]
               /\ \A k \in 1 .. n : Became(q[k], s.scheds[q[k].id], t.scheds[q[k].id], t.told)
             T == {n \in 0 .. N : Turned(n, f[n])}
  <1>4. 0 \in T
    <2>1. Keeps(P, s, s)
      BY DEF Keeps
    <2>2. Once(<<>>) /\ SeqRange(<<>>) = {}
      BY DEF Once, SeqRange
    <2> HIDE DEF q
    <2>3. Turned(0, s)
      BY <2>1, <2>2
    <2> HIDE DEF Turned
    <2>4. Turned(0, f[0])
      BY <1>2, <2>3
    <2> QED BY <1>1, <2>4
  <1>5. ASSUME NEW n \in 0 .. N, n < N, n \in T
        PROVE  n + 1 \in T
    <2> DEFINE a == f[n]
               b == f[n + 1]
               d == q[n + 1]
    <2>1. n + 1 \in 1 .. N /\ (n + 1) - 1 = n /\ n \in Nat
      BY <1>1, <1>5
    <2>2. b = RunSchedule(a, d) /\ d \in SeqRange(q) /\ d.id \in Sids
      BY <1>1, <1>2, <1>3, <2>1
    <2>3. Turned(n, a)
      BY <1>5
    <2>4. \A k \in 1 .. n : q[k].id # d.id
      BY <1>1, <2>1, NextIsAnother
    <2> HIDE DEF T
    <2>5. Memory(a) /\ OfProgram(P, a) /\ a.scheds[d.id] = s.scheds[d.id]
      BY <2>2, <2>3, <2>4 DEF Keeps
    <2>6. Keeps(P, a, b) /\ Turn(a, b, d)
      BY <2>2, <2>5, RunScheduleKeeps
    <2>7. \A y \in SeqRange(a.told) : y[2] # d.id
      BY <2>3, <2>4
    <2> HIDE DEF a, b, d
    <2>8. Memory(a) /\ Once(a.told) /\ Turn(a, b, d) /\ d.id \in Sids
      BY <2>2, <2>3, <2>5, <2>6 DEF d
    <2> HIDE DEF Turned
    <2>9. /\ Once(b.told) /\ SeqRange(a.told) \subseteq SeqRange(b.told)
          /\ \A y \in SeqRange(b.told) : y \in SeqRange(a.told) \/ y[2] = d.id
          /\ b.orphans = a.orphans /\ (a.due => b.due)
          /\ b.due \/ (b.scheds = a.scheds /\ b.told = a.told)
          /\ \A i \in Sids : i # d.id => b.scheds[i] = a.scheds[i]
          /\ Became(d, a.scheds[d.id], b.scheds[d.id], b.told)
      BY <2>7, <2>8, TurnTells
    <2> USE DEF Turned
    <2>10. \A k \in 1 .. n + 1 : k \in 1 .. n \/ k = n + 1
      BY <2>1
    <2>11. \A k \in 1 .. n : k \in 1 .. n + 1 /\ q[k].id \in Sids
      BY <1>1, <1>3, <2>1
    <2>12. n + 1 \in 1 .. n + 1 /\ d = q[n + 1]
      BY <2>1 DEF d
    <2> HIDE DEF q
    <2>13. Keeps(P, s, b)
      BY <2>3, <2>6, KeepsTogether
    <2>14. \A y \in SeqRange(b.told) : \E k \in 1 .. n + 1 : y[2] = q[k].id
      BY <2>3, <2>9, <2>11, <2>12
    <2>15. \A i \in Sids : (\A k \in 1 .. n + 1 : q[k].id # i) => b.scheds[i] = s.scheds[i]
      BY <2>3, <2>9, <2>11, <2>12
    <2>16. ASSUME NEW k \in 1 .. n + 1
           PROVE  Became(q[k], s.scheds[q[k].id], b.scheds[q[k].id], b.told)
      <3>1. CASE k = n + 1
        BY <2>5, <2>9, <2>12, <3>1
      <3>2. CASE k \in 1 .. n
        <4>1. q[k].id # d.id /\ q[k].id \in Sids
          BY <2>4, <2>11, <3>2
        <4>2. Became(q[k], s.scheds[q[k].id], a.scheds[q[k].id], a.told)
          BY <2>3, <3>2
        <4>3. b.scheds[q[k].id] = a.scheds[q[k].id]
          BY <2>9, <4>1
        <4>4. Became(q[k], s.scheds[q[k].id], a.scheds[q[k].id], b.told)
          BY <2>9, <4>1, <4>2, StillBecame
        <4> QED BY <4>3, <4>4
      <3> QED BY <2>10, <3>1, <3>2
    <2>17. Turned(n + 1, b)
      BY <2>3, <2>9, <2>13, <2>14, <2>15, <2>16
    <2> HIDE DEF Turned
    <2> QED BY <1>1, <2>1, <2>17 DEF T, b
  <1> HIDE DEF T
  <1>6. N \in T
    BY <1>1, <1>4, <1>5, Induct
  <1>7. Turned(N, StartsAndEnds(s))
    BY <1>2, <1>6 DEF T
  <1> DEFINE t == StartsAndEnds(s)
  <1> HIDE DEF t
  <1>8. \A y \in SeqRange(t.told) : y[2] \in Ids(P)
    BY <1>1, <1>3, <1>7 DEF t
  <1>9. \A i \in Sids \ Ids(P) : t.scheds[i] = s.scheds[i]
    BY <1>1, <1>3, <1>7 DEF t
  <1>10. \A d \in SeqRange(P.schedules) : \E k \in 1 .. N : d = q[k]
    BY <1>1 DEF SeqRange
  <1> HIDE DEF q
  <1>11. \A d \in SeqRange(P.schedules) : Became(d, s.scheds[d.id], t.scheds[d.id], t.told)
    BY <1>7, <1>10 DEF t
  <1> QED BY <1>7, <1>8, <1>9, <1>11 DEF t

\* Ends that waited are told, once each.
LEMMA EndOrphansTell ==
  ASSUME NEW s, Memory(s), OfProgram(P, s), prog \in DOMAIN Program, NEW q \in Seq(Orphans), Once(s.told),
         \A j, k \in 1 .. Len(q) : q[j].announce /\ q[k].announce /\ q[j].id = q[k].id => j = k,
         \A k \in 1 .. Len(q) : q[k].announce => \A y \in SeqRange(s.told) : y[2] # q[k].id
  PROVE  LET t == EndOrphans(s, q)
         IN  /\ Keeps(P, s, t) /\ t.scheds = s.scheds /\ t.orphans = s.orphans /\ (s.due => t.due)
             /\ t.due \/ t.told = s.told
             /\ Once(t.told) /\ SeqRange(s.told) \subseteq SeqRange(t.told)
             /\ \A y \in SeqRange(t.told) :
                  y \in SeqRange(s.told) \/ \E k \in 1 .. Len(q) : q[k].announce /\ y = <<"ended", q[k].id>>
             /\ \A k \in 1 .. Len(q) : q[k].announce => <<"ended", q[k].id>> \in SeqRange(t.told)
  <1> DEFINE N == Len(q)
  <1>1. N \in Nat /\ \A n \in 1 .. N : q[n] \in Orphans
    OBVIOUS
  <1>2. PICK f : /\ f[0] = s /\ f[N] = EndOrphans(s, q)
                 /\ \A n \in 1 .. N : f[n] = EndOrphan(f[n - 1], q[n])
    BY <1>1, EndOrphansFold
  <1> DEFINE Tale(n, t) ==
               /\ Keeps(P, s, t) /\ t.scheds = s.scheds /\ t.orphans = s.orphans /\ (s.due => t.due)
               /\ t.due \/ t.told = s.told
               /\ Once(t.told) /\ SeqRange(s.told) \subseteq SeqRange(t.told)
               /\ \A y \in SeqRange(t.told) :
                    y \in SeqRange(s.told) \/ \E k \in 1 .. n : q[k].announce /\ y = <<"ended", q[k].id>>
               /\ \A k \in 1 .. n : q[k].announce => <<"ended", q[k].id>> \in SeqRange(t.told)
             T == {n \in 0 .. N : Tale(n, f[n])}
  <1>3. 0 \in T
    <2>1. Keeps(P, s, s)
      BY DEF Keeps
    <2>2. Tale(0, s)
      BY <2>1
    <2> HIDE DEF Tale
    <2>3. Tale(0, f[0])
      BY <1>2, <2>2
    <2> QED BY <1>1, <2>3
  <1>4. ASSUME NEW n \in 0 .. N, n < N, n \in T
        PROVE  n + 1 \in T
    <2> DEFINE a == f[n]
               b == f[n + 1]
               o == q[n + 1]
    <2>1. n + 1 \in 1 .. N /\ (n + 1) - 1 = n /\ n \in Nat
      BY <1>1, <1>4
    <2>2. b = EndOrphan(a, o) /\ o \in Orphans
      BY <1>1, <1>2, <2>1
    <2>3. Tale(n, a)
      BY <1>4
    <2> HIDE DEF T
    <2>4. Memory(a) /\ OfProgram(P, a)
      BY <2>3 DEF Keeps
    <2>5. /\ Keeps(P, a, b) /\ b.scheds = a.scheds /\ b.orphans = a.orphans /\ b.due
          /\ b.told = IF o.announce THEN Append(a.told, <<"ended", o.id>>) ELSE a.told
      BY <2>2, <2>4, EndOrphanKeeps
    <2>6. \A k \in 1 .. n : k \in 1 .. N /\ k \in 1 .. n + 1 /\ k # n + 1
      BY <1>1, <2>1
    <2>7. \A k \in 1 .. n + 1 : k \in 1 .. n \/ k = n + 1
      BY <2>1
    <2>8. n + 1 \in 1 .. n + 1 /\ o = q[n + 1]
      BY <2>1
    <2> HIDE DEF a, b
    <2>9. Keeps(P, s, b)
      BY <2>3, <2>5, KeepsTogether
    <2>10. CASE ~o.announce
      <3>1. Tale(n + 1, b)
        <4> HIDE DEF o
        <4> QED BY <2>3, <2>5, <2>6, <2>7, <2>8, <2>9, <2>10
      <3> HIDE DEF Tale
      <3> QED BY <1>1, <2>1, <3>1 DEF T, b
    <2>11. CASE o.announce
      <3> DEFINE x == <<"ended", o.id>>
      <3>1. x \in Tellings /\ x[2] = o.id
        BY <2>2 DEF Tellings, Orphans
      <3>2. \A y \in SeqRange(a.told) : y[2] # x[2]
        <4>1. ASSUME NEW k \in 1 .. n, q[k].announce, q[k].id = o.id
              PROVE  FALSE
          BY <2>1, <2>6, <2>11, <4>1
        <4>2. \A y \in SeqRange(s.told) : y[2] # o.id
          BY <2>1, <2>11
        <4>3. \A i : <<"ended", i>>[2] = i
          OBVIOUS
        <4> HIDE DEF o
        <4> QED BY <2>3, <3>1, <4>1, <4>2, <4>3
      <3> HIDE DEF x, o
      <3>3. Once(b.told) /\ SeqRange(b.told) = SeqRange(a.told) \cup {x}
        <4>1. a.told \in Seq(Tellings) /\ Once(a.told) /\ b.told = Append(a.told, x)
          BY <2>3, <2>4, <2>5, <2>11 DEF Memory, x
        <4> HIDE DEF Tale
        <4> QED BY <3>1, <3>2, <4>1, OnceMore
      <3>4. \A y \in SeqRange(b.told) :
              y \in SeqRange(s.told) \/ \E k \in 1 .. n + 1 : q[k].announce /\ y = <<"ended", q[k].id>>
        BY <2>3, <2>6, <2>8, <2>11, <3>3 DEF x
      <3>5. \A k \in 1 .. n + 1 : q[k].announce => <<"ended", q[k].id>> \in SeqRange(b.told)
        BY <2>3, <2>7, <2>8, <3>3 DEF x
      <3>6. Tale(n + 1, b)
        BY <2>3, <2>5, <2>9, <3>3, <3>4, <3>5
      <3> HIDE DEF Tale
      <3> QED BY <1>1, <2>1, <3>6 DEF T, b
    <2> QED BY <2>10, <2>11
  <1> HIDE DEF T
  <1>5. N \in T
    BY <1>1, <1>3, <1>4, Induct
  <1>6. Tale(N, EndOrphans(s, q))
    BY <1>2, <1>5 DEF T
  <1> QED BY <1>6

\* A schedule has one end that waits at most, and none when it is in the program.
Apart(s) ==
  \A i \in Sids : (\A j, k \in Announced(s, i) : j = k) /\ (i \in Ids(P) => Announced(s, i) = {})

\* What a full pass does with the schedules, and with the ends that wait.
Late(s) == {o \in SeqRange(s.orphans) : now >= o.end}
Scheduled(s, t) ==
  /\ t.orphans = Selected(s.orphans, SeqRange(s.orphans) \ Late(s))
  /\ Once(t.told) /\ (s.due => t.due)
  /\ t.due \/ (t.scheds = s.scheds /\ t.told = <<>>)
  /\ \A i \in Sids \ Ids(P) : t.scheds[i] = s.scheds[i]
  /\ \A d \in SeqRange(P.schedules) : Became(d, s.scheds[d.id], t.scheds[d.id], t.told)
  /\ \A y \in SeqRange(t.told) : y[2] \in Ids(P) \/ \E o \in Late(s) : o.announce /\ y = <<"ended", o.id>>
  /\ \A o \in Late(s) : o.announce => <<"ended", o.id>> \in SeqRange(t.told)

\* The ends that are due are of schedules apart.
LEMMA DueApart ==
  ASSUME NEW s, Memory(s), Apart(s)
  PROVE  LET q == Selected(s.orphans, Late(s))
         IN  /\ q \in Seq(Late(s)) /\ q \in Seq(Orphans)
             /\ \A j, k \in 1 .. Len(q) : q[j].announce /\ q[k].announce /\ q[j].id = q[k].id => j = k
             /\ \A k \in 1 .. Len(q) : q[k].announce => q[k].id \notin Ids(P)
             /\ \A o \in Late(s) : \E k \in 1 .. Len(q) : q[k] = o
  <1> DEFINE p == s.orphans
             q == Selected(p, Late(s))
  <1>1. p \in Seq(Orphans) /\ Len(p) \in Nat /\ DOMAIN p = 1 .. Len(p)
    BY DEF Memory
  <1>2. PICK e \in [1 .. Len(q) -> 1 .. Len(p)] :
          /\ q \in Seq(Late(s))
          /\ \A k \in 1 .. Len(q) : q[k] = p[e[k]]
          /\ \A k, l \in 1 .. Len(q) : e[k] = e[l] => k = l
          /\ \A j \in 1 .. Len(p) : p[j] \in Late(s) => \E k \in 1 .. Len(q) : e[k] = j
    BY <1>1, SelectedPlaces
  <1>3. Late(s) \subseteq Orphans /\ \A o \in Late(s) : \E j \in 1 .. Len(p) : o = p[j]
    BY <1>1 DEF Late, SeqRange
  <1>4. q \in Seq(Orphans)
    <2> HIDE DEF q
    <2> QED BY <1>2, <1>3
  <1> HIDE DEF q
  <1>5. ASSUME NEW k \in 1 .. Len(q), q[k].announce
        PROVE  e[k] \in Announced(s, q[k].id) /\ q[k].id \in Sids
    <2>1. e[k] \in DOMAIN p /\ p[e[k]] \in Orphans
      BY <1>1, <1>2
    <2>2. q[k] = p[e[k]]
      BY <1>2
    <2> QED BY <1>5, <2>1, <2>2 DEF Announced, Orphans
  <1>6. ASSUME NEW j \in 1 .. Len(q), NEW k \in 1 .. Len(q), q[j].announce, q[k].announce, q[j].id = q[k].id
        PROVE  j = k
    <2>1. e[j] = e[k]
      BY <1>5, <1>6 DEF Apart
    <2> QED BY <1>2, <2>1
  <1>7. \A k \in 1 .. Len(q) : q[k].announce => q[k].id \notin Ids(P)
    BY <1>5 DEF Apart
  <1>8. ASSUME NEW o \in Late(s)
        PROVE  \E k \in 1 .. Len(q) : q[k] = o
    <2>1. PICK j \in 1 .. Len(p) : o = p[j]
      BY <1>3
    <2>2. PICK k \in 1 .. Len(q) : e[k] = j
      BY <1>2, <1>8, <2>1
    <2> QED BY <1>2, <2>1, <2>2
  <1> QED BY <1>2, <1>4, <1>6, <1>7, <1>8 DEF q

\* The schedules take their turns, and ends that waited are made.
LEMMA RunSchedulesScheduled ==
  ASSUME NEW s, Memory(s), OfProgram(P, s), prog \in DOMAIN Program, now \in Nat, OneEach(P), s.told = <<>>, Apart(s)
  PROVE  Scheduled(s, RunSchedules(s))
  <1> DEFINE r == StartsAndEnds(s)
             due == {o \in SeqRange(r.orphans) : now >= o.end}
             wait == SeqRange(r.orphans) \ due
             t == [r EXCEPT !.orphans = Selected(r.orphans, wait)]
             q == Selected(r.orphans, due)
             u == EndOrphans(t, q)
  <1>1. /\ Keeps(P, s, r) /\ r.orphans = s.orphans /\ (s.due => r.due)
        /\ r.due \/ (r.scheds = s.scheds /\ r.told = <<>>)
        /\ Once(r.told) /\ \A y \in SeqRange(r.told) : y[2] \in Ids(P)
        /\ \A i \in Sids \ Ids(P) : r.scheds[i] = s.scheds[i]
        /\ \A d \in SeqRange(P.schedules) : Became(d, s.scheds[d.id], r.scheds[d.id], r.told)
    BY StartsAndEndsTurn
  <1>2. RunSchedules(s) = u
    BY DEF RunSchedules
  <1> HIDE DEF r
  <1>3. due = Late(s) /\ wait = SeqRange(s.orphans) \ Late(s)
    BY <1>1 DEF Late
  <1> HIDE DEF due, wait
  <1>4. q = Selected(s.orphans, Late(s))
    BY <1>1, <1>3
  <1>5. /\ q \in Seq(Late(s)) /\ q \in Seq(Orphans)
        /\ \A j, k \in 1 .. Len(q) : q[j].announce /\ q[k].announce /\ q[j].id = q[k].id => j = k
        /\ \A k \in 1 .. Len(q) : q[k].announce => q[k].id \notin Ids(P)
        /\ \A o \in Late(s) : \E k \in 1 .. Len(q) : q[k] = o
    <2> HIDE DEF q
    <2> QED BY <1>4, DueApart
  <1> HIDE DEF q
  <1>6. /\ Memory(t) /\ OfProgram(P, t) /\ t.scheds = r.scheds /\ t.told = r.told /\ t.due = r.due
        /\ t.orphans = Selected(s.orphans, SeqRange(s.orphans) \ Late(s))
    <2>1. Len(s.orphans) \in Nat /\ SeqRange(s.orphans) \subseteq Orphans
      BY DEF Memory, SeqRange
    <2> DEFINE waiting == Selected(r.orphans, wait)
    <2>2. waiting = Selected(s.orphans, wait) /\ waiting \in Seq(wait)
      BY <1>1, <2>1, SelectedType
    <2> HIDE DEF waiting
    <2>3. waiting \in Seq(Orphans)
      BY <1>3, <2>1, <2>2
    <2>4. t = [r EXCEPT !.orphans = waiting]
      BY DEF waiting
    <2> HIDE DEF t
    <2> QED BY <1>1, <1>3, <2>2, <2>3, <2>4, Fields DEF Keeps, Memory, OfProgram
  <1> HIDE DEF t
  <1>7. \A k \in 1 .. Len(q) : q[k].announce => \A y \in SeqRange(t.told) : y[2] # q[k].id
    BY <1>1, <1>5, <1>6
  <1>8. /\ Keeps(P, t, u) /\ u.scheds = t.scheds /\ u.orphans = t.orphans /\ (t.due => u.due)
        /\ u.due \/ u.told = t.told
        /\ Once(u.told) /\ SeqRange(t.told) \subseteq SeqRange(u.told)
        /\ \A y \in SeqRange(u.told) :
             y \in SeqRange(t.told) \/ \E k \in 1 .. Len(q) : q[k].announce /\ y = <<"ended", q[k].id>>
        /\ \A k \in 1 .. Len(q) : q[k].announce => <<"ended", q[k].id>> \in SeqRange(u.told)
    BY <1>1, <1>5, <1>6, <1>7, EndOrphansTell
  <1> HIDE DEF u
  <1>9. \A k \in 1 .. Len(q) : q[k] \in Late(s)
    BY <1>5
  <1>10. ASSUME NEW d \in SeqRange(P.schedules)
         PROVE  Became(d, s.scheds[d.id], u.scheds[d.id], u.told)
    <2>1. d.id \in Ids(P)
      BY DEF Ids
    <2>2. ASSUME NEW y \in SeqRange(u.told)
          PROVE  y \in SeqRange(r.told) \/ y[2] # d.id
      <3>1. CASE y \in SeqRange(t.told)
        BY <1>6, <3>1
      <3>2. CASE \E k \in 1 .. Len(q) : q[k].announce /\ y = <<"ended", q[k].id>>
        BY <1>5, <2>1, <3>2
      <3> QED BY <1>8, <3>1, <3>2
    <2>3. SeqRange(r.told) \subseteq SeqRange(u.told)
      BY <1>6, <1>8
    <2>4. Became(d, s.scheds[d.id], r.scheds[d.id], u.told)
      BY <1>1, <2>2, <2>3, StillBecame
    <2> QED BY <1>6, <1>8, <2>4
  <1>11. \A y \in SeqRange(u.told) : y[2] \in Ids(P) \/ \E o \in Late(s) : o.announce /\ y = <<"ended", o.id>>
    BY <1>1, <1>6, <1>8, <1>9
  <1>12. \A o \in Late(s) : o.announce => <<"ended", o.id>> \in SeqRange(u.told)
    BY <1>5, <1>8
  <1>13. u.due \/ (u.scheds = s.scheds /\ u.told = <<>>)
    BY <1>1, <1>6, <1>8
  <1>14. Scheduled(s, u)
    BY <1>1, <1>6, <1>8, <1>10, <1>11, <1>12, <1>13 DEF Scheduled
  <1> QED BY <1>2, <1>14

\* Nothing else in a pass happens to a schedule.
LEMMA ScheduledBetween ==
  ASSUME NEW p, NEW s, NEW t, s.scheds = t.scheds, s.orphans = t.orphans, s.due => t.due,
         NEW u, Scheduled(t, u), NEW v, Same(p, u, v)
  PROVE  Scheduled(s, v)
  BY DEF Scheduled, Same, Late

\* A pass.
LEMMA EvaluatedScheduled ==
  ASSUME NEW s, Memory(s), OfProgram(P, s), prog \in DOMAIN Program, now \in Nat,
         queue \in Seq(Queueable), OneEach(P),
         Apart(s)
  PROVE  LET t == Evaluated(s)
         IN  /\ Keeps(P, s, t)
             /\ s.booted => Scheduled(s, t)
             /\ ~s.booted => t.scheds = s.scheds /\ t.orphans = s.orphans /\ t.told = <<>> /\ (s.due => t.due)
  <1> DEFINE a == Sampled(s)
  <1>1. /\ Keeps(P, s, a) /\ a.scheds = s.scheds /\ a.orphans = s.orphans /\ a.due = s.due
        /\ a.booted = s.booted /\ a.told = <<>>
    BY SampledKeeps
  <1>2. Evaluated(s) = IF s.booted THEN FullPass(a) ELSE BootPass(a)
    BY DEF Evaluated
  <1> HIDE DEF a
  <1>3. Memory(a) /\ OfProgram(P, a)
    BY <1>1 DEF Keeps
  <1>4. CASE ~s.booted
    <2>1. Same(P, a, BootPass(a))
      BY <1>3, BootPassKeeps
    <2>2. Keeps(P, s, BootPass(a))
      BY <1>1, <2>1, KeepsTogether DEF Same
    <2> QED BY <1>1, <1>2, <1>4, <2>1, <2>2 DEF Same
  <1>5. CASE s.booted
    <2> DEFINE b == ApplyCommands(a)
               c == ApplyResumes(b)
               d == EvalCards(c)
               e == NabReads(d)
               f == RunSchedules(e)
               g == EvalNab(f, {})
               h == ExpireRuns(g)
               i == NabWrites(h)
    <2>1. FullPass(a) = i
      BY DEF FullPass
    <2>2. Same(P, a, b)
      BY <1>3, ApplyCommandsKeeps
    <2> HIDE DEF b
    <2>3. Same(P, b, c)
      BY <2>2, ApplyResumesKeeps DEF Same, Keeps
    <2> HIDE DEF c
    <2>4. Same(P, c, d)
      BY <2>3, EvalCardsKeeps DEF Same, Keeps
    <2> HIDE DEF d
    <2>5. Same(P, d, e)
      BY <2>4, NabReadsKeeps DEF Same, Keeps
    <2> HIDE DEF e
    <2>6. Same(P, a, e)
      BY <2>2, <2>3, <2>4, <2>5, SameTogether
    <2>7. e.scheds = s.scheds /\ e.orphans = s.orphans /\ (s.due => e.due) /\ e.told = <<>>
      BY <1>1, <2>6 DEF Same
    <2>8. Memory(e) /\ OfProgram(P, e) /\ Apart(e)
      BY <2>6, <2>7 DEF Same, Keeps, Apart, Announced
    <2>9. Keeps(P, e, f) /\ Scheduled(e, f)
      BY <2>7, <2>8, RunSchedulesKeeps, RunSchedulesScheduled
    <2> HIDE DEF f
    <2>10. Same(P, f, g)
      BY <2>9, EvalNabKeeps DEF Keeps
    <2> HIDE DEF g
    <2>11. Same(P, g, h)
      BY <2>10, ExpireRunsKeeps DEF Same, Keeps
    <2> HIDE DEF h
    <2>12. Same(P, h, i)
      BY <2>11, NabWritesKeeps DEF Same, Keeps
    <2> HIDE DEF i
    <2>13. Same(P, f, i)
      BY <2>10, <2>11, <2>12, SameTogether
    <2>14. Scheduled(s, i)
      BY <2>7, <2>9, <2>13, ScheduledBetween
    <2>15. Keeps(P, s, i)
      <3>1. Keeps(P, s, f)
        BY <1>1, <2>6, <2>9, KeepsTogether DEF Same
      <3> QED BY <2>13, <3>1, KeepsTogether DEF Same
    <2> QED BY <1>2, <1>5, <2>1, <2>14, <2>15
  <1> QED BY <1>4, <1>5

\* What is told of a schedule amiss.
Amiss(h, y) ==
  CASE y[1] = "started" -> h.open[y[2]] # Never \/ <<y[2], Today>> \in h.begun
    [] y[1] = "ended"   -> h.open[y[2]] = Never \/ now < h.open[y[2]]
    [] y[1] = "cut"     -> h.open[y[2]] = Never

\* The history k is h after the tellings of those of told, which are of schedules apart.
OpenAfter(y) == IF y[1] = "started" THEN rt'.scheds[y[2]].end ELSE Never
HeardOf(h, k, told) ==
  /\ DOMAIN k = DOMAIN NotSeen /\ k.late = h.late /\ k.stale = h.stale
  /\ k.open \in [Sids -> Nat \cup {Never}]
  /\ \A i \in Sids : (\A y \in told : y[2] # i) => k.open[i] = h.open[i]
  /\ \A y \in told : k.open[y[2]] = OpenAfter(y)
  /\ k.begun = h.begun \cup {<<y[2], Today>> : y \in {x \in told : x[1] = "started"}}
  /\ (\A y \in told : ~Amiss(h, y)) /\ ~h.amiss => ~k.amiss

\* One telling more.
LEMMA HeardOnce ==
  ASSUME NEW h, NEW k, NEW told, HeardOf(h, k, told), rt'.scheds \in [Sids -> Memories],
         NEW t \in Tellings, \A y \in told : y[2] # t[2]
  PROVE  HeardOf(h, Heard(k, t), told \cup {t})
  <1> DEFINE i == t[2]
             g == Heard(k, t)
  <1>1. i \in Sids /\ t[1] \in {"started", "ended", "cut"}
    BY DEF Tellings
  <1>2. k.open[i] = h.open[i] /\ k.open \in [Sids -> Nat \cup {Never}] /\ DOMAIN k = DOMAIN NotSeen
    BY <1>1 DEF HeardOf
  <1>3. <<i, Today>> \in k.begun <=> <<i, Today>> \in h.begun
    <2>1. \A y \in told : <<y[2], Today>> # <<i, Today>>
      OBVIOUS
    <2>2. k.begun = h.begun \cup {<<y[2], Today>> : y \in {x \in told : x[1] = "started"}}
      BY DEF HeardOf
    <2> HIDE DEF i
    <2> QED BY <2>1, <2>2
  <1>4. OpenAfter(t) \in Nat \cup {Never}
    <2>1. rt'.scheds[i] \in Memories
      BY <1>1
    <2> HIDE DEF i
    <2>2. rt'.scheds[i].end \in Nat \cup {Never}
      BY <2>1 DEF Memories
    <2> QED BY <2>2 DEF OpenAfter, i
  <1>5. ASSUME DOMAIN g = DOMAIN NotSeen, g.late = k.late, g.stale = k.stale,
               g.open = [k.open EXCEPT ![i] = OpenAfter(t)],
               g.begun = IF t[1] = "started" THEN k.begun \cup {<<i, Today>>} ELSE k.begun,
               g.amiss => k.amiss \/ Amiss(h, t)
        PROVE  HeardOf(h, g, told \cup {t})
    <2> HIDE DEF i, g
    <2>1. g.open \in [Sids -> Nat \cup {Never}] /\ g.open[i] = OpenAfter(t)
      BY <1>1, <1>2, <1>4, <1>5
    <2>2. \A j : j # i => g.open[j] = k.open[j]
      BY <1>2, <1>5
    <2>3. g.begun = h.begun \cup {<<y[2], Today>> : y \in {x \in told \cup {t} : x[1] = "started"}}
      <3>1. k.begun = h.begun \cup {<<y[2], Today>> : y \in {x \in told : x[1] = "started"}}
        BY DEF HeardOf
      <3>2. CASE t[1] = "started"
        <4>1. {x \in told \cup {t} : x[1] = "started"} = {x \in told : x[1] = "started"} \cup {t}
          BY <3>2
        <4>2. g.begun = k.begun \cup {<<t[2], Today>>}
          BY <1>5, <3>2 DEF i
        <4> QED BY <3>1, <4>1, <4>2
      <3>3. CASE t[1] # "started"
        <4>1. {x \in told \cup {t} : x[1] = "started"} = {x \in told : x[1] = "started"}
          BY <3>3
        <4>2. g.begun = k.begun
          BY <1>5, <3>3
        <4> QED BY <3>1, <4>1, <4>2
      <3> QED BY <3>2, <3>3
    <2>4. ASSUME NEW j \in Sids, \A y \in told \cup {t} : y[2] # j
          PROVE  g.open[j] = h.open[j]
      <3>1. j # i
        BY <2>4 DEF i
      <3>2. k.open[j] = h.open[j]
        BY <2>4 DEF HeardOf
      <3> QED BY <2>2, <3>1, <3>2
    <2>5. ASSUME NEW y \in told \cup {t}
          PROVE  g.open[y[2]] = OpenAfter(y)
      <3>1. CASE y = t
        BY <2>1, <3>1 DEF i
      <3>2. CASE y \in told
        <4>1. y[2] # i /\ k.open[y[2]] = OpenAfter(y)
          BY <3>2 DEF HeardOf, i
        <4> QED BY <2>2, <4>1
      <3> QED BY <3>1, <3>2
    <2>6. (\A y \in told \cup {t} : ~Amiss(h, y)) /\ ~h.amiss => ~g.amiss
      BY <1>5 DEF HeardOf
    <2>7. k.late = h.late /\ k.stale = h.stale
      BY DEF HeardOf
    <2> QED BY <1>5, <2>1, <2>3, <2>4, <2>5, <2>6, <2>7 DEF HeardOf
  <1>6. CASE t[1] = "started"
    <2> DEFINE amiss == k.amiss \/ k.open[i] # Never \/ <<i, Today>> \in k.begun
               begun == k.begun \cup {<<i, Today>>}
    <2>1. g = [k EXCEPT !.open[i] = rt'.scheds[i].end, !.begun = begun, !.amiss = amiss]
      BY <1>6 DEF Heard
    <2>2. OpenAfter(t) = rt'.scheds[i].end /\ (amiss => k.amiss \/ Amiss(h, t))
      BY <1>2, <1>3, <1>6 DEF OpenAfter, Amiss
    <2> HIDE DEF g, amiss, begun
    <2>3. /\ DOMAIN g = DOMAIN NotSeen /\ g.late = k.late /\ g.stale = k.stale /\ g.amiss = amiss
          /\ g.open = [k.open EXCEPT ![i] = OpenAfter(t)] /\ g.begun = begun
      BY <1>2, <2>1, <2>2, SeenFields
    <2> QED BY <1>5, <1>6, <2>2, <2>3 DEF begun, g
  <1>7. CASE t[1] = "ended"
    <2> DEFINE amiss == k.amiss \/ k.open[i] = Never \/ now < k.open[i]
    <2>1. g = [k EXCEPT !.open[i] = Never, !.amiss = amiss]
      BY <1>7 DEF Heard
    <2>2. OpenAfter(t) = Never /\ (amiss => k.amiss \/ Amiss(h, t))
      BY <1>2, <1>7 DEF OpenAfter, Amiss
    <2> HIDE DEF g, amiss
    <2>3. /\ DOMAIN g = DOMAIN NotSeen /\ g.late = k.late /\ g.stale = k.stale /\ g.amiss = amiss
          /\ g.open = [k.open EXCEPT ![i] = OpenAfter(t)] /\ g.begun = k.begun
      BY <1>2, <2>1, <2>2, SeenFields
    <2> QED BY <1>5, <1>7, <2>2, <2>3 DEF g
  <1>8. CASE t[1] = "cut"
    <2> DEFINE amiss == k.amiss \/ k.open[i] = Never
    <2>1. g = [k EXCEPT !.open[i] = Never, !.amiss = amiss]
      BY <1>8 DEF Heard
    <2>2. OpenAfter(t) = Never /\ (amiss => k.amiss \/ Amiss(h, t))
      BY <1>2, <1>8 DEF OpenAfter, Amiss
    <2> HIDE DEF g, amiss
    <2>3. /\ DOMAIN g = DOMAIN NotSeen /\ g.late = k.late /\ g.stale = k.stale /\ g.amiss = amiss
          /\ g.open = [k.open EXCEPT ![i] = OpenAfter(t)] /\ g.begun = k.begun
      BY <1>2, <2>1, <2>2, SeenFields
    <2> QED BY <1>5, <1>8, <2>2, <2>3 DEF g
  <1> QED BY <1>1, <1>6, <1>7, <1>8

\* All that a pass or a start tells, of each schedule once.
LEMMA TellsOnce ==
  ASSUME NEW h, DOMAIN h = DOMAIN NotSeen, h.open \in [Sids -> Nat \cup {Never}],
         rt'.told \in Seq(Tellings), Once(rt'.told), rt'.scheds \in [Sids -> Memories]
  PROVE  HeardOf(h, Tells(h), SeqRange(rt'.told))
  <1> DEFINE q == rt'.told
             N == Len(q)
  <1>1. N \in Nat /\ DOMAIN q = 1 .. N
    OBVIOUS
  <1>2. PICK f : /\ f[0] = h /\ f[N] = Tells(h)
                 /\ \A n \in 1 .. N : f[n] = Heard(f[n - 1], q[n])
    BY <1>1, TellsFold
  <1> DEFINE T == {n \in 0 .. N : HeardOf(h, f[n], {q[j] : j \in 1 .. n})}
  <1>3. 0 \in T
    <2>1. HeardOf(h, h, {})
      BY DEF HeardOf
    <2>2. {q[j] : j \in 1 .. 0} = {}
      OBVIOUS
    <2>3. HeardOf(h, f[0], {q[j] : j \in 1 .. 0})
      BY <1>2, <2>1, <2>2
    <2> QED BY <1>1, <2>3
  <1>4. ASSUME NEW n \in 0 .. N, n < N, n \in T
        PROVE  n + 1 \in T
    <2> DEFINE told == {q[j] : j \in 1 .. n}
    <2>1. n + 1 \in 1 .. N /\ (n + 1) - 1 = n /\ n \in Nat
      BY <1>1, <1>4
    <2>2. HeardOf(h, f[n], told)
      BY <1>4
    <2>3. f[n + 1] = Heard(f[n], q[n + 1]) /\ q[n + 1] \in Tellings
      BY <1>1, <1>2, <2>1
    <2>4. \A j \in 1 .. n : j \in 1 .. N /\ j # n + 1
      BY <1>1, <2>1
    <2>5. \A j \in 1 .. n : q[j][2] # q[n + 1][2]
      BY <1>1, <2>1, <2>4 DEF Once
    <2>6. \A y \in told : y[2] # q[n + 1][2]
      <3> HIDE DEF q
      <3> QED BY <2>5
    <2>7. told \cup {q[n + 1]} = {q[j] : j \in 1 .. n + 1}
      <3>1. \A j \in 1 .. n + 1 : j \in 1 .. n \/ j = n + 1
        BY <2>1
      <3>2. n + 1 \in 1 .. n + 1 /\ \A j \in 1 .. n : j \in 1 .. n + 1
        BY <2>1
      <3> HIDE DEF q
      <3> QED BY <3>1, <3>2
    <2> HIDE DEF told, q
    <2>8. HeardOf(h, f[n + 1], told \cup {q[n + 1]})
      BY <2>2, <2>3, <2>6, HeardOnce
    <2>9. HeardOf(h, f[n + 1], {q[j] : j \in 1 .. n + 1})
      BY <2>7, <2>8
    <2>10. n + 1 \in 0 .. N
      BY <1>1, <2>1
    <2> QED BY <2>9, <2>10
  <1> HIDE DEF T
  <1>5. N \in T
    BY <1>1, <1>3, <1>4, Induct
  <1>6. SeqRange(q) = {q[j] : j \in 1 .. N}
    BY <1>1 DEF SeqRange
  <1>7. HeardOf(h, f[N], {q[j] : j \in 1 .. N})
    BY <1>5 DEF T
  <1>8. HeardOf(h, Tells(h), SeqRange(q))
    <2> HIDE DEF q, N
    <2> QED BY <1>2, <1>6, <1>7
  <1> QED BY <1>8

\* Products keep the order.
LEMMA Times ==
  ASSUME NEW a \in Int, NEW b \in Int, a <= b
  PROVE  a * Day <= b * Day
  <1>1. Day \in Nat
    BY PlotRunsAssumption
  <1>2. (b - a) * Day >= 0 /\ a * Day \in Int /\ b * Day \in Int
    BY <1>1
  <1>3. (b - a) * Day = b * Day - a * Day
    BY <1>1
  <1> QED BY <1>2, <1>3

\* Days.
LEMMA Days ==
  ASSUME NEW n \in Nat
  PROVE  n \div Day \in Nat /\ (n \div Day) * Day <= n /\ n < (n \div Day + 1) * Day
  <1>1. Day \in Nat \ {0}
    BY PlotRunsAssumption
  <1>2. n \div Day \in Nat
    BY <1>1
  <1>3. (n \div Day) * Day <= n
    BY <1>1
  <1>4. n < (n \div Day + 1) * Day
    BY <1>1
  <1> QED BY <1>2, <1>3, <1>4

\* Later is no earlier a day.
LEMMA DaysGoOn ==
  ASSUME NEW n \in Nat, NEW m \in Nat, n <= m
  PROVE  n \div Day <= m \div Day
  <1>1. SUFFICES ASSUME m \div Day + 1 <= n \div Day
                 PROVE  FALSE
    BY Days
  <1>2. (m \div Day + 1) * Day <= (n \div Day) * Day
    BY <1>1, Days, Times
  <1> QED BY <1>2, Days, PlotRunsAssumption

\* What the programs say of their schedules.
LEMMA TimesOfSchedules ==
  ASSUME NEW n \in DOMAIN Program, NEW d \in SeqRange(Program[n].schedules)
  PROVE  d.id \in Sids /\ d.start \in Nat /\ d.win \in Nat /\ d.dur \in Nat
  <1>1. IsProgram(Program[n])
    BY ProgramFacts
  <1>2. Program[n].schedules \in Seq(Schedules(Program[n]))
    BY <1>1 DEF IsProgram
  <1>3. d \in Schedules(Program[n])
    BY <1>2 DEF SeqRange
  <1> QED BY <1>3 DEF Schedules

\* A schedule that starts has no run from an earlier day.
LEMMA StartsWhenOver ==
  ASSUME prog \in DOMAIN Program, now \in Nat, NEW d \in SeqRange(P.schedules), NEW m \in Memories,
         NEW late, Sound(d.id, m, late), StartsNow(m, d)
  PROVE  m.end = Never /\ m.ran < Today /\ Today = now \div Day /\ Wall = now
  <1>1. Wall = now /\ Today = now \div Day
    BY DEF StartsNow, Wall, WallOf, Today
  <1>2. Day \in Nat /\ Today \in Nat /\ d.start \in Nat /\ Behind \in Nat
    BY PlotRunsAssumption, ClockFacts, TimesOfSchedules DEF P
  <1>3. m.ran \in Int /\ m.ran < Today
    BY <1>1, <1>2 DEF StartsNow, Sound, Memories, Never
  <1>4. ASSUME m.end # Never
        PROVE  FALSE
    <2>1. m.ran \in Nat /\ m.endWall \in Nat /\ m.endWall + Behind <= (m.ran + 1) * Day + d.start
      BY <1>4 DEF Sound, Goes, Bounded, P
    <2>2. m.end \in Nat /\ m.end <= m.endWall + Behind /\ now < m.end
      BY <1>4 DEF Sound, Goes, StartsNow, Over, Memories
    <2>3. (m.ran + 1) * Day <= Today * Day
      BY <1>2, <1>3, Times
    <2>4. (m.ran + 1) * Day \in Nat /\ Today * Day \in Nat
      BY <1>2, <2>1
    <2>5. Today * Day + d.start <= now
      BY <1>1 DEF StartsNow
    <2> HIDE DEF Today
    <2> QED BY <1>2, <2>1, <2>2, <2>3, <2>4, <2>5
  <1> QED BY <1>1, <1>3, <1>4

\* A run that starts is over before its schedule's next start.
LEMMA StartedSound ==
  ASSUME SchedulesApart, prog \in DOMAIN Program, now \in Nat, NEW d \in SeqRange(P.schedules), NEW m \in Memories,
         NEW late \in Nat, Sound(d.id, m, late), StartsNow(m, d)
  PROVE  Sound(d.id, Started(m, d), late) /\ now < now + d.dur
  <1> DEFINE n == Started(m, d)
             E == now + d.dur
  <1>1. Wall = now /\ Today = now \div Day /\ Today \in Nat /\ Day \in Nat /\ Behind \in Nat
    BY StartsWhenOver, ClockFacts, PlotRunsAssumption
  <1>2. d.start \in Nat /\ d.win \in Nat /\ d.dur \in Nat /\ d.dur > 0
    BY TimesOfSchedules DEF P, SchedulesApart
  <1>3. n.ran = Today /\ n.end = E /\ n.endWall = E
    BY <1>1 DEF Started
  <1> HIDE DEF n
  <1>4. now < Today * Day + d.start + d.win
    BY <1>1 DEF StartsNow
  <1>5. Today * Day \in Nat /\ (Today + 1) * Day = Today * Day + Day
    <2> HIDE DEF Today
    <2> QED BY <1>1
  <1>6. ASSUME NEW x \in DOMAIN Program, NEW e \in SeqRange(Program[x].schedules), e.id = d.id
        PROVE  E + Behind <= (Today + 1) * Day + e.start
    <2>1. d.start + d.win + d.dur + Behind <= Day + e.start + 1
      BY <1>6 DEF SchedulesApart, P
    <2>2. e.start \in Nat
      BY TimesOfSchedules
    <2> DEFINE X == Today * Day
    <2>3. X \in Nat /\ (Today + 1) * Day = X + Day /\ now < X + d.start + d.win
      BY <1>4, <1>5
    <2> HIDE DEF X
    <2>4. now + d.dur + Behind <= X + Day + e.start
      BY <1>1, <1>2, <2>1, <2>2, <2>3
    <2> QED BY <2>3, <2>4
  <1>7. E \in Nat /\ E # Never
    BY <1>2 DEF Never
  <1>8. Bounded(d.id, n.ran, n.endWall)
    <2> HIDE DEF E, Today
    <2> QED BY <1>1, <1>3, <1>6, <1>7 DEF Bounded
  <1>9. Goes(d.id, n, late)
    <2> HIDE DEF E, Today
    <2> QED BY <1>1, <1>3, <1>7, <1>8 DEF Goes
  <1>10. n.ran <= now \div Day
    BY <1>1, <1>3
  <1>11. Sound(d.id, n, late)
    <2> HIDE DEF E
    <2> QED BY <1>3, <1>7, <1>9, <1>10 DEF Sound
  <1> QED BY <1>2, <1>11 DEF n

\* What is told of a schedule is told once.
LEMMA OnlyTelling ==
  ASSUME NEW told, Once(told), NEW y \in SeqRange(told), NEW z \in SeqRange(told), y[2] = z[2]
  PROVE  y = z
  BY DEF Once, SeqRange

\* The schedules of the program keep to their course in a pass.
LEMMA TurnCourse ==
  ASSUME SchedulesApart, prog \in DOMAIN Program, now \in Nat, NEW d \in SeqRange(P.schedules),
         NEW m \in Memories, NEW n \in Memories, rt'.scheds[d.id] = n,
         NEW told, told \in Seq(Tellings), Once(told), Became(d, m, n, told),
         NEW h, h.late \in Nat, h.begun \subseteq Sids \X Nat, Sound(d.id, m, h.late), h.open[d.id] = m.endWall,
         \A b \in h.begun : b[1] = d.id => b[2] <= m.ran,
         NEW k, HeardOf(h, k, SeqRange(told))
  PROVE  /\ \A y \in SeqRange(told) : y[2] = d.id => ~Amiss(h, y)
         /\ Sound(d.id, n, k.late) /\ k.open[d.id] = n.endWall
         /\ \A b \in k.begun : b[1] = d.id => b[2] <= n.ran
         /\ n.end # Never => now < n.end
  <1> DEFINE i == d.id
             T == SeqRange(told)
  <1>1. i \in Sids /\ m.ran \in Int /\ m.end \in Nat \cup {Never} /\ m.endWall \in Nat \cup {Never}
    BY TimesOfSchedules DEF P, Memories, Never
  <1>2. ASSUME NEW b \in k.begun, b[1] = i
        PROVE  b[2] <= m.ran \/ (<<"started", i>> \in T /\ b[2] = Today)
    <2>1. b \in h.begun \/ \E y \in {x \in T : x[1] = "started"} : b = <<y[2], Today>>
      BY DEF HeardOf
    <2>2. CASE b \in h.begun
      BY <1>2, <2>2
    <2>3. CASE \E y \in {x \in T : x[1] = "started"} : b = <<y[2], Today>>
      <3>1. PICK y \in T : y[1] = "started" /\ b = <<y[2], Today>>
        BY <2>3
      <3>2. y \in Tellings
        BY DEF SeqRange
      <3>3. y = <<"started", i>>
        BY <1>2, <3>1, <3>2 DEF Tellings
      <3> QED BY <3>1, <3>3
    <2> QED BY <2>1, <2>2, <2>3
  <1>3. \A y \in T : y[2] = i => k.open[i] = OpenAfter(y) /\ \A z \in T : z[2] = i => z = y
    BY OnlyTelling DEF HeardOf
  <1>4. k.late = h.late
    BY DEF HeardOf
  <1>5. CASE Over(m) /\ n = Ended(m) /\ <<"ended", i>> \in T
    <2> DEFINE y == <<"ended", i>>
    <2>1. y[1] = "ended" /\ y[2] = i /\ y # <<"started", i>>
      OBVIOUS
    <2> HIDE DEF y
    <2>2. y \in T /\ \A z \in T : z[2] = i => z = y
      BY <1>3, <1>5, <2>1 DEF y
    <2>3. k.open[i] = Never
      BY <1>3, <2>1, <2>2 DEF OpenAfter
    <2>4. n.end = Never /\ n.endWall = Never /\ n.ran = m.ran
      BY <1>5 DEF Ended, Memories
    <2>5. Sound(i, n, k.late)
      BY <2>4 DEF Sound
    <2>6. m.end \in Nat /\ now >= m.end /\ m.endWall \in Nat /\ m.endWall <= m.end
      BY <1>1, <1>5 DEF Over, Sound, Goes, Bounded
    <2>7. ~Amiss(h, y)
      BY <2>1, <2>6 DEF Amiss, Never
    <2>8. <<"started", i>> \notin T
      <3>1. <<"started", i>>[2] = i
        OBVIOUS
      <3> QED BY <2>1, <2>2, <3>1
    <2>9. \A b \in k.begun : b[1] = i => b[2] <= n.ran
      BY <1>2, <2>4, <2>8
    <2> QED BY <2>2, <2>3, <2>4, <2>5, <2>7, <2>9
  <1>6. CASE StartsNow(m, d) /\ n = Started(m, d) /\ <<"started", i>> \in T
    <2> DEFINE y == <<"started", i>>
    <2>1. y[1] = "started" /\ y[2] = i
      OBVIOUS
    <2> HIDE DEF y
    <2>2. y \in T /\ \A z \in T : z[2] = i => z = y
      BY <1>3, <1>6, <2>1 DEF y
    <2>3. m.end = Never /\ m.ran < Today /\ Wall = now
      BY <1>6, StartsWhenOver
    <2>4. n.end = now + d.dur /\ n.endWall = n.end /\ n.ran = Today
      BY <1>6, <2>3 DEF Started
    <2>5. k.open[i] = n.endWall
      BY <1>3, <2>1, <2>2, <2>4 DEF OpenAfter
    <2>6. Sound(i, n, k.late) /\ now < n.end
      BY <1>4, <1>6, <2>4, StartedSound
    <2>7. m.endWall = Never /\ Today \in Int
      BY <2>3, ClockFacts DEF Sound
    <2>8. <<i, Today>> \notin h.begun
      <3>1. ASSUME <<i, Today>> \in h.begun
            PROVE  FALSE
        <4>1. Today <= m.ran
          BY <3>1
        <4> HIDE DEF Today
        <4> QED BY <1>1, <2>3, <2>7, <4>1
      <3> QED BY <3>1
    <2>9. ~Amiss(h, y)
      BY <2>1, <2>7, <2>8 DEF Amiss
    <2>10. \A b \in k.begun : b[1] = i => b[2] <= n.ran
      <3>1. ASSUME NEW b \in k.begun, b[1] = i
            PROVE  b[2] <= n.ran
        <4>1. b \in Sids \X Nat \/ b[2] = Today
          BY <3>1 DEF HeardOf
        <4>2. b[2] \in Int
          BY <2>7, <4>1
        <4>3. b[2] <= m.ran \/ b[2] = Today
          BY <1>2, <3>1
        <4> HIDE DEF Today
        <4> QED BY <1>1, <2>3, <2>4, <2>7, <4>2, <4>3
      <3> QED BY <3>1
    <2> QED BY <2>2, <2>5, <2>6, <2>9, <2>10
  <1>7. CASE ~Over(m) /\ (\E x : n = [m EXCEPT !.missed = x]) /\ \A y \in T : y[2] # i
    <2>1. n.end = m.end /\ n.endWall = m.endWall /\ n.ran = m.ran
      BY <1>7 DEF Memories
    <2>2. k.open[i] = h.open[i]
      BY <1>1, <1>7 DEF HeardOf
    <2>3. Sound(i, n, k.late)
      BY <1>4, <2>1 DEF Sound, Goes
    <2>4. <<"started", i>> \notin T
      <3>1. <<"started", i>>[2] = i
        OBVIOUS
      <3> QED BY <1>7, <3>1
    <2>5. \A b \in k.begun : b[1] = i => b[2] <= n.ran
      BY <1>2, <2>1, <2>4
    <2>6. n.end # Never => now < n.end
      BY <1>1, <1>7, <2>1 DEF Over
    <2> QED BY <1>7, <2>1, <2>2, <2>3, <2>5, <2>6
  <1> QED BY <1>5, <1>6, <1>7 DEF Became

\* Where the ends of i to be told that t has were in s: those of a set.
WereAt(e, s, t, those, i) ==
  /\ \A k \in Announced(t, i) : /\ e[k] \in Announced(s, i) /\ t.orphans[k] = s.orphans[e[k]]
                                /\ t.orphans[k] \in those
  /\ \A k, l \in Announced(t, i) : e[k] = e[l] => k = l
  /\ \A j \in Announced(s, i) : s.orphans[j] \in those => \E k \in Announced(t, i) : e[k] = j

\* The ends to be told that are left when some are selected.
LEMMA AnnouncedKept ==
  ASSUME NEW s, s.orphans \in Seq(Orphans), NEW those, NEW t, t.orphans = Selected(s.orphans, those), NEW i
  PROVE  \E e : WereAt(e, s, t, those, i)
  <1> DEFINE p == s.orphans
             r == t.orphans
  <1>1. Len(p) \in Nat /\ DOMAIN p = 1 .. Len(p)
    OBVIOUS
  <1>2. PICK e \in [1 .. Len(r) -> 1 .. Len(p)] :
          /\ r \in Seq(those)
          /\ \A k \in 1 .. Len(r) : r[k] = p[e[k]]
          /\ \A k, l \in 1 .. Len(r) : e[k] = e[l] => k = l
          /\ \A j \in 1 .. Len(p) : p[j] \in those => \E k \in 1 .. Len(r) : e[k] = j
    BY <1>1, SelectedPlaces
  <1>3. DOMAIN r = 1 .. Len(r) /\ \A k \in 1 .. Len(r) : r[k] \in those
    BY <1>2
  <1>4. ASSUME NEW k \in Announced(t, i)
        PROVE  e[k] \in Announced(s, i) /\ r[k] = p[e[k]] /\ r[k] \in those /\ k \in 1 .. Len(r)
    <2>1. k \in 1 .. Len(r) /\ r[k].announce /\ r[k].id = i
      BY <1>3 DEF Announced
    <2>2. e[k] \in DOMAIN p /\ r[k] = p[e[k]]
      BY <1>1, <1>2, <2>1
    <2> QED BY <1>3, <2>1, <2>2 DEF Announced
  <1>5. ASSUME NEW j \in Announced(s, i), p[j] \in those
        PROVE  \E k \in Announced(t, i) : e[k] = j
    <2>1. j \in 1 .. Len(p) /\ p[j].announce /\ p[j].id = i
      BY <1>1 DEF Announced
    <2>2. PICK k \in 1 .. Len(r) : e[k] = j
      BY <1>2, <1>5, <2>1
    <2>3. r[k] = p[j]
      BY <1>2, <2>2
    <2>4. k \in Announced(t, i)
      BY <1>3, <2>1, <2>3 DEF Announced
    <2> QED BY <2>2, <2>4
  <1>6. \A k, l \in Announced(t, i) : e[k] = e[l] => k = l
    BY <1>2, <1>4
  <1> QED BY <1>4, <1>5, <1>6 DEF WereAt

\* So does a schedule that is not in the program: its end waits, or is told.
LEMMA WaitsOn ==
  ASSUME now \in Nat, NEW s, s.orphans \in Seq(Orphans), NEW i \in Sids, i \notin Ids(P),
         NEW t, t.orphans = Selected(s.orphans, SeqRange(s.orphans) \ Late(s)),
         NEW told, told \in Seq(Tellings),
         \A y \in SeqRange(told) : y[2] \in Ids(P) \/ \E o \in Late(s) : o.announce /\ y = <<"ended", o.id>>,
         \A o \in Late(s) : o.announce => <<"ended", o.id>> \in SeqRange(told),
         NEW h, TakenOut(s, h, i), h.open[i] \in Nat \cup {Never}, NEW k, HeardOf(h, k, SeqRange(told))
  PROVE  /\ \A y \in SeqRange(told) : y[2] = i => ~Amiss(h, y)
         /\ TakenOut(t, k, i)
  <1> DEFINE T == SeqRange(told)
             x == <<"ended", i>>
  <1> DEFINE those == SeqRange(s.orphans) \ Late(s)
  <1> HIDE DEF those
  <1>1. PICK e : WereAt(e, s, t, those, i)
    <2>1. t.orphans = Selected(s.orphans, those)
      BY DEF those
    <2> QED BY <2>1, AnnouncedKept
  <1> USE DEF those, WereAt
  <1>2. ASSUME NEW y \in T, y[2] = i
        PROVE  y = x /\ \E j \in Announced(s, i) : s.orphans[j] \in Late(s)
    <2>1. PICK o \in Late(s) : o.announce /\ y = <<"ended", o.id>>
      BY <1>2
    <2>2. PICK j \in DOMAIN s.orphans : o = s.orphans[j]
      BY DEF Late, SeqRange
    <2>3. y = x
      BY <1>2, <2>1
    <2> QED BY <1>2, <2>1, <2>2, <2>3 DEF Announced
  <1>3. x[1] = "ended" /\ x[2] = i
    OBVIOUS
  <1>4. k.late = h.late
    BY DEF HeardOf
  <1>5. \A b \in k.begun : b[1] = i => b \in h.begun
    <2>1. ASSUME NEW y \in T, y[1] = "started"
          PROVE  y[2] # i
      BY <1>2, <1>3, <2>1
    <2> QED BY <2>1 DEF HeardOf
  <1> HIDE DEF x
  <1>6. \A a, b \in Announced(t, i) : a = b
    BY <1>1 DEF TakenOut
  <1>7. ASSUME NEW j \in Announced(s, i)
        PROVE  /\ j \in DOMAIN s.orphans /\ s.orphans[j] \in SeqRange(s.orphans) /\ s.orphans[j] \in Orphans
               /\ s.orphans[j].id = i /\ s.orphans[j].announce /\ Waits(s.orphans[j], h, i)
    BY DEF Announced, TakenOut, SeqRange
  <1>8. CASE \E j \in Announced(s, i) : s.orphans[j] \in Late(s)
    <2>1. PICK j \in Announced(s, i) : s.orphans[j] \in Late(s)
      BY <1>8
    <2> DEFINE o == s.orphans[j]
    <2>2. o \in Orphans /\ o.id = i /\ o.announce /\ Waits(o, h, i) /\ o \in Late(s)
      BY <1>7, <2>1
    <2> HIDE DEF o
    <2>3. x \in T
      BY <2>2 DEF x
    <2>4. k.open[i] = Never
      BY <1>3, <2>3 DEF HeardOf, OpenAfter
    <2>5. Announced(t, i) = {}
      <3>1. ASSUME NEW a \in Announced(t, i)
            PROVE  FALSE
        <4>1. e[a] = j
          BY <1>1, <2>1 DEF TakenOut
        <4> QED BY <1>1, <2>1, <4>1
      <3> QED BY <3>1
    <2>6. o.endWall \in Nat /\ o.end \in Nat /\ o.endWall <= o.end /\ o.end <= now /\ h.open[i] = o.endWall
      BY <2>2 DEF Waits, Goes, Bounded, Late, Orphans
    <2>7. ~Amiss(h, x)
      BY <1>3, <2>6 DEF Amiss, Never
    <2> QED BY <1>2, <2>4, <2>5, <2>7 DEF TakenOut
  <1>9. CASE ~ \E j \in Announced(s, i) : s.orphans[j] \in Late(s)
    <2>1. \A y \in T : y[2] # i
      BY <1>2, <1>9
    <2>2. k.open[i] = h.open[i]
      BY <2>1 DEF HeardOf
    <2>3. k.open[i] = Never <=> Announced(t, i) = {}
      <3>1. Announced(s, i) = {} <=> Announced(t, i) = {}
        BY <1>1, <1>7, <1>9
      <3> QED BY <2>2, <3>1 DEF TakenOut
    <2>4. ASSUME NEW a \in Announced(t, i)
          PROVE  Waits(t.orphans[a], k, i)
      <3>1. Waits(s.orphans[e[a]], h, i) /\ t.orphans[a] = s.orphans[e[a]]
        BY <1>1, <1>7
      <3> QED BY <1>4, <1>5, <2>2, <3>1 DEF Waits, Goes
    <2> QED BY <1>6, <2>1, <2>3, <2>4 DEF TakenOut
  <1> QED BY <1>8, <1>9

-----------------------------------------------------------------------------
(* The steps keep the invariant of the runs. *)

\* Time goes on.
LEMMA SoundThen ==
  ASSUME now \in Nat, now' \in Nat, now <= now', NEW i, NEW m, m.ran \in Int, NEW late
  PROVE  /\ Sound(i, m, late) => Sound(i, m, late)'
         /\ Recorded(i, m) => Recorded(i, m)'
  <1>1. now \div Day <= now' \div Day /\ now \div Day \in Int /\ now' \div Day \in Int
    BY DaysGoOn, Days
  <1> QED BY <1>1 DEF Sound, Goes, Bounded, Recorded

\* A step after which the invariant would hold at the time before it.
LEMMA RunsThen ==
  ASSUME Types', now \in Nat, now <= now',
         History(seen'), \A i \in Sids : Recorded(i, disk'.scheds[i]) /\ Recorded(i, older'.scheds[i]),
         up' => Running(rt', seen', P', disk'),
         up' /\ passed' => now' = now /\ Sooner(rt'),
         ~up' /\ ~seen'.stale => Resting(seen', P', disk')
  PROVE  RunsInv'
  <1>1. /\ now' \in Nat /\ rt'.scheds \in [Sids -> Memories] /\ rt'.orphans \in Seq(Orphans)
        /\ Record(disk') /\ Record(older')
    BY DEF Types, World, Remembered, Memory
  <1>2. \A m \in Memories : m.ran \in Int
    BY DEF Memories, Never
  <1>3. now \div Day <= now' \div Day /\ now \div Day \in Int /\ now' \div Day \in Int
    <2>1. now' \in Nat
      BY <1>1
    <2>2. now \div Day <= now' \div Day
      BY <2>1, DaysGoOn
    <2>3. now \div Day \in Nat /\ now' \div Day \in Nat
      BY <2>1, Days
    <2> QED BY <2>2, <2>3
  <1>4. History(seen)'
    BY DEF History, NotSeen
  <1>5. (\A i \in Sids : Recorded(i, disk.scheds[i]) /\ Recorded(i, older.scheds[i]))'
    <2>1. ASSUME NEW i \in Sids, NEW m \in Memories, Recorded(i, m)
          PROVE  Recorded(i, m)'
      BY <1>1, <1>2, <2>1, SoundThen
    <2> QED BY <1>1, <1>2, <1>3 DEF Recorded, Record, Bounded
  <1>6. ASSUME up', NEW i \in Sids
        PROVE  IF i \in Ids(P)' THEN InProgram(rt, seen, i)' ELSE TakenOut(rt, seen, i)'
    <2>1. IF i \in Ids(P') THEN InProgram(rt', seen', i) ELSE TakenOut(rt', seen', i)
      BY <1>6 DEF Running, Course
    <2>2. CASE i \in Ids(P')
      <3>1. InProgram(rt', seen', i)
        BY <2>1, <2>2
      <3>2. rt'.scheds[i].ran \in Int
        BY <1>1, <1>2
      <3>3. InProgram(rt, seen, i)'
        BY <1>3, <3>1, <3>2 DEF InProgram, Sound, Goes, Bounded, Announced
      <3> QED BY <2>2, <3>3 DEF Ids
    <2>3. CASE i \notin Ids(P')
      <3>1. TakenOut(rt', seen', i)
        BY <2>1, <2>3
      <3>2. \A k \in DOMAIN rt'.orphans : rt'.orphans[k].ran \in Int
        <4>1. \A o \in Orphans : o.ran \in Int
          BY DEF Orphans, Never
        <4> QED BY <1>1, <4>1
      <3>3. TakenOut(rt, seen, i)'
        BY <1>3, <3>1, <3>2 DEF TakenOut, Waits, Goes, Bounded, Announced
      <3> QED BY <2>3, <3>3 DEF Ids
    <2> QED BY <2>2, <2>3
  <1>7. ASSUME up'
        PROVE  Running(rt, seen, P, disk)'
    <2>1. Course(rt, seen, Ids(P))'
      BY <1>6, <1>7 DEF Course
    <2>2. Known(rt, seen, Ids(P))'
      BY <1>7 DEF Running, Known, Announced, Ids
    <2> QED BY <1>7, <2>1, <2>2 DEF Running
  <1>8. ASSUME up', passed'
        PROVE  Sooner(rt)'
    BY <1>8 DEF Sooner
  <1>9. ASSUME ~up', ~seen'.stale
        PROVE  Resting(seen, P, disk)'
    BY <1>9 DEF Resting, Ids
  <1> QED BY <1>4, <1>5, <1>7, <1>8, <1>9 DEF RunsInv

\* Schedules have ids of their own.
LEMMA ApartFacts ==
  ASSUME SchedulesApart, NEW n \in DOMAIN Program
  PROVE  OneEach(Program[n]) /\ \A i \in Ids(Program[n]) : \E d \in SeqRange(Program[n].schedules) : d.id = i
  BY DEF SchedulesApart, OneEach, Ids

\* What a pass leaves of schedules, their history and their record.
LEMMA PassRecord ==
  ASSUME Types, Pass
  PROVE  LET s == Evaluated(rt)
             h == Tells(seen)
         IN  /\ Memory(s) /\ rt'.scheds = s.scheds /\ rt'.orphans = s.orphans /\ rt'.told = s.told
             /\ rt'.due <=> s.due /\ ~rt.booted
             /\ DOMAIN seen' = DOMAIN NotSeen /\ seen'.open = h.open /\ seen'.late = h.late
             /\ seen'.stale = h.stale /\ seen'.amiss = h.amiss
             /\ seen'.begun = {b \in h.begun : b[1] \in KnownIds(P, s)}
             /\ disk' = IF s.due /\ rt.booted THEN RecordOf(s) ELSE disk
             /\ older' = disk
  <1> DEFINE s == Evaluated(rt)
             t == Flushed(s)
             h == Tells(seen)
             byHand == {c \in h.byHand \cup Switched : s.level[c] \/ c \in Closers(s)}
             lost == {l \in h.lost \cup (ToRelease(s) \cap bad) : LinesAfter(s)[l]}
             fresh == s.due /\ rt.booted
             k == [h EXCEPT !.fresh = fresh, !.byHand = byHand, !.lost = lost, !.reloaded = FALSE]
             due == t.due /\ ~rt.booted
  <1>1. Memory(s) /\ Memory(rt') /\ DOMAIN seen' = DOMAIN NotSeen
    BY PassFacts
  <1>2. /\ rt' = [t EXCEPT !.due = due] /\ seen' = Forgets(k, P, s)
        /\ disk' = IF s.due /\ rt.booted THEN RecordOf(s) ELSE disk
        /\ older' = disk
    BY DEF Pass
  <1>3. /\ DOMAIN t = DOMAIN Fresh /\ t.scheds = s.scheds /\ t.orphans = s.orphans /\ t.told = s.told
        /\ t.due = s.due
    <2> HIDE DEF s
    <2> QED BY <1>1, Fields DEF Flushed, Memory
  <1> HIDE DEF s, t
  <1>4. rt'.scheds = s.scheds /\ rt'.orphans = s.orphans /\ rt'.told = s.told /\ (rt'.due <=> s.due /\ ~rt.booted)
    <2>1. rt'.due = due
      BY <1>2, <1>3, Fields
    <2>2. due <=> s.due /\ ~rt.booted
      BY <1>3
    <2> HIDE DEF due
    <2> QED BY <1>2, <1>3, <2>1, <2>2, Fields
  <1>5. SameSeen(seen, h)
    BY <1>1, TellsSame DEF Types, Memory
  <1> HIDE DEF h, byHand, fresh, lost
  <1>6. /\ DOMAIN k = DOMAIN NotSeen /\ k.open = h.open /\ k.late = h.late /\ k.stale = h.stale
        /\ k.amiss = h.amiss /\ k.begun = h.begun
    BY <1>5, SeenFields DEF SameSeen
  <1> HIDE DEF k
  <1>7. /\ seen'.open = k.open /\ seen'.late = k.late /\ seen'.stale = k.stale /\ seen'.amiss = k.amiss
        /\ seen'.begun = {b \in k.begun : b[1] \in KnownIds(P, s)}
    BY <1>2, <1>6, SeenFields DEF Forgets
  <1> QED BY <1>1, <1>2, <1>4, <1>6, <1>7 DEF s, h

\* What is recorded of what is remembered.
LEMMA RecordedSound ==
  ASSUME now \in Nat, NEW i, NEW m \in Memories, NEW late, m = NoMemory \/ Sound(i, m, late)
  PROVE  Recorded(i, [m EXCEPT !.end = Never])
  <1>1. DOMAIN m = {"ran", "missed", "end", "endWall"}
    BY DEF Memories
  <1>2. 0 <= now \div Day /\ now \div Day \in Int
    BY Days
  <1>3. m.ran <= now \div Day
    BY <1>2 DEF NoMemory, Never, Sound
  <1>4. m.endWall # Never => Bounded(i, m.ran, m.endWall)
    BY DEF NoMemory, Sound, Goes
  <1> QED BY <1>1, <1>3, <1>4 DEF Recorded

\* The record after a pass or a stop agrees with what is remembered.
LEMMA RecordAgrees ==
  ASSUME now \in Nat, NEW s, Memory(s), OfProgram(P, s), NEW h, Course(s, h, Ids(P))
  PROVE  /\ RecordOf(s).scheds = [i \in Sids |-> [s.scheds[i] EXCEPT !.end = Never]]
         /\ \A i \in Sids : Recorded(i, RecordOf(s).scheds[i])
  <1>1. RecordOf(s).scheds = [i \in Sids |-> [s.scheds[i] EXCEPT !.end = Never]]
    BY DEF RecordOf
  <1>2. ASSUME NEW i \in Sids
        PROVE  Recorded(i, [s.scheds[i] EXCEPT !.end = Never])
    <2>1. s.scheds[i] \in Memories
      BY DEF Memory
    <2>2. s.scheds[i] = NoMemory \/ Sound(i, s.scheds[i], h.late)
      BY DEF Course, InProgram, OfProgram
    <2> QED BY <2>1, <2>2, RecordedSound
  <1> QED BY <1>1, <1>2

\* A full pass keeps schedules on their course.
LEMMA FullPassCourse ==
  ASSUME SchedulesApart, Types, RunsInv, Pass, rt.booted
  PROVE  /\ Course(rt', Tells(seen), Ids(P)) /\ History(Tells(seen)) /\ ~Tells(seen).stale
         /\ Sooner(rt')
         /\ rt.due \/ ~rt'.due
         /\ ~Evaluated(rt).due => rt'.scheds = rt.scheds /\ ~rt.due
  <1> DEFINE s == Evaluated(rt)
             h == Tells(seen)
             T == SeqRange(s.told)
  <1>1. now \in Nat /\ prog \in DOMAIN Program /\ queue \in Seq(Queueable) /\ Memory(rt) /\ OfProgram(P, rt)
    BY PlotRunsAssumption DEF Types, World, Remembered
  <1>2. Course(rt, seen, Ids(P)) /\ History(seen) /\ ~seen.stale
    BY DEF RunsInv, Running, Pass
  <1>3. OneEach(P) /\ \A i \in Ids(P) : \E d \in SeqRange(P.schedules) : d.id = i
    BY <1>1, ApartFacts DEF P
  <1>4. Apart(rt)
    BY <1>2 DEF Apart, Course, InProgram, TakenOut
  <1>5. Keeps(P, rt, s) /\ Scheduled(rt, s)
    BY <1>1, <1>3, <1>4, EvaluatedScheduled
  <1>6. /\ Memory(s) /\ rt'.scheds = s.scheds /\ rt'.orphans = s.orphans /\ rt'.told = s.told /\ ~rt'.due
    BY PassRecord
  <1> HIDE DEF s
  <1>7. s.scheds \in [Sids -> Memories] /\ s.told \in Seq(Tellings) /\ Once(s.told)
    BY <1>5, <1>6 DEF Memory, Scheduled
  <1>8. HeardOf(seen, h, T)
    <2>1. DOMAIN seen = DOMAIN NotSeen /\ seen.open \in [Sids -> Nat \cup {Never}]
      BY <1>2 DEF History
    <2> QED BY <1>6, <1>7, <2>1, TellsOnce
  <1> HIDE DEF h
  <1>9. ASSUME NEW i \in Ids(P), i \in Sids
        PROVE  /\ \A y \in T : y[2] = i => ~Amiss(seen, y)
               /\ InProgram(rt', h, i)
               /\ rt'.scheds[i].end # Never => now < rt'.scheds[i].end
    <2>1. PICK d \in SeqRange(P.schedules) : d.id = i
      BY <1>3
    <2> DEFINE m == rt.scheds[d.id]
               n == s.scheds[d.id]
    <2>2. m \in Memories /\ n \in Memories /\ rt'.scheds[d.id] = n
      BY <1>1, <1>6, <1>7, <1>9, <2>1 DEF Memory
    <2>3. Became(d, m, n, s.told)
      BY <1>5 DEF Scheduled
    <2>4. InProgram(rt, seen, i)
      BY <1>2, <1>9 DEF Course
    <2>5. /\ Sound(d.id, m, seen.late) /\ seen.open[d.id] = m.endWall
          /\ \A b \in seen.begun : b[1] = d.id => b[2] <= m.ran
      BY <2>1, <2>4 DEF InProgram
    <2>6. seen.late \in Nat /\ seen.begun \subseteq Sids \X Nat
      BY <1>2 DEF History
    <2> HIDE DEF m, n
    <2>7. /\ \A y \in T : y[2] = d.id => ~Amiss(seen, y)
          /\ Sound(d.id, n, h.late) /\ h.open[d.id] = n.endWall
          /\ \A b \in h.begun : b[1] = d.id => b[2] <= n.ran
          /\ n.end # Never => now < n.end
      <3> DEFINE told == s.told
      <3>1. /\ told \in Seq(Tellings) /\ Once(told) /\ Became(d, m, n, told) /\ HeardOf(seen, h, SeqRange(told))
            /\ now \in Nat /\ prog \in DOMAIN Program
        BY <1>1, <1>7, <1>8, <2>3
      <3> HIDE DEF told
      <3>2. /\ \A y \in SeqRange(told) : y[2] = d.id => ~Amiss(seen, y)
            /\ Sound(d.id, n, h.late) /\ h.open[d.id] = n.endWall
            /\ \A b \in h.begun : b[1] = d.id => b[2] <= n.ran
            /\ n.end # Never => now < n.end
        BY <2>2, <2>5, <2>6, <3>1, TurnCourse
      <3> QED BY <3>2 DEF told
    <2>8. Announced(rt', i) = {}
      <3> DEFINE those == SeqRange(rt.orphans) \ Late(rt)
      <3> HIDE DEF those
      <3>1. rt'.orphans = Selected(rt.orphans, those) /\ rt.orphans \in Seq(Orphans)
        BY <1>1, <1>5, <1>6 DEF Scheduled, those, Memory
      <3>2. PICK e : WereAt(e, rt, rt', those, i)
        BY <3>1, AnnouncedKept
      <3>3. Announced(rt, i) = {}
        BY <2>4 DEF InProgram
      <3> QED BY <3>2, <3>3 DEF WereAt
    <2> QED BY <2>1, <2>2, <2>7, <2>8 DEF InProgram
  <1>10. ASSUME NEW i \in Sids, i \notin Ids(P)
         PROVE  /\ \A y \in T : y[2] = i => ~Amiss(seen, y)
                /\ TakenOut(rt', h, i)
    <2>1. TakenOut(rt, seen, i) /\ seen.open[i] \in Nat \cup {Never}
      BY <1>2, <1>10 DEF Course, History
    <2>2. /\ rt.orphans \in Seq(Orphans) /\ rt'.orphans = Selected(rt.orphans, SeqRange(rt.orphans) \ Late(rt))
          /\ \A y \in T : y[2] \in Ids(P) \/ \E o \in Late(rt) : o.announce /\ y = <<"ended", o.id>>
          /\ \A o \in Late(rt) : o.announce => <<"ended", o.id>> \in T
      BY <1>1, <1>5, <1>6 DEF Scheduled, Memory
    <2> QED BY <1>1, <1>7, <1>8, <1>10, <2>1, <2>2, WaitsOn
  <1>11. Course(rt', h, Ids(P))
    BY <1>9, <1>10 DEF Course
  <1>12. ~h.amiss
    <2>1. \A y \in T : y[2] \in Sids
      BY <1>7 DEF SeqRange, Tellings
    <2>2. \A y \in T : ~Amiss(seen, y)
      BY <1>9, <1>10, <2>1
    <2> QED BY <1>2, <1>8, <2>2 DEF HeardOf, History
  <1>13. History(h)
    <2>1. h.begun \subseteq Sids \X Nat
      <3>1. Today \in Nat
        BY <1>1, ClockFacts
      <3>2. \A y \in T : y[2] \in Sids
        BY <1>7 DEF SeqRange, Tellings
      <3>3. \A y \in T : <<y[2], Today>> \in Sids \X Nat
        BY <3>1, <3>2
      <3> QED BY <1>2, <1>8, <3>3 DEF HeardOf, History
    <2> QED BY <1>2, <1>8, <1>12, <2>1 DEF HeardOf, History
  <1>14. Sooner(rt')
    <2>1. ASSUME NEW i \in Sids, rt'.scheds[i].end # Never
          PROVE  now < rt'.scheds[i].end
      <3>1. CASE i \in Ids(P)
        BY <1>9, <2>1, <3>1
      <3>2. CASE i \notin Ids(P)
        <4>1. rt'.scheds[i] = NoMemory
          BY <1>5, <1>6, <3>2 DEF Keeps, OfProgram
        <4> QED BY <2>1, <4>1 DEF NoMemory
      <3> QED BY <3>1, <3>2
    <2>2. ASSUME NEW o \in SeqRange(rt'.orphans)
          PROVE  now < o.end
      <3> DEFINE those == SeqRange(rt.orphans) \ Late(rt)
      <3>1. rt'.orphans = Selected(rt.orphans, those) /\ rt.orphans \in Seq(Orphans)
        BY <1>1, <1>5, <1>6 DEF Scheduled, Memory
      <3>2. \A x \in those : x \in Orphans /\ ~(now >= x.end)
        BY <3>1 DEF Late, SeqRange
      <3> HIDE DEF those
      <3>3. rt'.orphans \in Seq(those)
        <4>1. Len(rt.orphans) \in Nat
          BY <3>1
        <4> QED BY <3>1, <4>1, SelectedType
      <3>4. o \in those
        BY <2>2, <3>3 DEF SeqRange
      <3>5. o.end \in Nat
        BY <3>2, <3>4 DEF Orphans
      <3> QED BY <1>1, <3>2, <3>4, <3>5
    <2> QED BY <2>1, <2>2 DEF Sooner
  <1>15. ~s.due => rt'.scheds = rt.scheds /\ ~rt.due
    BY <1>5, <1>6 DEF Scheduled
  <1>16. ~h.stale
    BY <1>2, <1>8 DEF HeardOf
  <1> QED BY <1>6, <1>11, <1>13, <1>14, <1>15, <1>16 DEF s, h

\* A pass.
LEMMA PassRuns ==
  ASSUME SchedulesApart, Types, RunsInv, Pass
  PROVE  RunsInv'
  <1> DEFINE s == Evaluated(rt)
             h == Tells(seen)
  <1>1. now \in Nat /\ now' = now /\ prog' = prog /\ up /\ up' /\ passed' = rt.booted /\ P' = P
    BY PlotRunsAssumption DEF Types, World, Pass, P
  <1>2. Types'
    BY PassTypes
  <1>3. /\ Memory(s) /\ rt'.scheds = s.scheds /\ rt'.orphans = s.orphans /\ rt'.told = s.told
        /\ rt'.due <=> s.due /\ ~rt.booted
        /\ DOMAIN seen' = DOMAIN NotSeen /\ seen'.open = h.open /\ seen'.late = h.late
        /\ seen'.stale = h.stale /\ seen'.amiss = h.amiss
        /\ seen'.begun = {b \in h.begun : b[1] \in KnownIds(P, s)}
        /\ disk' = IF s.due /\ rt.booted THEN RecordOf(s) ELSE disk
        /\ older' = disk
    BY PassRecord
  <1>4. /\ Course(rt', h, Ids(P)) /\ History(h) /\ ~h.stale
        /\ rt.booted => Sooner(rt')
        /\ ~s.due => rt'.scheds = rt.scheds /\ ~rt.due
    <2>1. CASE rt.booted
      BY <2>1, FullPassCourse
    <2>2. CASE ~rt.booted
      <3>1. prog \in DOMAIN Program /\ queue \in Seq(Queueable) /\ Memory(rt) /\ OfProgram(P, rt)
        BY DEF Types, World, Remembered
      <3>2. Course(rt, seen, Ids(P)) /\ History(seen) /\ ~seen.stale
        BY <1>1 DEF RunsInv, Running
      <3>3. OneEach(P) /\ Apart(rt)
        BY <3>1, <3>2, ApartFacts DEF P, Apart, Course, InProgram, TakenOut
      <3>4. s.scheds = rt.scheds /\ s.orphans = rt.orphans /\ s.told = <<>> /\ (rt.due => s.due)
        BY <1>1, <2>2, <3>1, <3>3, EvaluatedScheduled
      <3> HIDE DEF s
      <3>5. HeardOf(seen, h, {})
        <4>1. DOMAIN seen = DOMAIN NotSeen /\ seen.open \in [Sids -> Nat \cup {Never}]
          BY <3>2 DEF History
        <4>2. rt'.told = <<>> /\ rt'.told \in Seq(Tellings) /\ rt'.scheds \in [Sids -> Memories]
          BY <1>3, <3>4 DEF Memory
        <4>3. Once(rt'.told) /\ SeqRange(rt'.told) = {}
          BY <4>2 DEF Once, SeqRange
        <4> QED BY <4>1, <4>2, <4>3, TellsOnce
      <3> HIDE DEF h
      <3>6. h.open = seen.open /\ h.begun = seen.begun /\ h.late = seen.late /\ h.stale = seen.stale /\ ~h.amiss
        <4>1. \A i \in Sids : h.open[i] = seen.open[i]
          BY <3>5 DEF HeardOf
        <4> QED BY <3>2, <3>5, <4>1 DEF HeardOf, History
      <3>7. History(h)
        BY <3>2, <3>5, <3>6 DEF History, HeardOf
      <3>8. Course(rt', h, Ids(P))
        BY <1>3, <3>2, <3>4, <3>6 DEF Course, InProgram, TakenOut, Waits, Announced
      <3> QED BY <1>3, <2>2, <3>2, <3>4, <3>6, <3>7, <3>8
    <2> QED BY <2>1, <2>2
  <1> HIDE DEF s, h
  <1>5. History(seen')
    BY <1>3, <1>4 DEF History
  <1>6. Course(rt', seen', Ids(P))
    BY <1>3, <1>4 DEF Course, InProgram, TakenOut, Waits
  <1>7. Known(rt', seen', Ids(P))
    <2>1. ASSUME NEW b \in seen'.begun, b[1] \notin Ids(P)
          PROVE  Announced(rt', b[1]) # {}
      <3>1. PICK o \in SeqRange(rt'.orphans) : o.announce /\ o.id = b[1]
        BY <1>3, <2>1 DEF KnownIds
      <3> QED BY <3>1 DEF Announced, SeqRange
    <2> QED BY <2>1 DEF Known
  <1>8. Memory(rt') /\ OfProgram(P, rt')
    BY <1>1, <1>2 DEF Types, Remembered, Memory, OfProgram, Ids, RuleMemory
  <1>9. ~rt'.due => disk'.scheds = [i \in Sids |-> [rt'.scheds[i] EXCEPT !.end = Never]]
    <2>1. ASSUME ~rt'.due
          PROVE  disk'.scheds = [i \in Sids |-> [rt'.scheds[i] EXCEPT !.end = Never]]
      <3>1. CASE s.due
        <4>1. disk' = RecordOf(s)
          BY <1>3, <2>1, <3>1
        <4> QED BY <1>3, <4>1 DEF RecordOf
      <3>2. CASE ~s.due
        BY <1>1, <1>3, <1>4, <3>2 DEF RunsInv, Running
      <3> QED BY <3>1, <3>2
    <2> QED BY <2>1
  <1>10. \A i \in Sids : Recorded(i, disk'.scheds[i]) /\ Recorded(i, older'.scheds[i])
    <2>1. \A i \in Sids : Recorded(i, disk.scheds[i])
      BY DEF RunsInv
    <2>2. \A i \in Sids : Recorded(i, RecordOf(s).scheds[i])
      <3>1. OfProgram(P, s) /\ Course(s, h, Ids(P))
        <4>1. OfProgram(P, s)
          BY PassFacts DEF s
        <4>2. Course(s, h, Ids(P))
          BY <1>3, <1>4 DEF Course, InProgram, TakenOut, Announced
        <4> QED BY <4>1, <4>2
      <3> QED BY <1>1, <1>3, <3>1, RecordAgrees
    <2> QED BY <1>3, <2>1, <2>2
  <1>11. Running(rt', seen', P', disk')
    BY <1>1, <1>3, <1>4, <1>6, <1>7, <1>9 DEF Running
  <1>12. up' /\ passed' => now' = now /\ Sooner(rt')
    BY <1>1, <1>4
  <1> QED BY <1>1, <1>2, <1>5, <1>10, <1>11, <1>12, RunsThen

\* The histories h and k are the same of the runs.
SameRuns(h, k) ==
  /\ DOMAIN k = DOMAIN NotSeen /\ k.open = h.open /\ k.begun = h.begun /\ k.late = h.late
  /\ (k.stale <=> h.stale) /\ (k.amiss <=> h.amiss)

\* A step that leaves the runs as they are.
LEMMA UnchangedRuns ==
  ASSUME Types, Types', RunsInv, UNCHANGED <<rt, prog, disk, older, up>>, SameRuns(seen, seen'), now <= now',
         passed' => passed /\ now' = now
  PROVE  RunsInv'
  <1>1. now \in Nat /\ P' = P
    BY DEF Types, World, P
  <1>2. History(seen')
    BY DEF RunsInv, History, SameRuns
  <1>3. \A i \in Sids : Recorded(i, disk'.scheds[i]) /\ Recorded(i, older'.scheds[i])
    BY DEF RunsInv
  <1>4. up' => Running(rt', seen', P', disk')
    BY <1>1 DEF RunsInv, Running, Course, InProgram, TakenOut, Waits, Known, SameRuns
  <1>5. up' /\ passed' => now' = now /\ Sooner(rt')
    BY DEF RunsInv
  <1>6. ~up' /\ ~seen'.stale => Resting(seen', P', disk')
    BY <1>1 DEF RunsInv, Resting, SameRuns
  <1> QED BY <1>1, <1>2, <1>3, <1>4, <1>5, <1>6, RunsThen

\* Those of time, commands and the world do.
LEMMA OtherRuns ==
  ASSUME Types, RunsInv,
         Tick \/ AlarmChange \/ ClockTrusted \/ (\E c \in Commands(P) : Command(c))
           \/ \E l \in WeakLines : WritesFail(l)
  PROVE  RunsInv'
  <1>1. DOMAIN seen = DOMAIN NotSeen
    BY DEF RunsInv, History
  <1>2. now \in Nat
    BY DEF Types, World
  <1>3. CASE Tick
    <2>1. Types'
      BY <1>3, TickTypes
    <2>2. SameRuns(seen, seen')
      BY <1>1, <1>3, SeenFields DEF Tick, SameRuns
    <2>3. UNCHANGED <<rt, prog, disk, older, up>> /\ now <= now' /\ ~passed'
      BY <1>2, <1>3 DEF Tick
    <2> QED BY <2>1, <2>2, <2>3, UnchangedRuns
  <1>4. CASE AlarmChange \/ ClockTrusted \/ (\E c \in Commands(P) : Command(c)) \/ \E l \in WeakLines : WritesFail(l)
    <2>1. Types'
      BY <1>4, WorldTypes, CommandTypes
    <2>2. UNCHANGED <<rt, prog, disk, older, up, now, passed, seen>>
      BY <1>4 DEF AlarmChange, ClockTrusted, Command, WritesFail
    <2>3. SameRuns(seen, seen') /\ now <= now'
      BY <1>1, <1>2, <2>2 DEF SameRuns
    <2> QED BY <2>1, <2>2, <2>3, UnchangedRuns
  <1> QED BY <1>3, <1>4

\* What runs is on the record when nothing is due to be recorded.
LEMMA RestsOn ==
  ASSUME Types, RunsInv, up, NEW rec, rec.scheds = [i \in Sids |-> [rt.scheds[i] EXCEPT !.end = Never]],
         NEW h, SameRuns(seen, h)
  PROVE  Resting(h, P, rec)
  <1>1. \A i \in Ids(P) : i \in Sids
    BY TimesOfSchedules DEF Ids, P, Types, World
  <1>2. rt.scheds \in [Sids -> Memories]
    BY DEF Types, Remembered, Memory
  <1>3. ASSUME NEW i \in Ids(P)
        PROVE  /\ i \in Sids /\ h.open[i] = rec.scheds[i].endWall
               /\ \A b \in h.begun : b[1] = i => b[2] <= rec.scheds[i].ran
    <2>1. InProgram(rt, seen, i)
      BY <1>1 DEF RunsInv, Running, Course
    <2>2. rec.scheds[i].endWall = rt.scheds[i].endWall /\ rec.scheds[i].ran = rt.scheds[i].ran
      BY <1>1, <1>2 DEF Memories
    <2> QED BY <1>1, <2>1, <2>2 DEF InProgram, SameRuns
  <1> QED BY <1>3 DEF Resting

\* A process ends.
LEMMA ProcessEnds ==
  ASSUME Types, RunsInv, Stop \/ Kill
  PROVE  RunsInv'
  <1>1. now \in Nat /\ now' = now /\ P' = P /\ up /\ ~up' /\ older' = disk' /\ Types'
    <2>1. Types'
      BY StopTypes, KillTypes
    <2>2. now \in Nat
      BY DEF Types, World
    <2>3. Ends /\ UNCHANGED <<now, prog>>
      BY DEF Stop, Kill
    <2> QED BY <2>1, <2>2, <2>3 DEF Ends, P
  <1>2. \A i \in Sids : Recorded(i, disk.scheds[i]) /\ Recorded(i, older.scheds[i])
    BY DEF RunsInv
  <1>3. History(seen) /\ Running(rt, seen, P, disk)
    BY <1>1 DEF RunsInv
  <1>4. Memory(rt) /\ OfProgram(P, rt)
    BY DEF Types, Remembered
  <1>5. SameRuns(seen, Unread(seen))
    BY <1>3, SeenFields DEF Unread, SameRuns, History
  <1>6. CASE Stop
    <2> DEFINE lost == {l \in Unread(seen).lost \cup ToRelease(rt) : line'[l]}
    <2>1. disk' = RecordOf(rt) /\ seen' = [Unread(seen) EXCEPT !.lost = lost]
      BY <1>6 DEF Stop
    <2> HIDE DEF lost
    <2>2. SameRuns(seen, seen')
      BY <1>5, <2>1, SeenFields DEF SameRuns
    <2>3. History(seen')
      BY <1>3, <2>2 DEF History, SameRuns
    <2>4. /\ RecordOf(rt).scheds = [i \in Sids |-> [rt.scheds[i] EXCEPT !.end = Never]]
          /\ \A i \in Sids : Recorded(i, RecordOf(rt).scheds[i])
      BY <1>1, <1>3, <1>4, RecordAgrees DEF Running
    <2>5. Resting(seen', P, disk')
      BY <1>1, <2>1, <2>2, <2>4, RestsOn
    <2> QED BY <1>1, <1>2, <2>1, <2>3, <2>4, <2>5, RunsThen
  <1>7. CASE Kill
    <2> DEFINE lost == {l \in Unread(seen).lost \cup ToRelease(rt) : line'[l]}
               stale == rt.due \/ disk' # disk
    <2>1. disk' \in {disk, older} /\ seen' = [Unread(seen) EXCEPT !.lost = lost, !.stale = stale]
      BY <1>7 DEF Kill
    <2> HIDE DEF lost
    <2>2. /\ DOMAIN seen' = DOMAIN NotSeen /\ seen'.open = seen.open /\ seen'.begun = seen.begun
          /\ seen'.late = seen.late /\ (seen'.amiss <=> seen.amiss) /\ (seen'.stale <=> stale)
      <3> HIDE DEF stale
      <3> QED BY <1>5, <2>1, SeenFields DEF SameRuns
    <2>3. History(seen')
      BY <1>3, <2>2 DEF History
    <2>4. ASSUME ~seen'.stale
          PROVE  Resting(seen', P, disk')
      <3>1. ~rt.due /\ disk' = disk
        BY <2>2, <2>4
      <3>2. SameRuns(seen, seen')
        BY <1>3, <2>2, <2>4, <3>1 DEF SameRuns, Running
      <3> QED BY <1>1, <1>3, <3>1, <3>2, RestsOn DEF Running
    <2>5. \A i \in Sids : Recorded(i, disk'.scheds[i]) /\ Recorded(i, older'.scheds[i])
      BY <1>1, <1>2, <2>1
    <2> QED BY <1>1, <2>3, <2>4, <2>5, RunsThen
  <1> QED BY <1>6, <1>7

\* A new process tells of the runs that are cut short, once each.
LEMMA LoadRunTells ==
  ASSUME NEW s, Memory(s), NEW rec, NEW ok, NEW d, d.id \in Sids
  PROVE  LET t == LoadRun(rec, ok, s, d)
         IN  /\ t.scheds = s.scheds /\ t.orphans = s.orphans /\ t.due = s.due
             /\ t.told = IF CutShort(rec, ok, d.id) THEN Append(s.told, <<"cut", d.id>>) ELSE s.told
  <1> DEFINE x == [plot |-> d.plot, end |-> s.scheds[d.id].end]
             more == Append(s.resumes, x)
             t == [s EXCEPT !.resumes = more]
             told == Append(s.told, <<"cut", d.id>>)
  <1>1. LoadRun(rec, ok, s, d) = IF CutShort(rec, ok, d.id) THEN [s EXCEPT !.told = told]
                                 ELSE IF s.scheds[d.id].end = Never \/ d.plot = NoPlot THEN s ELSE t
    BY DEF LoadRun, Tell
  <1> HIDE DEF more, told
  <1>2. t.scheds = s.scheds /\ t.orphans = s.orphans /\ t.due = s.due /\ t.told = s.told
    BY Fields DEF Memory
  <1>3. /\ [s EXCEPT !.told = told].scheds = s.scheds /\ [s EXCEPT !.told = told].orphans = s.orphans
        /\ [s EXCEPT !.told = told].due = s.due /\ [s EXCEPT !.told = told].told = told
    BY Fields DEF Memory
  <1> HIDE DEF t
  <1> QED BY <1>1, <1>2, <1>3 DEF told

LEMMA LoadRunsTell ==
  ASSUME NEW s, Memory(s), OfProgram(P, s), prog \in DOMAIN Program, OneEach(P), s.told = <<>>, NEW rec, NEW ok
  PROVE  LET t == LoadRuns(rec, ok, s)
         IN  /\ t.scheds = s.scheds /\ t.orphans = s.orphans /\ t.due = s.due /\ Once(t.told)
             /\ SeqRange(t.told) = {<<"cut", i>> : i \in {j \in Ids(P) : CutShort(rec, ok, j)}}
  <1> DEFINE N == Len(P.schedules)
             q == P.schedules
  <1>1. N \in Nat /\ DOMAIN q = 1 .. N /\ \A n \in 1 .. N : q[n] \in SeqRange(q)
    BY ProgramFacts DEF IsProgram, SeqRange
  <1>2. PICK f : /\ f[0] = s /\ f[N] = LoadRuns(rec, ok, s)
                 /\ \A n \in 1 .. N : f[n] = LoadRun(rec, ok, f[n - 1], q[n])
    BY <1>1, LoadRunsFold
  <1>3. \A d \in SeqRange(q) : d.id \in Sids /\ d.id \in Ids(P)
    BY ProgramFacts, ScheduleFacts
  <1> DEFINE Tale(n, t) ==
               /\ Keeps(P, s, t) /\ t.scheds = s.scheds /\ t.orphans = s.orphans /\ t.due = s.due /\ Once(t.told)
               /\ \A y \in SeqRange(t.told) : \E k \in 1 .. n : CutShort(rec, ok, q[k].id) /\ y = <<"cut", q[k].id>>
               /\ \A k \in 1 .. n : CutShort(rec, ok, q[k].id) => <<"cut", q[k].id>> \in SeqRange(t.told)
             T == {n \in 0 .. N : Tale(n, f[n])}
  <1>4. 0 \in T
    <2>1. Keeps(P, s, s)
      BY DEF Keeps
    <2>2. Once(<<>>) /\ SeqRange(<<>>) = {}
      BY DEF Once, SeqRange
    <2>3. Tale(0, s)
      BY <2>1, <2>2
    <2> HIDE DEF Tale
    <2>4. Tale(0, f[0])
      BY <1>2, <2>3
    <2> QED BY <1>1, <2>4
  <1>5. ASSUME NEW n \in 0 .. N, n < N, n \in T
        PROVE  n + 1 \in T
    <2> DEFINE a == f[n]
               b == f[n + 1]
               d == q[n + 1]
    <2>1. n + 1 \in 1 .. N /\ (n + 1) - 1 = n /\ n \in Nat
      BY <1>1, <1>5
    <2>2. b = LoadRun(rec, ok, a, d) /\ d \in SeqRange(q) /\ d.id \in Sids
      BY <1>1, <1>2, <1>3, <2>1
    <2>3. Tale(n, a)
      BY <1>5
    <2>4. \A k \in 1 .. n : q[k].id # d.id
      BY <1>1, <2>1, NextIsAnother
    <2> HIDE DEF T
    <2>5. Memory(a) /\ OfProgram(P, a)
      BY <2>3 DEF Keeps
    <2>6. /\ Keeps(P, a, b) /\ b.scheds = a.scheds /\ b.orphans = a.orphans /\ b.due = a.due
          /\ b.told = IF CutShort(rec, ok, d.id) THEN Append(a.told, <<"cut", d.id>>) ELSE a.told
      BY <2>2, <2>5, LoadRunKeeps, LoadRunTells
    <2>7. \A k \in 1 .. n : k \in 1 .. n + 1
      BY <2>1
    <2>8. \A k \in 1 .. n + 1 : k \in 1 .. n \/ k = n + 1
      BY <2>1
    <2>9. n + 1 \in 1 .. n + 1 /\ d = q[n + 1]
      BY <2>1
    <2> HIDE DEF a, b
    <2>10. Keeps(P, s, b)
      BY <2>3, <2>6, KeepsTogether
    <2>11. CASE ~CutShort(rec, ok, d.id)
      <3>1. Tale(n + 1, b)
        <4> HIDE DEF d, q
        <4> QED BY <2>3, <2>6, <2>7, <2>8, <2>9, <2>10, <2>11
      <3> HIDE DEF Tale
      <3> QED BY <1>1, <2>1, <3>1 DEF T, b
    <2>12. CASE CutShort(rec, ok, d.id)
      <3> DEFINE x == <<"cut", d.id>>
      <3>1. x \in Tellings /\ x[2] = d.id
        BY <2>2 DEF Tellings
      <3>2. \A y \in SeqRange(a.told) : y[2] # x[2]
        <4>1. ASSUME NEW y \in SeqRange(a.told)
              PROVE  y[2] # d.id
          <5>1. PICK k \in 1 .. n : y = <<"cut", q[k].id>>
            BY <2>3
          <5>2. y[2] = q[k].id
            BY <5>1
          <5> HIDE DEF d
          <5> QED BY <2>4, <5>2
        <4> QED BY <3>1, <4>1
      <3> HIDE DEF x, d
      <3>3. Once(b.told) /\ SeqRange(b.told) = SeqRange(a.told) \cup {x}
        <4>1. a.told \in Seq(Tellings) /\ Once(a.told) /\ b.told = Append(a.told, x)
          BY <2>3, <2>5, <2>6, <2>12 DEF Memory, x
        <4> HIDE DEF Tale
        <4> QED BY <3>1, <3>2, <4>1, OnceMore
      <3> HIDE DEF q
      <3>4. \A y \in SeqRange(b.told) :
              \E k \in 1 .. n + 1 : CutShort(rec, ok, q[k].id) /\ y = <<"cut", q[k].id>>
        BY <2>3, <2>7, <2>9, <2>12, <3>3 DEF x
      <3>5. \A k \in 1 .. n + 1 : CutShort(rec, ok, q[k].id) => <<"cut", q[k].id>> \in SeqRange(b.told)
        BY <2>3, <2>8, <2>9, <3>3 DEF x
      <3>6. Tale(n + 1, b)
        BY <2>3, <2>6, <2>10, <3>3, <3>4, <3>5
      <3> HIDE DEF Tale
      <3> QED BY <1>1, <2>1, <3>6 DEF T, b
    <2> QED BY <2>11, <2>12
  <1> HIDE DEF T
  <1>6. N \in T
    BY <1>1, <1>4, <1>5, Induct
  <1>7. Tale(N, LoadRuns(rec, ok, s))
    BY <1>2, <1>6 DEF T
  <1> DEFINE t == LoadRuns(rec, ok, s)
  <1> HIDE DEF t
  <1>8. \A i \in Ids(P) : \E k \in 1 .. N : i = q[k].id
    BY <1>1 DEF Ids, SeqRange
  <1>9. \A k \in 1 .. N : q[k].id \in Ids(P)
    BY <1>1, <1>3
  <1> HIDE DEF q
  <1>10. SeqRange(t.told) = {<<"cut", i>> : i \in {j \in Ids(P) : CutShort(rec, ok, j)}}
    BY <1>7, <1>8, <1>9 DEF t
  <1> QED BY <1>7, <1>10 DEF t

\* What a start leaves of schedules and their history.
LEMMA RestartRecord ==
  ASSUME SchedulesApart, Types, Restart
  PROVE  LET h == [seen EXCEPT !.open = [i \in Sids |-> OpenAgain(i)]]
             k == Tells(h)
         IN  /\ rt'.scheds = [i \in Sids |-> MemoryOf(disk, trusted', i)] /\ rt'.orphans = <<>> /\ rt'.due
             /\ rt'.told \in Seq(Tellings) /\ Once(rt'.told) /\ rt'.scheds \in [Sids -> Memories]
             /\ SeqRange(rt'.told) = {<<"cut", i>> : i \in {j \in Ids(P) : CutShort(disk, trusted', j)}}
             /\ DOMAIN h = DOMAIN NotSeen /\ h.open = [i \in Sids |-> OpenAgain(i)] /\ h.late = seen.late
             /\ (h.amiss <=> seen.amiss)
             /\ DOMAIN k = DOMAIN NotSeen =>
                  /\ DOMAIN seen' = DOMAIN NotSeen /\ seen'.open = k.open /\ (seen'.amiss <=> k.amiss)
                  /\ seen'.late = (IF trusted' THEN k.late ELSE k.late + Behind)
                  /\ seen'.begun = BegunAgain /\ ~seen'.stale
  <1> DEFINE open == [i \in Sids |-> OpenAgain(i)]
             h == [seen EXCEPT !.open = open]
             k == Tells(h)
             late == IF trusted' THEN k.late ELSE k.late + Behind
             marks == [i \in Sids |-> MemoryOf(disk, trusted', i)]
             s == [Fresh EXCEPT !.scheds = marks, !.due = TRUE]
  <1>1. Record(disk) /\ now \in Nat /\ prog \in DOMAIN Program /\ OneEach(P) /\ DOMAIN seen = DOMAIN NotSeen
    BY ApartFacts DEF Types, World, P
  <1>2. seen' = [k EXCEPT !.late = late, !.begun = BegunAgain, !.stale = FALSE]
    BY DEF Restart
  <1>3. rt' = LoadRuns(disk, trusted', s) /\ Memory(rt')
    BY RestartFacts DEF Restart, ColdLoad
  <1>4. marks \in [Sids -> Memories] /\ \A i \in Sids \ Ids(P) : marks[i] = NoMemory
    BY <1>1, MemoryOfType
  <1> HIDE DEF open, late, k, marks
  <1>5. Memory(s) /\ OfProgram(P, s) /\ s.told = <<>> /\ s.scheds = marks /\ s.orphans = <<>> /\ s.due
    <2>1. Fresh.told = <<>> /\ Fresh.orphans = <<>>
      BY DEF Fresh
    <2> QED BY <1>4, <2>1, FreshFacts, Fields DEF Memory, OfProgram
  <1> HIDE DEF s
  <1>6. /\ rt'.scheds = marks /\ rt'.orphans = <<>> /\ rt'.due /\ Once(rt'.told)
        /\ SeqRange(rt'.told) = {<<"cut", i>> : i \in {j \in Ids(P) : CutShort(disk, trusted', j)}}
    BY <1>1, <1>3, <1>5, LoadRunsTell
  <1>7. rt'.told \in Seq(Tellings)
    BY <1>3 DEF Memory
  <1>8. DOMAIN h = DOMAIN NotSeen /\ h.open = open /\ h.late = seen.late /\ h.amiss = seen.amiss
    BY <1>1, SeenFields
  <1>9. ASSUME DOMAIN k = DOMAIN NotSeen
        PROVE  /\ DOMAIN seen' = DOMAIN NotSeen /\ seen'.open = k.open /\ (seen'.amiss <=> k.amiss)
               /\ seen'.late = late /\ seen'.begun = BegunAgain /\ ~seen'.stale
    BY <1>2, <1>9, SeenFields
  <1> HIDE DEF h
  <1> QED BY <1>4, <1>6, <1>7, <1>8, <1>9 DEF h, k, open, late, marks

\* What a new process takes from the record.
LEMMA MemoryAgain ==
  ASSUME now \in Nat, NEW rec, Record(rec), NEW ok, NEW i \in Sids, i \in Ids(P), Recorded(i, rec.scheds[i]),
         NEW late \in Nat
  PROVE  LET m == rec.scheds[i]
             n == MemoryOf(rec, ok, i)
         IN  /\ n.ran = m.ran
             /\ n.endWall = IF CutShort(rec, ok, i) THEN Never ELSE m.endWall
             /\ CutShort(rec, ok, i) => m.endWall # Never
             /\ Sound(i, n, IF ok THEN late ELSE late + Behind)
  <1> DEFINE m == rec.scheds[i]
             n == MemoryOf(rec, ok, i)
             W == WallOf(ok)
             more == IF ok THEN late ELSE late + Behind
  <1>1. m \in Memories
    BY DEF Record
  <1>2. CASE CutShort(rec, ok, i) \/ m.endWall = Never
    <2>1. n = [m EXCEPT !.endWall = Never]
      BY <1>2 DEF MemoryOf
    <2>2. CutShort(rec, ok, i) => m.endWall # Never
      BY DEF CutShort
    <2> HIDE DEF m, n
    <2>3. n.ran = m.ran /\ n.end = m.end /\ n.endWall = Never
      BY <1>1, <2>1 DEF Memories
    <2>4. m.end = Never /\ m.ran <= now \div Day
      BY DEF Recorded, m
    <2> QED BY <1>2, <2>2, <2>3, <2>4 DEF Sound, m, n
  <1>3. CASE ~CutShort(rec, ok, i) /\ m.endWall # Never
    <2>1. n = [m EXCEPT !.end = now + m.endWall - W]
      BY <1>3 DEF MemoryOf
    <2>2. W < m.endWall
      BY <1>3 DEF CutShort
    <2>3. Bounded(i, m.ran, m.endWall) /\ m.ran <= now \div Day
      BY <1>3 DEF Recorded
    <2> HIDE DEF m, n
    <2>4. n.ran = m.ran /\ n.end = now + m.endWall - W /\ n.endWall = m.endWall
      BY <1>1, <2>1 DEF Memories
    <2>5. W \in Nat /\ W <= now /\ now - W <= Behind /\ (ok => W = now) /\ Behind \in Nat
      BY PlotRunsAssumption DEF WallOf
    <2>6. m.endWall \in Nat
      BY <2>3 DEF Bounded
    <2>7. more \in Nat /\ (ok \/ more >= Behind)
      BY <2>5
    <2> HIDE DEF W, more
    <2>8. n.endWall <= n.end /\ n.end <= n.endWall + Behind /\ n.end <= n.endWall + more /\ n.end # Never
      BY <2>4, <2>5, <2>6, <2>7 DEF Never
    <2>9. n.endWall # Never
      BY <2>4, <2>6 DEF Never
    <2> QED BY <1>3, <2>3, <2>4, <2>8, <2>9 DEF Sound, Goes, m, n, more
  <1> QED BY <1>2, <1>3

\* A start.
LEMMA RestartRuns ==
  ASSUME SchedulesApart, Types, RunsInv, Restart
  PROVE  RunsInv'
  <1> DEFINE h == [seen EXCEPT !.open = [i \in Sids |-> OpenAgain(i)]]
             k == Tells(h)
             T == SeqRange(rt'.told)
             cut == {j \in Ids(P) : CutShort(disk, trusted', j)}
  <1>1. /\ rt'.scheds = [i \in Sids |-> MemoryOf(disk, trusted', i)] /\ rt'.orphans = <<>> /\ rt'.due
        /\ rt'.told \in Seq(Tellings) /\ Once(rt'.told) /\ rt'.scheds \in [Sids -> Memories]
        /\ T = {<<"cut", i>> : i \in cut}
        /\ DOMAIN h = DOMAIN NotSeen /\ h.open = [i \in Sids |-> OpenAgain(i)] /\ h.late = seen.late
        /\ (h.amiss <=> seen.amiss)
        /\ DOMAIN k = DOMAIN NotSeen =>
             /\ DOMAIN seen' = DOMAIN NotSeen /\ seen'.open = k.open /\ (seen'.amiss <=> k.amiss)
             /\ seen'.late = (IF trusted' THEN k.late ELSE k.late + Behind)
             /\ seen'.begun = BegunAgain /\ ~seen'.stale
    BY RestartRecord
  <1>2. /\ now \in Nat /\ now' = now /\ prog \in DOMAIN Program /\ P' = P /\ ~up /\ up' /\ ~passed'
        /\ disk' = disk /\ older' = older /\ Record(disk)
    BY DEF Types, World, Restart, P
  <1>3. Types'
    BY RestartTypes
  <1>4. History(seen) /\ (\A i \in Sids : Recorded(i, disk.scheds[i]) /\ Recorded(i, older.scheds[i]))
    BY DEF RunsInv
  <1>5. ~seen.stale => Resting(seen, P, disk)
    BY <1>2 DEF RunsInv
  <1>6. \A i \in Ids(P) : i \in Sids
    BY <1>2, TimesOfSchedules DEF Ids, P
  <1> HIDE DEF h, k
  <1>7. \A i \in Sids : h.open[i] = IF i \in Ids(P) THEN disk.scheds[i].endWall ELSE Never
    BY <1>1, <1>5 DEF OpenAgain, Resting
  <1>8. h.open \in [Sids -> Nat \cup {Never}]
    <2>1. \A i \in Sids : disk.scheds[i].endWall \in Nat \cup {Never}
      BY <1>2 DEF Record, Memories
    <2>2. h.open = [i \in Sids |-> h.open[i]]
      BY <1>1
    <2> QED BY <1>7, <2>1, <2>2
  <1>9. HeardOf(h, k, T)
    BY <1>1, <1>8, TellsOnce DEF k
  <1>10. /\ DOMAIN seen' = DOMAIN NotSeen /\ seen'.open = k.open /\ (seen'.amiss <=> k.amiss)
         /\ seen'.late = (IF trusted' THEN seen.late ELSE seen.late + Behind)
         /\ seen'.begun = BegunAgain /\ ~seen'.stale
    BY <1>1, <1>9 DEF HeardOf
  <1>11. \A i : <<"cut", i>>[1] = "cut" /\ <<"cut", i>>[2] = i
    OBVIOUS
  <1>12. ASSUME NEW i \in cut
         PROVE  /\ i \in Sids /\ i \in Ids(P) /\ CutShort(disk, trusted', i)
                /\ disk.scheds[i].endWall # Never
    BY <1>6 DEF CutShort
  <1>13. ~k.amiss
    <2>1. \A i \in cut : ~Amiss(h, <<"cut", i>>)
      BY <1>7, <1>11, <1>12 DEF Amiss
    <2>2. \A y \in T : ~Amiss(h, y)
      BY <1>1, <2>1
    <2> QED BY <1>1, <1>4, <1>9, <2>2 DEF HeardOf, History
  <1>14. \A i \in Sids : k.open[i] = IF i \in cut THEN Never ELSE h.open[i]
    <2>1. ASSUME NEW i \in cut
          PROVE  k.open[i] = Never
      <3>1. <<"cut", i>> \in T
        BY <1>1
      <3>2. OpenAfter(<<"cut", i>>) = Never
        BY <1>11 DEF OpenAfter
      <3> QED BY <1>9, <1>11, <3>1, <3>2 DEF HeardOf
    <2>2. ASSUME NEW i \in Sids, i \notin cut
          PROVE  k.open[i] = h.open[i]
      <3>1. \A y \in T : y[2] # i
        BY <1>1, <1>11, <2>2
      <3> QED BY <1>9, <3>1 DEF HeardOf
    <2> QED BY <2>1, <2>2
  <1>15. seen'.late \in Nat
    BY <1>4, <1>10, PlotRunsAssumption DEF History
  <1>16. BegunAgain \subseteq seen.begun
    BY DEF BegunAgain
  <1>17. History(seen')
    BY <1>4, <1>9, <1>10, <1>13, <1>15, <1>16 DEF History, HeardOf
  <1>18. \A i : Announced(rt', i) = {}
    <2>1. DOMAIN rt'.orphans = {}
      BY <1>1
    <2> QED BY <2>1 DEF Announced
  <1>19. ASSUME NEW i \in Sids, i \in Ids(P)
         PROVE  InProgram(rt', seen', i)
    <2> DEFINE m == disk.scheds[i]
               n == MemoryOf(disk, trusted', i)
    <2>1. /\ n.ran = m.ran /\ n.endWall = IF CutShort(disk, trusted', i) THEN Never ELSE m.endWall
          /\ Sound(i, n, IF trusted' THEN seen.late ELSE seen.late + Behind)
      BY <1>2, <1>4, <1>19, MemoryAgain DEF History
    <2>2. rt'.scheds[i] = n
      BY <1>1
    <2>3. seen'.open[i] = n.endWall
      BY <1>7, <1>10, <1>14, <1>19, <2>1
    <2>4. ASSUME NEW b \in seen'.begun, b[1] = i
          PROVE  b[2] <= m.ran
      <3>1. b \in seen.begun /\ (seen.stale => m.ran = b[2])
        BY <1>10, <2>4 DEF BegunAgain
      <3>2. CASE seen.stale
        <4>1. b[2] \in Nat
          BY <1>4, <3>1 DEF History
        <4> QED BY <3>1, <3>2, <4>1
      <3>3. CASE ~seen.stale
        BY <1>5, <1>19, <2>4, <3>1, <3>3 DEF Resting
      <3> QED BY <3>2, <3>3
    <2> HIDE DEF n, m
    <2>5. Sound(i, n, seen'.late)
      BY <1>10, <2>1
    <2> QED BY <1>18, <2>1, <2>2, <2>3, <2>4, <2>5 DEF InProgram
  <1>20. ASSUME NEW i \in Sids, i \notin Ids(P)
         PROVE  TakenOut(rt', seen', i)
    <2>1. seen'.open[i] = Never
      BY <1>7, <1>10, <1>14, <1>20
    <2> QED BY <1>18, <2>1 DEF TakenOut
  <1>21. Course(rt', seen', Ids(P))
    BY <1>19, <1>20 DEF Course
  <1>22. Known(rt', seen', Ids(P))
    BY <1>10 DEF Known, BegunAgain
  <1>23. Running(rt', seen', P', disk')
    BY <1>1, <1>2, <1>10, <1>21, <1>22 DEF Running
  <1> QED BY <1>2, <1>3, <1>4, <1>17, <1>23, RunsThen

\* The ends of i to be told, when x waits too.
AlsoWaits(s, t, x, i) ==
  /\ Announced(t, i) = Announced(s, i) \cup (IF x.announce /\ x.id = i THEN {Len(s.orphans) + 1} ELSE {})
  /\ \A k \in Announced(s, i) : t.orphans[k] = s.orphans[k] /\ k # Len(s.orphans) + 1
  /\ t.orphans[Len(s.orphans) + 1] = x

\* One end more waits.
LEMMA OneMoreWaits ==
  ASSUME NEW s, s.orphans \in Seq(Orphans), NEW x, NEW t, t.orphans = Append(s.orphans, x), NEW i
  PROVE  AlsoWaits(s, t, x, i)
  <1> DEFINE q == s.orphans
             last == Len(q) + 1
  <1>1. /\ DOMAIN q = 1 .. Len(q) /\ Len(q) \in Nat
        /\ DOMAIN t.orphans = 1 .. last
        /\ \A k \in 1 .. Len(q) : t.orphans[k] = q[k]
        /\ t.orphans[last] = x
    BY Appended
  <1>2. 1 .. last = 1 .. Len(q) \cup {last} /\ last \notin 1 .. Len(q)
    BY <1>1
  <1> HIDE DEF last
  <1>3. /\ Announced(t, i) = Announced(s, i) \cup (IF x.announce /\ x.id = i THEN {last} ELSE {})
        /\ \A k \in Announced(s, i) : t.orphans[k] = s.orphans[k] /\ k # last
    BY <1>1, <1>2 DEF Announced
  <1> QED BY <1>1, <1>3 DEF AlsoWaits, last

\* A schedule of which nothing else is remembered, and whose ends wait as before, is as before.
LEMMA AsBefore ==
  ASSUME NEW s, NEW t, NEW h, NEW i, t.scheds[i] = s.scheds[i], Announced(t, i) = Announced(s, i),
         \A k \in Announced(s, i) : t.orphans[k] = s.orphans[k]
  PROVE  /\ InProgram(s, h, i) => InProgram(t, h, i)
         /\ TakenOut(s, h, i) => TakenOut(t, h, i)
  BY DEF InProgram, TakenOut

\* An end more that is not told changes nothing.
LEMMA SilentEnd ==
  ASSUME NEW s, s.orphans \in Seq(Orphans), NEW h, NEW ids, Course(s, h, ids), Known(s, h, ids),
         NEW x, ~x.announce, NEW t, t.scheds = s.scheds, t.orphans = Append(s.orphans, x)
  PROVE  Course(t, h, ids) /\ Known(t, h, ids)
  <1>1. ASSUME NEW i
        PROVE  Announced(t, i) = Announced(s, i) /\ \A k \in Announced(s, i) : t.orphans[k] = s.orphans[k]
    <2>1. AlsoWaits(s, t, x, i)
      BY OneMoreWaits
    <2> QED BY <2>1 DEF AlsoWaits
  <1>2. \A i : (InProgram(s, h, i) => InProgram(t, h, i)) /\ (TakenOut(s, h, i) => TakenOut(t, h, i))
    BY <1>1, AsBefore
  <1> QED BY <1>1, <1>2 DEF Course, Known

\* In a take-over so far: the schedules of ids are in the program, and of others nothing is remembered.
Carried(s, h, ids) ==
  Memory(s) /\ Course(s, h, ids) /\ Known(s, h, ids) /\ \A i \in Sids \ ids : s.scheds[i] = NoMemory

\* A schedule that is new, of which no end waits.
LEMMA NewSchedule ==
  ASSUME now \in Nat, NEW s, NEW h, NEW ids, Carried(s, h, ids), NEW i \in Sids \ ids, Announced(s, i) = {}
  PROVE  Carried(s, h, ids \cup {i})
  <1>1. TakenOut(s, h, i) /\ s.scheds[i] = NoMemory
    BY DEF Carried, Course
  <1>2. h.open[i] = Never
    BY <1>1 DEF TakenOut
  <1>3. NoMemory.ran = Never /\ NoMemory.end = Never /\ NoMemory.endWall = Never
    BY DEF NoMemory
  <1>4. Sound(i, NoMemory, h.late)
    <2>1. now \div Day \in Nat
      BY Days
    <2> QED BY <1>3, <2>1 DEF Sound, Never
  <1>5. \A b \in h.begun : b[1] # i
    BY DEF Carried, Known
  <1>6. InProgram(s, h, i)
    BY <1>1, <1>2, <1>3, <1>4, <1>5 DEF InProgram
  <1> QED BY <1>6 DEF Carried, Course, Known

\* From s to v the ends of schedule i that are told are taken out, and its memory is that of o, one of them.
PutsBack(s, v, i, o) ==
  /\ v.orphans = Selected(s.orphans, SeqRange(s.orphans) \ {x \in SeqRange(s.orphans) : x.id = i /\ x.announce})
  /\ v.scheds = [s.scheds EXCEPT ![i] = [ran |-> o.ran, missed |-> Never, end |-> o.end, endWall |-> o.endWall]]

\* One that is put back before its end.
LEMMA PutBack ==
  ASSUME now \in Nat, NEW s, NEW h, NEW ids, Carried(s, h, ids), NEW i \in Sids \ ids, NEW j \in Announced(s, i),
         NEW v, PutsBack(s, v, i, s.orphans[j])
  PROVE  Course(v, h, ids \cup {i}) /\ Known(v, h, ids \cup {i})
  <1> DEFINE o == s.orphans[j]
             mark == [ran |-> o.ran, missed |-> Never, end |-> o.end, endWall |-> o.endWall]
             putBack == {x \in SeqRange(s.orphans) : x.id = i /\ x.announce}
             those == SeqRange(s.orphans) \ putBack
  <1>0. v.orphans = Selected(s.orphans, those) /\ v.scheds = [s.scheds EXCEPT ![i] = mark]
    BY DEF PutsBack
  <1>1. s.orphans \in Seq(Orphans) /\ s.scheds \in [Sids -> Memories]
    BY DEF Carried, Memory
  <1>2. \A k, l : k \in Announced(s, l) =>
          s.orphans[k] \in SeqRange(s.orphans) /\ s.orphans[k].id = l /\ s.orphans[k].announce
    BY DEF Announced, SeqRange
  <1> HIDE DEF those
  <1>3. \A l : \E e : WereAt(e, s, v, those, l)
    BY <1>0, <1>1, AnnouncedKept
  <1>4. Announced(v, i) = {}
    <2>1. PICK e : WereAt(e, s, v, those, i)
      BY <1>3
    <2>2. ASSUME NEW k \in Announced(v, i)
          PROVE  FALSE
      <3>1. v.orphans[k] \in those /\ e[k] \in Announced(s, i) /\ v.orphans[k] = s.orphans[e[k]]
        BY <2>1 DEF WereAt
      <3>2. v.orphans[k] \in putBack
        BY <1>2, <3>1
      <3> QED BY <3>1, <3>2 DEF those
    <2> QED BY <2>2
  <1>5. InProgram(v, h, i)
    <2>1. TakenOut(s, h, i)
      BY DEF Carried, Course
    <2>2. Waits(o, h, i)
      BY <2>1 DEF TakenOut
    <2>3. o \in Orphans
      BY <1>1 DEF Announced
    <2>4. v.scheds[i] = mark
      BY <1>0, <1>1
    <2> HIDE DEF o
    <2>5. mark.ran = o.ran /\ mark.end = o.end /\ mark.endWall = o.endWall
      OBVIOUS
    <2> HIDE DEF mark
    <2>6. mark.end \in Nat /\ mark.endWall \in Nat
      BY <2>2, <2>3, <2>5 DEF Orphans, Waits, Goes, Bounded
    <2>7. Sound(i, mark, h.late)
      BY <2>2, <2>5, <2>6 DEF Waits, Goes, Sound, Never
    <2> QED BY <1>4, <2>2, <2>4, <2>5, <2>7 DEF InProgram, Waits
  <1>6. ASSUME NEW l, l # i
        PROVE  /\ v.scheds[l] = s.scheds[l]
               /\ Announced(v, l) = {} <=> Announced(s, l) = {}
               /\ TakenOut(s, h, l) => TakenOut(v, h, l)
    <2>1. PICK e : WereAt(e, s, v, those, l)
      BY <1>3
    <2>2. \A k \in Announced(s, l) : s.orphans[k] \in those
      BY <1>2, <1>6 DEF those
    <2>3. Announced(v, l) = {} <=> Announced(s, l) = {}
      BY <2>1, <2>2 DEF WereAt
    <2>4. v.scheds[l] = s.scheds[l]
      BY <1>0, <1>1, <1>6
    <2>5. TakenOut(s, h, l) => TakenOut(v, h, l)
      BY <2>1, <2>2, <2>3 DEF WereAt, TakenOut
    <2> QED BY <2>3, <2>4, <2>5
  <1>7. Course(v, h, ids \cup {i})
    <2>1. ASSUME NEW l \in Sids
          PROVE  IF l \in ids \cup {i} THEN InProgram(v, h, l) ELSE TakenOut(v, h, l)
      <3>1. CASE l = i
        BY <1>5, <3>1
      <3>2. CASE l # i /\ l \in ids
        <4>1. InProgram(s, h, l)
          BY <3>2 DEF Carried, Course
        <4>2. v.scheds[l] = s.scheds[l] /\ (Announced(v, l) = {} <=> Announced(s, l) = {})
          BY <1>6, <3>2
        <4>3. InProgram(v, h, l)
          BY <4>1, <4>2 DEF InProgram
        <4> QED BY <3>2, <4>3
      <3>3. CASE l # i /\ l \notin ids
        BY <1>6, <3>3 DEF Carried, Course
      <3> QED BY <3>1, <3>2, <3>3
    <2> QED BY <2>1 DEF Course
  <1>8. Known(v, h, ids \cup {i})
    BY <1>6 DEF Carried, Known
  <1> QED BY <1>7, <1>8

\* A schedule of the new program.
LEMMA CarryScheduleCarries ==
  ASSUME now \in Nat, NEW s, NEW h, NEW ids, Carried(s, h, ids),
         NEW old, IsProgram(old), DOMAIN old.plots \subseteq Plots, Ids(old) \subseteq ids,
         NEW new, IsProgram(new), DOMAIN new.plots \subseteq Plots,
         NEW d \in SeqRange(new.schedules), d.id \in Ids(old) \/ d.id \notin ids
  PROVE  Carried(CarrySchedule(s, d, old, new), h, ids \cup {d.id})
  <1> DEFINE i == d.id
             m == s.scheds[d.id]
             putBack == {o \in SeqRange(s.orphans) : o.id = d.id /\ o.announce}
             back == Selected(s.orphans, putBack)
             end == StableEnd(old, ScheduleOf(old, d.id))
             orphan == OrphanOf(d.id, m, end, FALSE)
             moved == Append(s.orphans, orphan)
             t == [s EXCEPT !.orphans = moved]
             o == back[1]
             rest == Selected(s.orphans, SeqRange(s.orphans) \ putBack)
             mark == [ran |-> o.ran, missed |-> Never, end |-> o.end, endWall |-> o.endWall]
             silent == [o EXCEPT !.announce = FALSE]
             others == IF o.actions = StableEnd(new, d) THEN rest ELSE Append(rest, silent)
             marks == [s.scheds EXCEPT ![d.id] = mark]
             u == [s EXCEPT !.scheds = marks, !.orphans = others]
             r == CarrySchedule(s, d, old, new)
  <1>1. d.id \in Sids /\ Memory(s) /\ s.orphans \in Seq(Orphans) /\ Memory(r)
    <2>1. Memory(s)
      BY DEF Carried
    <2>2. Memory(r)
      BY <2>1, CarryScheduleHolds DEF Holds
    <2> QED BY <2>1, <2>2, ScheduleFacts DEF Memory
  <1>2. r = IF d.id \in Ids(old) THEN IF m.end = Never \/ end = StableEnd(new, d) THEN s ELSE t
            ELSE IF back = <<>> THEN s ELSE u
    BY DEF CarrySchedule
  <1> HIDE DEF r
  <1>3. ASSUME d.id \in Ids(old)
        PROVE  Carried(r, h, ids \cup {d.id})
    <2>1. ids \cup {d.id} = ids
      BY <1>3
    <2>2. CASE r = s
      <3> HIDE DEF t, i, m, o
      <3> QED BY <2>1, <2>2
    <2>3. CASE r = t
      <3>1. orphan.announce = FALSE
        BY DEF OrphanOf
      <3> HIDE DEF orphan
      <3>2. t.scheds = s.scheds /\ t.orphans = Append(s.orphans, orphan)
        <4> HIDE DEF moved
        <4>1. t.scheds = s.scheds /\ t.orphans = moved
          BY <1>1, Fields DEF Memory
        <4> QED BY <4>1 DEF moved
      <3> HIDE DEF t, moved, i, m, end, o, back, putBack, marks, others
      <3>3. Course(t, h, ids) /\ Known(t, h, ids)
        BY <1>1, <3>1, <3>2, SilentEnd DEF Carried
      <3>4. Carried(t, h, ids)
        BY <1>1, <2>3, <3>2, <3>3 DEF Carried
      <3> QED BY <2>1, <2>3, <3>4
    <2> QED BY <1>2, <1>3, <2>2, <2>3
  <1>4. ASSUME d.id \notin Ids(old)
        PROVE  Carried(r, h, ids \cup {d.id})
    <2>1. d.id \in Sids \ ids
      BY <1>1, <1>4
    <2>2. PICK e \in [1 .. Len(back) -> 1 .. Len(s.orphans)] :
            /\ back \in Seq(putBack)
            /\ \A k \in 1 .. Len(back) : back[k] = s.orphans[e[k]]
            /\ \A k \in 1 .. Len(s.orphans) : s.orphans[k] \in putBack => \E l \in 1 .. Len(back) : e[l] = k
      <3>1. Len(s.orphans) \in Nat
        BY <1>1
      <3> DEFINE those == putBack
                 q == s.orphans
      <3> HIDE DEF those, q
      <3>2. LET f == Selected(q, those)
            IN  \E e \in [1 .. Len(f) -> 1 .. Len(q)] :
                  /\ f \in Seq(those)
                  /\ \A k \in 1 .. Len(f) : f[k] = q[e[k]]
                  /\ \A j \in 1 .. Len(q) : q[j] \in those => \E k \in 1 .. Len(f) : e[k] = j
        <4>1. Len(q) \in Nat
          BY <3>1 DEF q
        <4> QED BY <4>1, SelectedPlaces
      <3> QED BY <3>2 DEF those, q
    <2>3. DOMAIN s.orphans = 1 .. Len(s.orphans)
      BY <1>1
    <2>4. CASE back = <<>>
      <3>1. Announced(s, d.id) = {}
        <4>1. ASSUME NEW k \in Announced(s, d.id)
              PROVE  FALSE
          <5>1. k \in 1 .. Len(s.orphans) /\ s.orphans[k] \in putBack
            BY <2>3 DEF Announced, SeqRange
          <5> HIDE DEF putBack
          <5>2. PICK l \in 1 .. Len(back) : e[l] = k
            BY <2>2, <5>1
          <5>3. Len(back) = 0
            BY <2>4
          <5> HIDE DEF back
          <5> QED BY <5>2, <5>3
        <4> QED BY <4>1
      <3>2. Carried(s, h, ids \cup {d.id})
        BY <2>1, <3>1, NewSchedule
      <3>3. r = s
        <4> HIDE DEF back, u, t, m, end
        <4> QED BY <1>2, <1>4, <2>4
      <3> QED BY <3>2, <3>3
    <2>5. CASE back # <<>>
      <3>1. 1 \in 1 .. Len(back) /\ o \in putBack
        <4> HIDE DEF putBack, back
        <4>1. Len(back) \in Nat /\ Len(back) # 0 /\ DOMAIN back = 1 .. Len(back)
          BY <2>2, <2>5
        <4> QED BY <2>2, <4>1
      <3> DEFINE j == e[1]
      <3>2. o = s.orphans[j] /\ j \in Announced(s, d.id)
        <4>1. j \in 1 .. Len(s.orphans) /\ o = s.orphans[j]
          <5> HIDE DEF back
          <5> QED BY <2>2, <3>1
        <4>2. o.id = d.id /\ o.announce
          BY <3>1
        <4> HIDE DEF o
        <4> QED BY <2>3, <4>1, <4>2 DEF Announced
      <3> DEFINE v == [scheds |-> marks, orphans |-> rest]
      <3> HIDE DEF j, back
      <3>3. Course(v, h, ids \cup {d.id}) /\ Known(v, h, ids \cup {d.id})
        <4>1. v.orphans = Selected(s.orphans, SeqRange(s.orphans) \ putBack) /\ v.scheds = [s.scheds EXCEPT ![d.id] = mark]
          OBVIOUS
        <4>2. mark = [ran |-> o.ran, missed |-> Never, end |-> o.end, endWall |-> o.endWall]
          OBVIOUS
        <4> HIDE DEF v, marks, mark, o
        <4>3. PutsBack(s, v, d.id, o)
          BY <4>1, <4>2 DEF PutsBack
        <4>4. PutsBack(s, v, d.id, s.orphans[j])
          BY <3>2, <4>3
        <4> HIDE DEF putBack, i, m, back, end, orphan, moved, t, rest, silent, others, u, r
        <4> QED BY <2>1, <3>2, <4>4, PutBack
      <3>4. v.orphans \in Seq(Orphans)
        <4>1. SeqRange(s.orphans) \ putBack \subseteq Orphans
          BY <1>1 DEF SeqRange
        <4>2. rest \in Seq(SeqRange(s.orphans) \ putBack)
          <5>1. Len(s.orphans) \in Nat
            BY <1>1
          <5> HIDE DEF putBack
          <5> QED BY <5>1, SelectedType
        <4> HIDE DEF rest, putBack, marks
        <4>3. rest \in Seq(Orphans)
          BY <4>1, <4>2
        <4> QED BY <4>3
      <3>5. u.scheds = v.scheds /\ u.orphans = others /\ v.orphans = rest
        <4> HIDE DEF marks, others, rest
        <4> QED BY <1>1, Fields DEF Memory
      <3>6. r = u
        BY <1>2, <1>4, <2>5
      <3>7. ~silent.announce
        <4>1. o \in Orphans
          BY <1>1, <3>2 DEF Announced
        <4> HIDE DEF o
        <4> QED BY <4>1 DEF Orphans
      <3>8. u.orphans = v.orphans \/ u.orphans = Append(v.orphans, silent)
        <4> HIDE DEF u, v, silent, rest
        <4> QED BY <3>5
      <3>9. \A l \in Sids \ (ids \cup {d.id}) : u.scheds[l] = NoMemory
        <4>1. \A l : l # d.id => marks[l] = s.scheds[l]
          <5> HIDE DEF mark
          <5> QED BY <1>1 DEF Memory
        <4>2. u.scheds = marks
          <5> HIDE DEF marks, others
          <5> QED BY <1>1, Fields DEF Memory
        <4> HIDE DEF u, marks
        <4> QED BY <4>1, <4>2 DEF Carried
      <3> HIDE DEF u, v, silent, rest, others, marks
      <3>10. Course(u, h, ids \cup {d.id}) /\ Known(u, h, ids \cup {d.id})
        <4>1. CASE u.orphans = v.orphans
          BY <3>3, <3>5, <4>1 DEF Course, Known, InProgram, TakenOut, Announced
        <4>2. CASE u.orphans = Append(v.orphans, silent)
          BY <3>3, <3>4, <3>5, <3>7, <4>2, SilentEnd
        <4> QED BY <3>8, <4>1, <4>2
      <3>11. Memory(u)
        BY <1>1, <3>6
      <3>12. Carried(u, h, ids \cup {d.id})
        BY <3>9, <3>10, <3>11 DEF Carried
      <3> QED BY <3>6, <3>12
    <2> QED BY <2>4, <2>5
  <1>5. Carried(r, h, ids \cup {d.id})
    BY <1>3, <1>4
  <1> QED BY <1>5 DEF r

\* The schedules of the new program.
LEMMA KeepSchedulesCarry ==
  ASSUME now \in Nat, NEW s, NEW h, NEW old, IsProgram(old), DOMAIN old.plots \subseteq Plots,
         Carried(s, h, Ids(old)),
         NEW new, IsProgram(new), DOMAIN new.plots \subseteq Plots, OneEach(new)
  PROVE  Carried(KeepSchedules(s, old, new), h, Ids(old) \cup Ids(new))
  <1> DEFINE q == new.schedules
             N == Len(q)
             so(n) == Ids(old) \cup {q[k].id : k \in 1 .. n}
  <1>1. N \in Nat /\ DOMAIN q = 1 .. N
    BY DEF IsProgram
  <1>2. PICK f : /\ f[0] = s /\ f[N] = KeepSchedules(s, old, new)
                 /\ \A n \in 1 .. N : f[n] = CarrySchedule(f[n - 1], q[n], old, new)
    BY <1>1, KeepSchedulesFold
  <1> DEFINE T == {n \in 0 .. N : Carried(f[n], h, so(n))}
  <1>3. 0 \in T
    <2>1. 1 .. 0 = {} /\ 0 \in 0 .. N
      BY <1>1
    <2>2. so(0) = Ids(old)
      BY <2>1
    <2> HIDE DEF so
    <2> QED BY <1>2, <2>1, <2>2
  <1>4. ASSUME NEW n \in 0 .. N, n < N, n \in T
        PROVE  n + 1 \in T
    <2> DEFINE d == q[n + 1]
    <2>1. n + 1 \in 1 .. N /\ (n + 1) - 1 = n /\ n + 1 \in 0 .. N /\ n \in Nat
      BY <1>1, <1>4
    <2>2. d \in SeqRange(q)
      BY <1>1, <2>1 DEF SeqRange
    <2>3. \A k \in 1 .. n : k \in 1 .. N /\ k # n + 1
      BY <1>1, <2>1
    <2>4. d.id \in Ids(old) \/ d.id \notin so(n)
      BY <1>1, <2>1, <2>3 DEF OneEach
    <2>5. 1 .. n + 1 = 1 .. n \cup {n + 1}
      BY <2>1
    <2>6. so(n + 1) = so(n) \cup {d.id}
      BY <2>5
    <2>7. Carried(f[n], h, so(n)) /\ Ids(old) \subseteq so(n)
      BY <1>4
    <2>8. f[n + 1] = CarrySchedule(f[n], d, old, new)
      BY <1>2, <2>1
    <2> HIDE DEF d, so, T
    <2>9. Carried(f[n + 1], h, so(n) \cup {d.id})
      BY <2>2, <2>4, <2>7, <2>8, CarryScheduleCarries
    <2> QED BY <2>1, <2>6, <2>9 DEF T
  <1> HIDE DEF T
  <1>5. N \in T
    BY <1>1, <1>3, <1>4, Induct
  <1>6. so(N) = Ids(old) \cup Ids(new)
    BY <1>1 DEF Ids, SeqRange
  <1> HIDE DEF so
  <1> QED BY <1>2, <1>5, <1>6 DEF T

\* A schedule that is taken out.
LEMMA LeaveScheduleLeaves ==
  ASSUME NEW s, Memory(s), NEW h, NEW ids, Course(s, h, ids),
         NEW old, IsProgram(old), DOMAIN old.plots \subseteq Plots,
         NEW d \in SeqRange(old.schedules), d.id \in ids
  PROVE  LET t == LeaveSchedule(s, d, old)
         IN  Memory(t) /\ Course(t, h, ids \ {d.id}) /\ t.scheds = s.scheds
  <1> DEFINE i == d.id
             m == s.scheds[d.id]
             end == StableEnd(old, d)
             orphan == OrphanOf(d.id, m, end, TRUE)
             more == IF m.end = Never THEN s.orphans ELSE Append(s.orphans, orphan)
             t == LeaveSchedule(s, d, old)
  <1>1. t = [s EXCEPT !.orphans = more]
    BY Fields DEF LeaveSchedule, Memory
  <1>2. Memory(t)
    BY LeaveScheduleHolds DEF Holds
  <1> HIDE DEF t
  <1>3. t.scheds = s.scheds /\ t.orphans = more
    <2> HIDE DEF more
    <2> QED BY <1>1, Fields DEF Memory
  <1>4. d.id \in Sids /\ s.orphans \in Seq(Orphans)
    BY ScheduleFacts DEF Memory
  <1>5. InProgram(s, h, d.id)
    BY <1>4 DEF Course
  <1>6. orphan.id = d.id /\ orphan.announce /\ orphan.end = m.end /\ orphan.ran = m.ran /\ orphan.endWall = m.endWall
    BY DEF OrphanOf
  <1>7. CASE m.end = Never
    <2>1. t.orphans = s.orphans
      BY <1>3, <1>7
    <2>2. \A l : Announced(t, l) = Announced(s, l)
      BY <2>1 DEF Announced
    <2>3. TakenOut(t, h, d.id)
      BY <1>5, <1>7, <2>2 DEF InProgram, Sound, TakenOut
    <2>4. \A l : (InProgram(s, h, l) => InProgram(t, h, l)) /\ (TakenOut(s, h, l) => TakenOut(t, h, l))
      BY <1>3, <2>1, <2>2, AsBefore
    <2> HIDE DEF i, m, end, orphan, more
    <2>5. Course(t, h, ids \ {d.id})
      BY <2>3, <2>4 DEF Course
    <2> QED BY <1>2, <1>3, <2>5 DEF t
  <1>8. CASE m.end # Never
    <2> HIDE DEF orphan
    <2>1. t.orphans = Append(s.orphans, orphan)
      BY <1>3, <1>8
    <2>2. \A l : AlsoWaits(s, t, orphan, l)
      BY <1>4, <2>1, OneMoreWaits
    <2>3. \A l : l # d.id => (InProgram(s, h, l) => InProgram(t, h, l)) /\ (TakenOut(s, h, l) => TakenOut(t, h, l))
      <3>1. ASSUME NEW l, l # d.id
            PROVE  (InProgram(s, h, l) => InProgram(t, h, l)) /\ (TakenOut(s, h, l) => TakenOut(t, h, l))
        <4>1. AlsoWaits(s, t, orphan, l) /\ orphan.id # l /\ t.scheds[l] = s.scheds[l]
          BY <1>3, <1>6, <2>2, <3>1
        <4> HIDE DEF i, m, end, more
        <4>2. Announced(t, l) = Announced(s, l)
          BY <4>1 DEF AlsoWaits
        <4>3. \A k \in Announced(s, l) : t.orphans[k] = s.orphans[k]
          BY <4>1 DEF AlsoWaits
        <4> QED BY <4>1, <4>2, <4>3, AsBefore
      <3> QED BY <3>1
    <2> DEFINE last == Len(s.orphans) + 1
    <2>4. Announced(t, d.id) = {last} /\ t.orphans[last] = orphan
      <3>1. Announced(s, d.id) = {}
        BY <1>5 DEF InProgram
      <3> QED BY <1>6, <2>2, <3>1 DEF AlsoWaits
    <2> HIDE DEF last
    <2>5. Waits(orphan, h, d.id) /\ h.open[d.id] # Never
      <3>1. Sound(d.id, m, h.late) /\ h.open[d.id] = m.endWall /\ \A b \in h.begun : b[1] = d.id => b[2] <= m.ran
        BY <1>5 DEF InProgram
      <3> HIDE DEF m
      <3> QED BY <1>6, <1>8, <3>1 DEF Waits, Sound, Goes
    <2>6. TakenOut(t, h, d.id)
      BY <2>4, <2>5 DEF TakenOut
    <2> HIDE DEF i, m, end, more
    <2>7. Course(t, h, ids \ {d.id})
      BY <2>3, <2>6 DEF Course
    <2> QED BY <1>2, <1>3, <2>7 DEF t
  <1> QED BY <1>7, <1>8

\* Schedules of a program, with ids of their own, that are all among ids.
Leavers(q, old, ids) ==
  /\ Len(q) \in Nat /\ \A n \in 1 .. Len(q) : q[n] \in SeqRange(old.schedules) /\ q[n].id \in ids
  /\ \A j, k \in 1 .. Len(q) : q[j].id = q[k].id => j = k

\* The ids that are left without them.
IdsWithout(ids, q) == ids \ {q[k].id : k \in 1 .. Len(q)}

\* All that are taken out.
LEMMA LeaveSchedulesLeave ==
  ASSUME NEW s, Memory(s), NEW h, NEW ids, Course(s, h, ids),
         NEW old, IsProgram(old), DOMAIN old.plots \subseteq Plots, NEW q, Leavers(q, old, ids)
  PROVE  LET t == LeaveSchedules(s, q, old)
         IN  Memory(t) /\ Course(t, h, IdsWithout(ids, q)) /\ t.scheds = s.scheds
  <1> DEFINE N == Len(q)
             still(n) == ids \ {q[k].id : k \in 1 .. n}
             t == LeaveSchedules(s, q, old)
  <1>0. /\ N \in Nat /\ \A n \in 1 .. N : q[n] \in SeqRange(old.schedules) /\ q[n].id \in ids
        /\ \A j, k \in 1 .. N : q[j].id = q[k].id => j = k
    BY DEF Leavers
  <1>1. PICK f : /\ f[0] = s /\ f[N] = t
                 /\ \A n \in 1 .. N : f[n] = LeaveSchedule(f[n - 1], q[n], old)
    BY <1>0, LeaveSchedulesFold
  <1> HIDE DEF t
  <1> DEFINE T == {n \in 0 .. N : Memory(f[n]) /\ Course(f[n], h, still(n)) /\ f[n].scheds = s.scheds}
  <1>2. 0 \in T
    <2>1. 1 .. 0 = {} /\ 0 \in 0 .. N
      BY <1>0
    <2>2. still(0) = ids
      BY <2>1
    <2> HIDE DEF still
    <2> QED BY <1>1, <2>1, <2>2
  <1>3. ASSUME NEW n \in 0 .. N, n < N, n \in T
        PROVE  n + 1 \in T
    <2> DEFINE d == q[n + 1]
    <2>1. n + 1 \in 1 .. N /\ (n + 1) - 1 = n /\ n + 1 \in 0 .. N /\ n \in Nat
      BY <1>0, <1>3
    <2>2. d \in SeqRange(old.schedules) /\ d.id \in ids
      BY <1>0, <2>1
    <2>3. \A k \in 1 .. n : k \in 1 .. N /\ k # n + 1
      BY <2>1
    <2>4. d.id \in still(n)
      BY <1>0, <2>1, <2>2, <2>3
    <2>5. 1 .. n + 1 = 1 .. n \cup {n + 1}
      BY <2>1
    <2>6. still(n + 1) = still(n) \ {d.id}
      BY <2>5
    <2>7. Memory(f[n]) /\ Course(f[n], h, still(n)) /\ f[n].scheds = s.scheds
      BY <1>3
    <2>8. f[n + 1] = LeaveSchedule(f[n], d, old)
      BY <1>1, <2>1
    <2> HIDE DEF d, still, T
    <2>9. Memory(f[n + 1]) /\ Course(f[n + 1], h, still(n) \ {d.id}) /\ f[n + 1].scheds = s.scheds
      BY <2>2, <2>4, <2>7, <2>8, LeaveScheduleLeaves
    <2> QED BY <2>1, <2>6, <2>9 DEF T
  <1> HIDE DEF T
  <1>4. N \in T
    BY <1>0, <1>2, <1>3, Induct
  <1>5. Memory(t) /\ Course(t, h, still(N)) /\ t.scheds = s.scheds
    BY <1>1, <1>4 DEF T
  <1>6. still(N) = IdsWithout(ids, q)
    BY DEF IdsWithout
  <1> HIDE DEF still
  <1> QED BY <1>5, <1>6 DEF t

\* Of elements with ids of their own some are selected.
LEMMA SelectedIds ==
  ASSUME NEW those, NEW p, Len(p) \in Nat, \A j, k \in 1 .. Len(p) : p[j].id = p[k].id => j = k,
         NEW r, r = Selected(p, those)
  PROVE  /\ Len(r) \in Nat /\ \A k \in 1 .. Len(r) : r[k] \in those
         /\ \A j, k \in 1 .. Len(r) : r[j].id = r[k].id => j = k
         /\ \A j \in 1 .. Len(p) : p[j] \in those => \E k \in 1 .. Len(r) : r[k] = p[j]
  <1>1. PICK e \in [1 .. Len(r) -> 1 .. Len(p)] :
          /\ r \in Seq(those)
          /\ \A k \in 1 .. Len(r) : r[k] = p[e[k]]
          /\ \A k, l \in 1 .. Len(r) : e[k] = e[l] => k = l
          /\ \A j \in 1 .. Len(p) : p[j] \in those => \E k \in 1 .. Len(r) : e[k] = j
    BY SelectedPlaces
  <1>2. Len(r) \in Nat /\ \A k \in 1 .. Len(r) : r[k] \in those
    BY <1>1
  <1>3. \A j, k \in 1 .. Len(r) : r[j].id = r[k].id => j = k
    BY <1>1
  <1>4. \A j \in 1 .. Len(p) : p[j] \in those => \E k \in 1 .. Len(r) : r[k] = p[j]
    BY <1>1
  <1> QED BY <1>2, <1>3, <1>4

\* Those of the old program, and those of the new one.
LEMMA CarrySchedulesCarry ==
  ASSUME now \in Nat, NEW s, NEW h, NEW old, IsProgram(old), DOMAIN old.plots \subseteq Plots, OneEach(old),
         Carried(s, h, Ids(old)), NEW new, IsProgram(new), DOMAIN new.plots \subseteq Plots, OneEach(new)
  PROVE  Course(CarrySchedules(s, old, new), h, Ids(new))
  <1> DEFINE gone == {d \in SeqRange(old.schedules) : d.id \notin Ids(new)}
             q == Selected(old.schedules, gone)
             ids == Ids(old) \cup Ids(new)
             kept == KeepSchedules(s, old, new)
             left == LeaveSchedules(kept, q, old)
             marks == [i \in Sids |-> IF i \in Ids(new) THEN left.scheds[i] ELSE NoMemory]
             t == [left EXCEPT !.scheds = marks]
  <1>1. CarrySchedules(s, old, new) = t
    BY DEF CarrySchedules
  <1>2. Carried(kept, h, ids)
    BY KeepSchedulesCarry
  <1> HIDE DEF kept
  <1> DEFINE N == Len(old.schedules)
  <1>3. N \in Nat /\ DOMAIN old.schedules = 1 .. N
    BY DEF IsProgram
  <1>4. /\ Len(q) \in Nat /\ \A k \in 1 .. Len(q) : q[k] \in gone
        /\ \A j, k \in 1 .. Len(q) : q[j].id = q[k].id => j = k
        /\ \A j \in 1 .. N : old.schedules[j] \in gone => \E k \in 1 .. Len(q) : q[k] = old.schedules[j]
    <2> DEFINE p == old.schedules
               those == gone
    <2>1. Len(p) \in Nat /\ \A j, k \in 1 .. Len(p) : p[j].id = p[k].id => j = k
      BY <1>3 DEF OneEach
    <2>2. q = Selected(p, those)
      OBVIOUS
    <2> HIDE DEF those, p, q
    <2>3. /\ Len(q) \in Nat /\ \A k \in 1 .. Len(q) : q[k] \in those
          /\ \A j, k \in 1 .. Len(q) : q[j].id = q[k].id => j = k
          /\ \A j \in 1 .. Len(p) : p[j] \in those => \E k \in 1 .. Len(q) : q[k] = p[j]
      BY <2>1, <2>2, SelectedIds
    <2> QED BY <2>3 DEF p, those
  <1> HIDE DEF q
  <1>5. Len(q) \in Nat /\ \A k \in 1 .. Len(q) : q[k] \in gone
    BY <1>4
  <1>6. \A k \in 1 .. Len(q) : q[k] \in SeqRange(old.schedules) /\ q[k].id \in Ids(old) /\ q[k].id \notin Ids(new)
    BY <1>5 DEF Ids
  <1>7. \A j, k \in 1 .. Len(q) : q[j].id = q[k].id => j = k
    BY <1>4
  <1>8. ids \ {q[k].id : k \in 1 .. Len(q)} = Ids(new)
    <2>1. ASSUME NEW i \in Ids(old), i \notin Ids(new)
          PROVE  \E k \in 1 .. Len(q) : q[k].id = i
      <3>1. PICK j \in 1 .. N : old.schedules[j].id = i
        BY <1>3 DEF Ids, SeqRange
      <3>2. old.schedules[j] \in gone
        BY <1>3, <2>1, <3>1 DEF SeqRange
      <3> HIDE DEF gone
      <3>3. PICK k \in 1 .. Len(q) : q[k] = old.schedules[j]
        BY <1>4, <3>2
      <3> QED BY <3>1, <3>3
    <2> QED BY <1>6, <2>1
  <1> HIDE DEF gone
  <1>9. Memory(left) /\ Course(left, h, Ids(new))
    <2>1. Memory(kept) /\ Course(kept, h, ids)
      BY <1>2 DEF Carried
    <2>2. \A k \in 1 .. Len(q) : q[k] \in SeqRange(old.schedules) /\ q[k].id \in ids
      BY <1>6
    <2>3. IdsWithout(ids, q) = Ids(new)
      BY <1>8 DEF IdsWithout
    <2> HIDE DEF ids, N, marks, t
    <2>4. Leavers(q, old, ids)
      BY <1>5, <1>7, <2>2 DEF Leavers
    <2>5. Memory(left) /\ Course(left, h, IdsWithout(ids, q))
      BY <2>1, <2>4, LeaveSchedulesLeave
    <2> HIDE DEF left
    <2> QED BY <2>3, <2>5
  <1> HIDE DEF left, ids
  <1>10. t.scheds = marks /\ t.orphans = left.orphans
    <2> HIDE DEF marks
    <2> QED BY <1>9, Fields DEF Memory
  <1>11. \A i : Announced(t, i) = Announced(left, i)
    BY <1>10 DEF Announced
  <1>12. \A i \in Sids : i \in Ids(new) => t.scheds[i] = left.scheds[i]
    BY <1>10
  <1> HIDE DEF t
  <1>13. Course(t, h, Ids(new))
    BY <1>9, <1>10, <1>11, <1>12 DEF Course, InProgram, TakenOut
  <1> QED BY <1>1, <1>13

\* Those that remember and wait for the same.
LEMMA SameCourse ==
  ASSUME NEW s, NEW t, t.scheds = s.scheds, t.orphans = s.orphans, NEW h, NEW ids
  PROVE  (Course(s, h, ids) => Course(t, h, ids)) /\ (Known(s, h, ids) => Known(t, h, ids))
  BY DEF Course, Known, InProgram, TakenOut, Announced

\* A take-over.
LEMMA TakeOverCarries ==
  ASSUME now \in Nat, NEW s, NEW h, NEW old, IsProgram(old), DOMAIN old.plots \subseteq Plots, OneEach(old),
         Carried(s, h, Ids(old)), OfProgram(old, s),
         NEW new, IsProgram(new), DOMAIN new.plots \subseteq Plots, OneEach(new)
  PROVE  Course(TakeOver(s, old, new), h, Ids(new)) /\ TakeOver(s, old, new).due
  <1> DEFINE v == CarryValues(s, old, new)
             a == CarryRules(v, old, new)
             b == CarrySchedules(a, old, new)
             c == EndRemovedRuns(b, old, new)
             d == PlanReleases(c, old, new)
             e == [d EXCEPT !.due = TRUE, !.told = <<>>]
  <1>1. TakeOver(s, old, new) = e
    BY DEF TakeOver
  <1>2. Memory(s)
    BY DEF Carried
  <1>3. Holds(s, a)
    BY <1>2, CarryHolds
  <1>4. v.scheds = s.scheds /\ v.orphans = s.orphans /\ DOMAIN v = DOMAIN Fresh
    BY <1>2, Fields DEF CarryValues, Memory
  <1> HIDE DEF v
  <1>5. a.scheds = v.scheds /\ a.orphans = v.orphans
    BY <1>4, Fields DEF CarryRules
  <1> HIDE DEF a
  <1>6. Carried(a, h, Ids(old))
    <2>1. Course(a, h, Ids(old)) /\ Known(a, h, Ids(old))
      BY <1>4, <1>5, SameCourse DEF Carried
    <2> QED BY <1>3, <1>4, <1>5, <2>1 DEF Carried, Holds
  <1>7. Course(b, h, Ids(new))
    BY <1>6, CarrySchedulesCarry
  <1>8. Holds(a, b) /\ \A i \in Sids \ Ids(new) : b.scheds[i] = NoMemory
    BY <1>3, CarrySchedulesHolds DEF Holds
  <1> HIDE DEF b
  <1>9. Memory(b) /\ DOMAIN b.runs \subseteq DOMAIN old.plots
    BY <1>3, <1>8 DEF Holds, OfProgram
  <1>10. Same(new, b, c)
    BY <1>8, <1>9, EndRemovedRunsKeeps
  <1> HIDE DEF c
  <1>11. c.scheds = b.scheds /\ c.orphans = b.orphans /\ DOMAIN c = DOMAIN Fresh
    BY <1>10 DEF Same, Keeps, Memory
  <1>12. d.scheds = c.scheds /\ d.orphans = c.orphans /\ DOMAIN d = DOMAIN Fresh
    BY <1>11, Fields DEF PlanReleases
  <1> HIDE DEF d
  <1>13. e.scheds = d.scheds /\ e.orphans = d.orphans /\ e.due
    BY <1>12, Fields
  <1> HIDE DEF e
  <1>14. Course(e, h, Ids(new))
    BY <1>7, <1>11, <1>12, <1>13, SameCourse
  <1> QED BY <1>1, <1>13, <1>14

\* A new program takes over.
LEMMA ReloadRuns ==
  ASSUME SchedulesApart, Types, RunsInv, NEW n \in DOMAIN Program, Reload(n)
  PROVE  RunsInv'
  <1> DEFINE new == Program[n]
             leaving == seen.leaving \cup LeavingValves(new)
             lost == seen.lost \cup NotDriven(new)
             k == [seen EXCEPT !.reloaded = TRUE, !.leaving = leaving, !.lost = lost]
  <1>1. /\ IsProgram(P) /\ DOMAIN P.plots \subseteq Plots /\ OneEach(P)
        /\ IsProgram(new) /\ DOMAIN new.plots \subseteq Plots /\ OneEach(new)
    BY ProgramFacts, ApartFacts DEF Types, World, P, SchedulesApart, OneEach
  <1>2. rt' = TakeOver(rt, P, new) /\ seen' = Forgets(k, new, rt')
    BY DEF Reload
  <1>3. /\ P' = new /\ up /\ up' /\ ~passed' /\ disk' = disk /\ older' = older /\ now' = now /\ now \in Nat
        /\ Types'
    <2>1. Types'
      BY ReloadTypes
    <2>2. now \in Nat
      BY DEF Types, World
    <2> QED BY <2>1, <2>2 DEF Reload, P
  <1>4. History(seen) /\ (\A i \in Sids : Recorded(i, disk.scheds[i]) /\ Recorded(i, older.scheds[i]))
    BY DEF RunsInv
  <1>5. Running(rt, seen, P, disk)
    BY <1>3 DEF RunsInv
  <1> HIDE DEF new, leaving, lost
  <1>6. /\ DOMAIN k = DOMAIN NotSeen /\ k.open = seen.open /\ k.begun = seen.begun /\ k.late = seen.late
        /\ (k.amiss <=> seen.amiss) /\ (k.stale <=> seen.stale)
    BY <1>4, SeenFields DEF History
  <1> HIDE DEF k
  <1>7. /\ DOMAIN seen' = DOMAIN NotSeen /\ seen'.open = seen.open /\ seen'.late = seen.late
        /\ seen'.begun = {b \in seen.begun : b[1] \in KnownIds(new, rt')}
        /\ (seen'.amiss <=> seen.amiss) /\ (seen'.stale <=> seen.stale)
    BY <1>2, <1>6, SeenFields DEF Forgets
  <1>8. Carried(rt, seen, Ids(P)) /\ OfProgram(P, rt)
    BY <1>5 DEF Running, Carried, Types, Remembered, OfProgram
  <1>9. Course(rt', seen, Ids(new)) /\ rt'.due
    BY <1>1, <1>2, <1>3, <1>8, TakeOverCarries
  <1>10. Course(rt', seen', Ids(new))
    BY <1>7, <1>9 DEF Course, InProgram, TakenOut, Waits
  <1>11. Known(rt', seen', Ids(new))
    <2>1. ASSUME NEW b \in seen'.begun, b[1] \notin Ids(new)
          PROVE  Announced(rt', b[1]) # {}
      <3>1. b[1] \in KnownIds(new, rt')
        BY <1>7, <2>1
      <3>2. PICK o \in SeqRange(rt'.orphans) : o.announce /\ o.id = b[1]
        BY <2>1, <3>1 DEF KnownIds
      <3>3. PICK j \in DOMAIN rt'.orphans : o = rt'.orphans[j]
        BY DEF SeqRange
      <3>4. j \in Announced(rt', b[1])
        BY <3>2, <3>3 DEF Announced
      <3> QED BY <3>4
    <2> QED BY <2>1 DEF Known
  <1>12. History(seen')
    BY <1>4, <1>7 DEF History
  <1>13. Running(rt', seen', P', disk')
    BY <1>3, <1>5, <1>7, <1>9, <1>10, <1>11 DEF Running
  <1> QED BY <1>3, <1>4, <1>12, <1>13, RunsThen

\* The first state.
LEMMA InitRuns ==
  ASSUME Init
  PROVE  RunsInv
  <1>1. /\ now = 0 /\ rt = Fresh /\ disk = RecordOf(Fresh) /\ older = RecordOf(Fresh) /\ seen = NotSeen
        /\ up /\ ~passed
    BY DEF Init
  <1>2. 0 \div Day \in Nat
    BY Days
  <1>3. /\ Fresh.scheds = [i \in Sids |-> NoMemory] /\ Fresh.orphans = <<>>
        /\ NoMemory = [ran |-> Never, missed |-> Never, end |-> Never, endWall |-> Never]
    BY DEF Fresh, NoMemory
  <1>4. /\ RecordOf(Fresh).scheds = [i \in Sids |-> [Fresh.scheds[i] EXCEPT !.end = Never]]
        /\ \A i \in Sids : RecordOf(Fresh).scheds[i] = NoMemory
    BY <1>3 DEF RecordOf
  <1>5. \A i : Announced(rt, i) = {}
    <2>1. DOMAIN Fresh.orphans = {}
      BY <1>3
    <2> QED BY <1>1, <2>1 DEF Announced
  <1>6. /\ NotSeen.open = [i \in Sids |-> Never] /\ NotSeen.begun = {} /\ NotSeen.late = 0
        /\ ~NotSeen.amiss /\ ~NotSeen.stale
    BY DEF NotSeen
  <1>7. History(seen)
    BY <1>1, <1>6 DEF History
  <1>8. \A i : Sound(i, NoMemory, 0) /\ Recorded(i, NoMemory)
    BY <1>1, <1>2, <1>3 DEF Sound, Recorded, Never
  <1>9. Course(rt, seen, Ids(P))
    BY <1>1, <1>3, <1>5, <1>6, <1>8 DEF Course, InProgram, TakenOut
  <1>10. Known(rt, seen, Ids(P))
    BY <1>1, <1>6 DEF Known
  <1>11. Running(rt, seen, P, disk)
    BY <1>1, <1>4, <1>6, <1>9, <1>10 DEF Running
  <1> QED BY <1>1, <1>4, <1>7, <1>8, <1>11 DEF RunsInv

\* Every step keeps the invariant of the runs.
LEMMA RunsStep ==
  ASSUME SchedulesApart, Types, RunsInv, [Next]_vars
  PROVE  RunsInv'
  <1>1. CASE Pass
    BY <1>1, PassRuns
  <1>2. CASE Tick \/ AlarmChange \/ ClockTrusted \/ (\E c \in Commands(P) : Command(c))
                \/ \E l \in WeakLines : WritesFail(l)
    BY <1>2, OtherRuns
  <1>3. CASE \E n \in DOMAIN Program : Reload(n)
    BY <1>3, ReloadRuns
  <1>4. CASE Stop \/ Kill
    BY <1>4, ProcessEnds
  <1>5. CASE Restart
    BY <1>5, RestartRuns
  <1>6. CASE UNCHANGED vars
    <2>1. Types'
      BY TypesStep
    <2>2. /\ UNCHANGED <<rt, prog, disk, older, up>> /\ now' = now /\ now <= now' /\ seen' = seen
          /\ (passed' => passed)
      BY <1>6 DEF vars, Types, World
    <2>3. SameRuns(seen, seen')
      BY <2>2 DEF SameRuns, RunsInv, History
    <2> QED BY <2>1, <2>2, <2>3, UnchangedRuns
  <1> QED BY <1>1, <1>2, <1>3, <1>4, <1>5, <1>6 DEF Next

\* What the invariant of the runs says of the ends that a schedule has.
LEMMA OneEnd ==
  ASSUME Types, RunsInv, up, NEW i \in Sids
  PROVE  IF seen.open[i] = Never THEN EndsOf(i) = {}
         ELSE \E e \in EndsOf(i) : /\ EndsOf(i) = {e}
                                   /\ e \in seen.open[i] .. seen.open[i] + seen.late
                                   /\ Settled => now < e
  <1>1. /\ Course(rt, seen, Ids(P)) /\ (passed => Sooner(rt)) /\ seen.late \in Nat
        /\ rt.orphans \in Seq(Orphans) /\ rt.scheds[i] \in Memories
    BY DEF RunsInv, Running, History, Types, Remembered, Memory
  <1> DEFINE waits == {rt.orphans[k].end : k \in Announced(rt, i)}
             own == {rt.scheds[i].end} \ {Never}
  <1>2. EndsOf(i) = waits \cup own
    BY DEF EndsOf, Announced, SeqRange
  <1>3. ASSUME NEW m, Goes(i, m, seen.late), m.end \in Nat, seen.open[i] = m.endWall, EndsOf(i) = {m.end},
               passed => now < m.end
        PROVE  /\ seen.open[i] # Never
               /\ \E e \in EndsOf(i) : /\ EndsOf(i) = {e}
                                       /\ e \in seen.open[i] .. seen.open[i] + seen.late
                                       /\ Settled => now < e
    <2>1. m.endWall \in Nat /\ m.endWall <= m.end /\ m.end <= m.endWall + seen.late
      BY <1>3 DEF Goes, Bounded
    <2>2. seen.open[i] # Never
      BY <1>3, <2>1 DEF Never
    <2>3. m.end \in seen.open[i] .. seen.open[i] + seen.late
      BY <1>1, <1>3, <2>1
    <2> QED BY <1>3, <2>2, <2>3 DEF Settled
  <1>4. CASE i \in Ids(P)
    <2> DEFINE m == rt.scheds[i]
    <2>1. /\ Announced(rt, i) = {} /\ Sound(i, m, seen.late) /\ seen.open[i] = m.endWall
      BY <1>1, <1>4 DEF Course, InProgram
    <2>2. waits = {}
      BY <2>1
    <2>3. CASE m.end = Never
      <3>1. own = {} /\ seen.open[i] = Never
        BY <2>1, <2>3 DEF Sound
      <3> QED BY <1>2, <2>2, <3>1
    <2>4. CASE m.end # Never
      <3>1. EndsOf(i) = {m.end} /\ m.end \in Nat /\ Goes(i, m, seen.late)
        BY <1>1, <1>2, <2>1, <2>2, <2>4 DEF Sound, Memories
      <3>2. passed => now < m.end
        BY <1>1, <2>4 DEF Sooner
      <3> HIDE DEF m
      <3> QED BY <1>3, <2>1, <3>1, <3>2
    <2> QED BY <2>3, <2>4
  <1>5. CASE i \notin Ids(P)
    <2>1. TakenOut(rt, seen, i)
      BY <1>1, <1>5 DEF Course
    <2>2. rt.scheds[i] = NoMemory
      BY <1>5 DEF Types, Remembered, OfProgram
    <2>3. own = {}
      BY <2>2 DEF NoMemory
    <2>4. CASE Announced(rt, i) = {}
      BY <1>2, <2>1, <2>3, <2>4 DEF TakenOut
    <2>5. ASSUME NEW k \in Announced(rt, i)
          PROVE  /\ seen.open[i] # Never
                 /\ \E e \in EndsOf(i) : /\ EndsOf(i) = {e}
                                         /\ e \in seen.open[i] .. seen.open[i] + seen.late
                                         /\ Settled => now < e
      <3> DEFINE o == rt.orphans[k]
      <3>1. o \in SeqRange(rt.orphans) /\ o \in Orphans
        BY <1>1 DEF Announced, SeqRange
      <3>2. Waits(o, seen, i) /\ waits = {o.end}
        BY <2>1 DEF TakenOut
      <3>3. passed => now < o.end
        BY <1>1, <3>1 DEF Sooner
      <3>4. EndsOf(i) = {o.end}
        BY <1>2, <2>3, <3>2
      <3> HIDE DEF o
      <3>5. o.end \in Nat
        BY <3>1 DEF Orphans
      <3> QED BY <1>3, <3>2, <3>3, <3>4, <3>5 DEF Waits
    <2> QED BY <2>4, <2>5
  <1> QED BY <1>4, <1>5

\* RunsEndAsStarted, at all times, when a schedule's run is over before its next start: a schedule that started ends
\* once, at its time, told, whatever programs take over in between (_carry_schedules, _end_orphans), and a restart
\* goes on with it or tells that it was cut short (load_ir, _load_schedules).
THEOREM RunsEnd ==
  ASSUME SchedulesApart
  PROVE  Spec => []RunsEndAsStarted
  <1> DEFINE Inv == Types /\ RunsInv
  <1>1. Init => Inv
    BY InitTypes, InitRuns
  <1>2. Inv /\ [Next]_vars => Inv'
    BY TypesStep, RunsStep
  <1>3. Inv => RunsEndAsStarted
    BY OneEnd DEF RunsInv, History, RunsEndAsStarted
  <1> QED BY <1>1, <1>2, <1>3, PTL DEF Spec

=============================================================================
