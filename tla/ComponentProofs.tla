-------------------------- MODULE ComponentProofs ---------------------------
(***************************************************************************)
(* Proofs about three components that share no state: the buffered store,  *)
(* the proxy's transformations and delta replay, for every value of their  *)
(* constants. Functions that the models compute step by step, over a       *)
(* batch, a queue or a list of edits, are shown to exist and to be what    *)
(* their steps say; inductions go by the least counterexample.             *)
(***************************************************************************)
EXTENDS BufferedStore, ProxyWindow, DeltaReplay,
        FiniteSetTheorems, NaturalsInduction, WellFoundedInduction, SequenceTheorems, TLAPS

\* A set of naturals that is not empty has a least member: inductions below
\* look at the least counterexample.
LEMMA LeastNatural ==
    ASSUME NEW T, T \subseteq Nat, T # {}
    PROVE  \E x \in T : \A y \in T : x <= y
<1>1. \E x \in T : \A y \in T : ~ (<<y, x>> \in OpToRel(<, Nat))
  BY NatLessThanWellFounded, WFMin
<1>2. PICK x \in T : \A y \in T : ~ (<<y, x>> \in OpToRel(<, Nat))
  BY <1>1
<1>3. ASSUME NEW y \in T PROVE x <= y
  <2>1. ~ (<<y, x>> \in {ss \in Nat \X Nat : ss[1] < ss[2]})
    BY <1>2 DEF OpToRel
  <2>2. y \in Nat /\ x \in Nat
    OBVIOUS
  <2> QED BY <2>1, <2>2
<1> QED BY <1>3

-----------------------------------------------------------------------------
(***************************************************************************)
(* DeltaReplay                                                             *)
(***************************************************************************)

\* A function that is computed step by step is the one that satisfies the steps.
LEMMA StepsDetermine ==
    ASSUME NEW n \in Nat, NEW f, NEW g, f[0] = g[0],
           \A k \in 1..n : f[k - 1] = g[k - 1] => f[k] = g[k]
    PROVE  \A k \in 0..n : f[k] = g[k]
<1>. DEFINE T == {k \in 0..n : f[k] # g[k]}
<1>1. SUFFICES ASSUME T # {} PROVE FALSE
  OBVIOUS
<1>2. PICK k \in T : \A y \in T : k <= y
  <2>1. T \subseteq Nat
    OBVIOUS
  <2>. QED  BY <1>1, <2>1, LeastNatural
<1>3. k \in 1..n /\ k - 1 \in 0..n /\ k - 1 \notin T
  BY <1>2
<1>. QED  BY <1>2, <1>3

-----------------------------------------------------------------------------
LEMMA PrefixFacts ==
    ASSUME NEW S, NEW base \in Seq(S), NEW target \in Seq(S)
    PROVE  /\ CommonPrefix(base, target) \in 0..Len(base)
           /\ CommonPrefix(base, target) <= Len(target)
           /\ \A i \in 1..CommonPrefix(base, target) : base[i] = target[i]
<1>. DEFINE T == {n \in 0..Len(base) : n = Len(base) \/ n = Len(target) \/ base[n + 1] # target[n + 1]}
            P(n) == /\ n <= Len(target) /\ \A i \in 1..n : base[i] = target[i]
                    /\ n < Len(base) /\ n < Len(target) => base[n + 1] # target[n + 1]
<1>1. T \subseteq Nat /\ Len(base) \in T /\ Len(base) \in Nat /\ Len(target) \in Nat
  OBVIOUS
<1>2. PICK n \in T : \A y \in T : n <= y
  BY <1>1, LeastNatural
<1>3. n <= Len(target)
  <2>1. CASE Len(target) <= Len(base)
    <3>1. Len(target) \in T
      BY <2>1, <1>1
    <3>. QED  BY <3>1, <1>2
  <2>2. CASE Len(base) < Len(target)
    BY <2>2, <1>1, <1>2
  <2>. QED  BY <2>1, <2>2, <1>1
<1>4. ASSUME NEW i \in 1..n PROVE base[i] = target[i]
  <2>1. i - 1 \in 0..Len(base) /\ i - 1 < n
    BY <1>1, <1>2
  <2>2. i - 1 \notin T
    <3>1. n \in Nat
      BY <1>1, <1>2
    <3>. HIDE DEF T
    <3>2. i - 1 \in T => n <= i - 1
      BY <1>2
    <3>. QED  BY <2>1, <3>1, <3>2
  <2>. QED  BY <2>1, <2>2
<1>5. \E m \in 0..Len(base) : P(m)
  <2>1. n \in 0..Len(base) /\ P(n)
    BY <1>1, <1>2, <1>3, <1>4
  <2>. QED  BY <2>1
<1>6. CommonPrefix(base, target) = (CHOOSE m \in 0..Len(base) : P(m))
  BY DEF CommonPrefix
<1>. HIDE DEF P
<1>7. CommonPrefix(base, target) \in 0..Len(base) /\ P(CommonPrefix(base, target))
  BY <1>5, <1>6
<1>. QED  BY <1>7 DEF P

\* The common suffix begins behind the common prefix and is equal throughout.
LEMMA SuffixFacts ==
    ASSUME NEW S, NEW base \in Seq(S), NEW target \in Seq(S)
    PROVE  /\ CommonSuffix(base, target) \in 0..(Len(base) - CommonPrefix(base, target))
           /\ CommonSuffix(base, target) <= Len(target) - CommonPrefix(base, target)
           /\ \A i \in 0..(CommonSuffix(base, target) - 1) :
                 base[Len(base) - i] = target[Len(target) - i]
<1>. DEFINE p == CommonPrefix(base, target)
            T == {n \in 0..(Len(base) - p) : \/ n = Len(base) - p \/ n = Len(target) - p
                                             \/ base[Len(base) - n] # target[Len(target) - n]}
            P(n) == /\ n <= Len(target) - p
                    /\ \A i \in 0..(n - 1) : base[Len(base) - i] = target[Len(target) - i]
                    /\ n < Len(base) - p /\ n < Len(target) - p
                          => base[Len(base) - n] # target[Len(target) - n]
<1>1. /\ p \in Nat /\ p <= Len(base) /\ p <= Len(target)
      /\ Len(base) \in Nat /\ Len(target) \in Nat
  BY PrefixFacts
<1>. HIDE DEF p
<1>2. T \subseteq Nat /\ Len(base) - p \in T
  BY <1>1
<1>3. PICK n \in T : \A y \in T : n <= y
  BY <1>2, LeastNatural
<1>4. n <= Len(target) - p
  <2>1. CASE Len(target) <= Len(base)
    <3>1. Len(target) - p \in T
      BY <2>1, <1>1
    <3>. QED  BY <3>1, <1>3
  <2>2. CASE Len(base) < Len(target)
    BY <2>2, <1>1, <1>3
  <2>. QED  BY <2>1, <2>2, <1>1
<1>5. ASSUME NEW i \in 0..(n - 1) PROVE base[Len(base) - i] = target[Len(target) - i]
  <2>1. i \in 0..(Len(base) - p) /\ i \notin T
    BY <1>1, <1>3
  <2>. QED  BY <2>1
<1>6. \E m \in 0..(Len(base) - p) : P(m)
  <2>1. n \in 0..(Len(base) - p) /\ P(n)
    BY <1>1, <1>3, <1>4, <1>5
  <2>. QED  BY <2>1
<1>7. CommonSuffix(base, target) = (CHOOSE m \in 0..(Len(base) - p) : P(m))
  BY DEF CommonSuffix, p
<1>. HIDE DEF P
<1>8. CommonSuffix(base, target) \in 0..(Len(base) - p) /\ P(CommonSuffix(base, target))
  BY <1>6, <1>7
<1>. QED  BY <1>8 DEF P, p

-----------------------------------------------------------------------------
\* The first a tuples of the target, then the base without its first b.
Mixed(base, target, a, b) ==
    [i \in 1..(a + Len(base) - b) |-> IF i <= a THEN target[i] ELSE base[i - a + b]]

\* A mix of two versions: the length, and what one edit makes of it.
LEMMA MixedLength ==
    ASSUME NEW S, NEW base \in Seq(S), NEW target \in Seq(S),
           NEW a \in 0..Len(target), NEW b \in 0..Len(base)
    PROVE  /\ Mixed(base, target, a, b) \in Seq(S)
           /\ Len(Mixed(base, target, a, b)) = a + Len(base) - b
<1>1. a + Len(base) - b \in Nat
  OBVIOUS
<1>2. ASSUME NEW i \in 1..(a + Len(base) - b)
      PROVE  (IF i <= a THEN target[i] ELSE base[i - a + b]) \in S
  <2>1. CASE i <= a
    BY <2>1
  <2>2. CASE i > a
    <3>1. i - a + b \in 1..Len(base)
      BY <2>2
    <3>. QED  BY <2>2, <3>1
  <2>. QED  BY <2>1, <2>2
<1>. QED  BY <1>1, <1>2 DEF Mixed

LEMMA MixedReplace ==
    ASSUME NEW S, NEW base \in Seq(S), NEW target \in Seq(S),
           NEW a \in 0..Len(target), NEW b \in 0..Len(base), a < Len(target), b < Len(base)
    PROVE  [Mixed(base, target, a, b) EXCEPT ![a + 1] = target[a + 1]]
              = Mixed(base, target, a + 1, b + 1)
<1>. DEFINE m == Mixed(base, target, a, b)
            n == a + Len(base) - b
<1>1. n \in Nat /\ Len(m) = n
  BY MixedLength
<1>2. \A i \in 1..n : m[i] = IF i <= a THEN target[i] ELSE base[i - a + b]
  BY DEF Mixed
<1>3. DOMAIN m = 1..n
  BY DEF Mixed
<1>. HIDE DEF m
<1>4. ASSUME NEW i \in 1..n
      PROVE  (IF i = a + 1 THEN target[a + 1] ELSE m[i])
                = IF i <= a + 1 THEN target[i] ELSE base[i - (a + 1) + (b + 1)]
  <2>1. i - (a + 1) + (b + 1) = i - a + b
    BY <1>1
  <2>. QED  BY <1>1, <1>2, <2>1
<1>5. [m EXCEPT ![a + 1] = target[a + 1]]
         = [i \in 1..n |-> IF i = a + 1 THEN target[a + 1] ELSE m[i]]
  BY <1>3
<1>6. Mixed(base, target, a + 1, b + 1)
         = [i \in 1..n |-> IF i <= a + 1 THEN target[i] ELSE base[i - (a + 1) + (b + 1)]]
  <2>1. (a + 1) + Len(base) - (b + 1) = n
    OBVIOUS
  <2>. QED  BY <2>1 DEF Mixed
<1>. HIDE DEF n
<1>7. [m EXCEPT ![a + 1] = target[a + 1]] = Mixed(base, target, a + 1, b + 1)
  BY <1>4, <1>5, <1>6
<1>. QED  BY <1>7 DEF m

LEMMA MixedRemove ==
    ASSUME NEW S, NEW base \in Seq(S), NEW target \in Seq(S),
           NEW a \in 0..Len(target), NEW b \in 0..Len(base), b < Len(base)
    PROVE  RemoveIn(Mixed(base, target, a, b), a + 1) = Mixed(base, target, a, b + 1)
<1>. DEFINE m == Mixed(base, target, a, b)
            n == a + Len(base) - b
<1>1. n \in Nat /\ Len(m) = n
  BY MixedLength
<1>2. \A i \in 1..n : m[i] = IF i <= a THEN target[i] ELSE base[i - a + b]
  BY DEF Mixed
<1>. HIDE DEF m
<1>4. ASSUME NEW i \in 1..(n - 1)
      PROVE  (IF i < a + 1 THEN m[i] ELSE m[i + 1])
                = IF i <= a THEN target[i] ELSE base[i - a + (b + 1)]
  <2>1. i \in 1..n /\ i + 1 \in 1..n
    BY <1>1
  <2>2. CASE i <= a
    <3>1. i < a + 1
      BY <2>1, <2>2
    <3>. QED  BY <2>1, <2>2, <3>1, <1>2
  <2>3. CASE ~(i <= a)
    <3>1. ~(i < a + 1) /\ ~(i + 1 <= a) /\ (i + 1) - a + b = i - a + (b + 1)
      BY <1>1, <2>1, <2>3
    <3>. QED  BY <2>1, <2>3, <3>1, <1>2
  <2>. QED  BY <2>2, <2>3
<1>5. RemoveIn(m, a + 1) = [i \in 1..(n - 1) |-> IF i < a + 1 THEN m[i] ELSE m[i + 1]]
  BY <1>1 DEF RemoveIn
<1>6. Mixed(base, target, a, b + 1)
         = [i \in 1..(n - 1) |-> IF i <= a THEN target[i] ELSE base[i - a + (b + 1)]]
  <2>1. a + Len(base) - (b + 1) = n - 1
    OBVIOUS
  <2>. QED  BY <2>1 DEF Mixed
<1>. HIDE DEF n
<1>7. RemoveIn(m, a + 1) = Mixed(base, target, a, b + 1)
  BY <1>4, <1>5, <1>6
<1>. QED  BY <1>7 DEF m

LEMMA MixedInsert ==
    ASSUME NEW S, NEW base \in Seq(S), NEW target \in Seq(S),
           NEW a \in 0..Len(target), NEW b \in 0..Len(base), a < Len(target)
    PROVE  InsertIn(Mixed(base, target, a, b), a + 1, target[a + 1])
              = Mixed(base, target, a + 1, b)
<1>. DEFINE m == Mixed(base, target, a, b)
            n == a + Len(base) - b
<1>1. n \in Nat /\ Len(m) = n
  BY MixedLength
<1>2. \A i \in 1..n : m[i] = IF i <= a THEN target[i] ELSE base[i - a + b]
  BY DEF Mixed
<1>. HIDE DEF m
<1>4. ASSUME NEW i \in 1..(n + 1)
      PROVE  (IF i < a + 1 THEN m[i] ELSE IF i = a + 1 THEN target[a + 1] ELSE m[i - 1])
                = IF i <= a + 1 THEN target[i] ELSE base[i - (a + 1) + b]
  <2>1. CASE i < a + 1
    BY <2>1, <1>1, <1>2
  <2>2. CASE i > a + 1
    <3>1. i - 1 \in 1..n
      BY <2>2, <1>1
    <3>. QED  BY <2>2, <3>1, <1>2
  <2>. QED  BY <2>1, <2>2
<1>5. InsertIn(m, a + 1, target[a + 1])
         = [i \in 1..(n + 1) |-> IF i < a + 1 THEN m[i] ELSE IF i = a + 1 THEN target[a + 1]
                                ELSE m[i - 1]]
  BY <1>1 DEF InsertIn
<1>6. Mixed(base, target, a + 1, b)
         = [i \in 1..(n + 1) |-> IF i <= a + 1 THEN target[i] ELSE base[i - (a + 1) + b]]
  <2>1. (a + 1) + Len(base) - b = n + 1
    OBVIOUS
  <2>. QED  BY <2>1 DEF Mixed
<1>. HIDE DEF n
<1>7. InsertIn(m, a + 1, target[a + 1]) = Mixed(base, target, a + 1, b)
  BY <1>4, <1>5, <1>6
<1>. QED  BY <1>7 DEF m

\* Within the common prefix the mixture is the base; at the common suffix, the target.
LEMMA MixedEnds ==
    ASSUME NEW S, NEW base \in Seq(S), NEW target \in Seq(S)
    PROVE  /\ Mixed(base, target, CommonPrefix(base, target), CommonPrefix(base, target)) = base
           /\ Mixed(base, target, Len(target) - CommonSuffix(base, target),
                     Len(base) - CommonSuffix(base, target)) = target
<1>. DEFINE p == CommonPrefix(base, target)
            q == CommonSuffix(base, target)
<1>1. /\ p \in Nat /\ p <= Len(base) /\ p <= Len(target) /\ Len(base) \in Nat
      /\ Len(target) \in Nat /\ \A i \in 1..p : base[i] = target[i]
  BY PrefixFacts
<1>2. /\ q \in Nat /\ q <= Len(base) /\ q <= Len(target)
      /\ \A i \in 0..(q - 1) : base[Len(base) - i] = target[Len(target) - i]
  BY <1>1, SuffixFacts, SMTT(60)
<1>. HIDE DEF p, q
<1>3. Mixed(base, target, p, p) = base
  <2>1. p + Len(base) - p = Len(base)
    BY <1>1
  <2>2. \A i \in 1..Len(base) : (IF i <= p THEN target[i] ELSE base[i - p + p]) = base[i]
    BY <1>1
  <2>3. base = [i \in 1..Len(base) |-> base[i]]
    OBVIOUS
  <2>. QED  BY <2>1, <2>2, <2>3 DEF Mixed
<1>4. Mixed(base, target, Len(target) - q, Len(base) - q) = target
  <2>. DEFINE a == Len(target) - q
              b == Len(base) - q
  <2>1. a + Len(base) - b = Len(target)
    BY <1>1, <1>2
  <2>2. ASSUME NEW i \in 1..Len(target)
        PROVE  (IF i <= a THEN target[i] ELSE base[i - a + b]) = target[i]
    <3>1. CASE i > a
      <4>1. Len(target) - i \in 0..(q - 1)
        BY <3>1, <1>1, <1>2
      <4>2. base[Len(base) - (Len(target) - i)] = target[Len(target) - (Len(target) - i)]
        BY <4>1, <1>2
      <4>3. Len(base) - (Len(target) - i) = i - a + b /\ Len(target) - (Len(target) - i) = i
        BY <1>1, <1>2
      <4>. QED  BY <3>1, <4>2, <4>3
    <3>2. CASE i <= a
      BY <3>2
    <3>. QED  BY <3>1, <3>2, <1>1, <1>2
  <2>3. target = [i \in 1..Len(target) |-> target[i]]
    OBVIOUS
  <2>. HIDE DEF a, b
  <2>4. Mixed(base, target, a, b) = target
    BY <2>1, <2>2, <2>3 DEF Mixed
  <2>. QED  BY <2>4 DEF a, b
<1>. QED  BY <1>3, <1>4 DEF p, q

-----------------------------------------------------------------------------
(* The plan of a delta, step by step *)

\* After k edits of the plan: how many tuples of the target are in place, how
\* many of the base are gone.
Placed(base, target, k) ==
    CommonPrefix(base, target)
      + Smaller(k, Len(target) - CommonPrefix(base, target) - CommonSuffix(base, target))
Consumed(base, target, k) ==
    CommonPrefix(base, target)
      + Smaller(k, Len(base) - CommonPrefix(base, target) - CommonSuffix(base, target))

\* The working copy after k of the planned edits.
WorkAfter(base, target, k) ==
    Mixed(base, target, Placed(base, target, k), Consumed(base, target, k))

\* Every planned edit is in range of the working copy it meets and turns it
\* into the next one; the last working copy is the target.
LEMMA PlanFacts ==
    ASSUME NEW S, NEW base \in Seq(S), NEW target \in Seq(S)
    PROVE  /\ Len(Plan(base, target)) \in Nat /\ DOMAIN Plan(base, target) = 1..Len(Plan(base, target))
           /\ WorkAfter(base, target, 0) = base
           /\ WorkAfter(base, target, Len(Plan(base, target))) = target
           /\ \A k \in 1..Len(Plan(base, target)) :
                 LET edit == Plan(base, target)[k]
                     work == WorkAfter(base, target, k - 1)
                 IN  /\ edit.op \in {"insert", "remove", "replace"}
                     /\ work \in Seq(S)
                     /\ edit.op = "insert" => edit.at <= Len(work) + 1
                     /\ edit.op # "insert" => edit.at <= Len(work)
                     /\ Edited(work, edit) = WorkAfter(base, target, k)
<1>. DEFINE p == CommonPrefix(base, target)
            q == CommonSuffix(base, target)
            bm == Len(base) - p - q
            tm == Len(target) - p - q
            r == Smaller(bm, tm)
            n == bm + tm - r
            plan == [k \in 1..n |->
                IF k <= r THEN [op |-> "replace", at |-> p + k, tuple |-> target[p + k]]
                ELSE IF r < bm THEN [op |-> "remove", at |-> p + r + 1]
                ELSE [op |-> "insert", at |-> p + k, tuple |-> target[p + k]]]
            W(k) == WorkAfter(base, target, k)
            Q(k) == LET edit == plan[k] IN
                    /\ edit.op \in {"insert", "remove", "replace"}
                    /\ W(k - 1) \in Seq(S)
                    /\ edit.op = "insert" => edit.at <= Len(W(k - 1)) + 1
                    /\ edit.op # "insert" => edit.at <= Len(W(k - 1))
                    /\ Edited(W(k - 1), edit) = W(k)
<1>1. /\ p \in Nat /\ q \in Nat /\ bm \in Nat /\ tm \in Nat
      /\ Len(base) \in Nat /\ Len(target) \in Nat
  <2>1. Len(base) \in Nat /\ Len(target) \in Nat
    OBVIOUS
  <2>2. p \in 0..Len(base) /\ p <= Len(target)
    BY PrefixFacts
  <2>3. q \in 0..(Len(base) - p) /\ q <= Len(target) - p
    BY SuffixFacts
  <2>. HIDE DEF p, q
  <2>. QED  BY <2>1, <2>2, <2>3
<1>2. Plan(base, target) = plan
  BY DEF Plan
<1>3. \A k : W(k) = Mixed(base, target, p + Smaller(k, tm), p + Smaller(k, bm))
  BY DEF WorkAfter, Placed, Consumed
<1>4. W(0) = base
  <2>1. Smaller(0, tm) = 0 /\ Smaller(0, bm) = 0 /\ p + 0 = p
    BY <1>1 DEF Smaller
  <2>2. Mixed(base, target, p, p) = base
    BY MixedEnds
  <2>. HIDE DEF p, bm, tm, W
  <2>. QED  BY <1>3, <2>1, <2>2
<1>5. r \in Nat /\ n \in Nat /\ r <= bm /\ r <= tm /\ bm <= n /\ tm <= n /\ (r = bm \/ r = tm)
  BY <1>1, SMTT(60) DEF Smaller
<1>6. W(n) = target
  <2>1. Smaller(n, tm) = tm /\ Smaller(n, bm) = bm
    <3>. HIDE DEF n, tm, bm
    <3>. QED  BY <1>1, <1>5 DEF Smaller
  <2>2. p + tm = Len(target) - q /\ p + bm = Len(base) - q
    BY <1>1
  <2>3. Mixed(base, target, Len(target) - q, Len(base) - q) = target
    BY MixedEnds
  <2>. HIDE DEF p, q, bm, tm, W, n
  <2>. QED  BY <1>3, <2>1, <2>2, <2>3
<1>7. ASSUME NEW k \in 1..n PROVE Q(k)
  <2>1. p + tm <= Len(target) /\ p + bm <= Len(base)
    BY <1>1
  <2>. HIDE DEF bm, tm, n, r, p, q
  <2>0. /\ p + Smaller(k - 1, tm) \in 0..Len(target) /\ k \in Nat
        /\ p + Smaller(k - 1, bm) \in 0..Len(base)
    BY <1>1, <1>5, <2>1 DEF Smaller
  <2>a. PICK a \in 0..Len(target) : a = p + Smaller(k - 1, tm)
    BY <2>0
  <2>b. PICK b \in 0..Len(base) : b = p + Smaller(k - 1, bm)
    BY <2>0
  <2>. DEFINE m == Mixed(base, target, a, b)
  <2>2. a \in 0..Len(target) /\ b \in 0..Len(base) /\ k \in Nat
    BY <2>0
  <2>3. W(k - 1) = m /\ m \in Seq(S) /\ Len(m) = a + Len(base) - b
    BY <1>3, <2>a, <2>b, MixedLength
  <2>4. CASE k <= r
    <3>1. /\ a = p + (k - 1) /\ b = p + (k - 1) /\ a < Len(target) /\ b < Len(base)
          /\ p + Smaller(k, tm) = a + 1 /\ p + Smaller(k, bm) = b + 1
      BY <1>1, <1>5, <2>1, <2>2, <2>4, <2>a, <2>b DEF Smaller
    <3>2. plan[k] = [op |-> "replace", at |-> p + k, tuple |-> target[p + k]] /\ p + k = a + 1
      BY <2>4, <3>1, <1>1, <2>2
    <3>. HIDE DEF W
    <3>3. [m EXCEPT ![a + 1] = target[a + 1]] = W(k)
      <4>1. W(k) = Mixed(base, target, a + 1, b + 1)
        BY <1>3, <3>1
      <4>2. [m EXCEPT ![a + 1] = target[a + 1]] = Mixed(base, target, a + 1, b + 1)
        BY <3>1, MixedReplace
      <4>. QED  BY <4>1, <4>2
    <3>. HIDE DEF m, plan
    <3>4. Edited(m, plan[k]) = W(k)
      BY <3>2, <3>3 DEF Edited
    <3>5. plan[k].op = "replace" /\ plan[k].at = a + 1 /\ a + 1 <= Len(m)
      BY <2>2, <2>3, <3>1, <3>2
    <3>. QED  BY <2>3, <3>4, <3>5
  <2>5. CASE k > r /\ r < bm
    <3>1. /\ a = p + r /\ b = p + (k - 1) /\ b < Len(base)
          /\ p + Smaller(k, tm) = a /\ p + Smaller(k, bm) = b + 1
      BY <1>1, <1>5, <2>1, <2>2, <2>5, <2>a, <2>b DEF Smaller, n
    <3>2. plan[k] = [op |-> "remove", at |-> p + r + 1] /\ p + r + 1 = a + 1
      BY <2>5, <3>1, <1>1, <1>5, <2>2
    <3>. HIDE DEF W
    <3>3. RemoveIn(m, a + 1) = W(k)
      <4>1. W(k) = Mixed(base, target, a, b + 1)
        BY <1>3, <3>1
      <4>2. RemoveIn(m, a + 1) = Mixed(base, target, a, b + 1)
        BY <3>1, MixedRemove
      <4>. QED  BY <4>1, <4>2
    <3>. HIDE DEF m, plan
    <3>4. Edited(m, plan[k]) = W(k)
      BY <3>2, <3>3 DEF Edited
    <3>5. plan[k].op = "remove" /\ plan[k].at = a + 1 /\ a + 1 <= Len(m)
      BY <2>2, <2>3, <3>1, <3>2, SMTT(60)
    <3>. QED  BY <2>3, <3>4, <3>5
  <2>6. CASE k > r /\ ~(r < bm)
    <3>1. /\ a = p + (k - 1) /\ b = p + bm /\ a < Len(target)
          /\ p + Smaller(k, tm) = a + 1 /\ p + Smaller(k, bm) = b
      BY <1>1, <1>5, <2>1, <2>2, <2>6, <2>a, <2>b DEF Smaller, n
    <3>2. plan[k] = [op |-> "insert", at |-> p + k, tuple |-> target[p + k]] /\ p + k = a + 1
      BY <2>6, <3>1, <1>1, <1>5, <2>2
    <3>. HIDE DEF W
    <3>3. InsertIn(m, a + 1, target[a + 1]) = W(k)
      <4>1. W(k) = Mixed(base, target, a + 1, b)
        BY <1>3, <3>1
      <4>2. InsertIn(m, a + 1, target[a + 1]) = Mixed(base, target, a + 1, b)
        BY <3>1, MixedInsert
      <4>. QED  BY <4>1, <4>2
    <3>. HIDE DEF m, plan
    <3>4. Edited(m, plan[k]) = W(k)
      BY <3>2, <3>3 DEF Edited
    <3>5. plan[k].op = "insert" /\ plan[k].at = a + 1 /\ a + 1 <= Len(m) + 1
      BY <2>2, <2>3, <3>1, <3>2, SMTT(60)
    <3>. QED  BY <2>3, <3>4, <3>5
  <2>. QED  BY <2>4, <2>5, <2>6, <1>5
<1>8. Len(plan) = n /\ DOMAIN plan = 1..n
  BY <1>5
<1>. HIDE DEF plan, n
<1>. QED  BY <1>2, <1>4, <1>5, <1>6, <1>7, <1>8

\* w satisfies the equations of Works; what does is unique.
IsWorks(w, n, base, plan) ==
    w = [k \in 0..n |-> IF k = 0 THEN base ELSE Edited(w[k - 1], plan[k])]

LEMMA WorksDetermined ==
    \A n \in Nat : \A base, plan, f, g :
        IsWorks(f, n, base, plan) /\ IsWorks(g, n, base, plan) => \A k \in 0..n : f[k] = g[k]
<1>1. SUFFICES ASSUME NEW n \in Nat, NEW base, NEW plan, NEW f, NEW g,
                      IsWorks(f, n, base, plan), IsWorks(g, n, base, plan)
               PROVE  \A k \in 0..n : f[k] = g[k]
  OBVIOUS
<1>2. f[0] = g[0]
  BY <1>1 DEF IsWorks
<1>3. \A k \in 1..n : f[k - 1] = g[k - 1] => f[k] = g[k]
  <2>. SUFFICES ASSUME NEW k \in 1..n, f[k - 1] = g[k - 1] PROVE f[k] = g[k]
    OBVIOUS
  <2>1. k \in 0..n /\ k # 0
    OBVIOUS
  <2>. QED  BY <1>1, <2>1 DEF IsWorks
<1>. QED  BY <1>2, <1>3, StepsDetermine

\* The working copies of the computation are the mixtures.
LEMMA WorksFacts ==
    \A S : \A base, target \in Seq(S) : \A k \in 0..Len(Plan(base, target)) :
        Works(base, Plan(base, target))[k] = WorkAfter(base, target, k)
<1>0. SUFFICES ASSUME NEW S, NEW base, NEW target, base \in Seq(S), target \in Seq(S)
               PROVE  \A k \in 0..Len(Plan(base, target)) :
                        Works(base, Plan(base, target))[k] = WorkAfter(base, target, k)
  OBVIOUS
<1>. DEFINE plan == Plan(base, target)
<1>1. PICK n \in Nat : n = Len(plan)
  BY <1>0, PlanFacts
<1>2. /\ WorkAfter(base, target, 0) = base
      /\ \A k \in 1..n : Edited(WorkAfter(base, target, k - 1), plan[k]) = WorkAfter(base, target, k)
  <2>1. WorkAfter(base, target, 0) = base
    BY <1>0, PlanFacts
  <2>2. \A k \in 1..Len(plan) :
            Edited(WorkAfter(base, target, k - 1), plan[k]) = WorkAfter(base, target, k)
    BY <1>0, PlanFacts
  <2>. QED  BY <1>1, <2>1, <2>2
<1>3. PICK g : g = [k \in 0..n |-> WorkAfter(base, target, k)]
  OBVIOUS
<1>. HIDE DEF plan
<1>4. IsWorks(g, n, base, plan)
  <2>1. ASSUME NEW k \in 0..n
        PROVE  WorkAfter(base, target, k) = IF k = 0 THEN base ELSE Edited(g[k - 1], plan[k])
    <3>1. CASE k = 0
      BY <3>1, <1>2
    <3>2. CASE k # 0
      <4>1. k \in 1..n /\ k - 1 \in 0..n
        BY <3>2
      <4>. QED  BY <3>2, <4>1, <1>2, <1>3
    <3>. QED  BY <3>1, <3>2
  <2>. QED  BY <1>3, <2>1 DEF IsWorks
<1>5. PICK f : f = Works(base, plan) /\ IsWorks(f, n, base, plan)
  <2>1. Works(base, plan) = CHOOSE w : IsWorks(w, n, base, plan)
    BY <1>1 DEF Works, IsWorks
  <2>2. \E w : IsWorks(w, n, base, plan)
    BY <1>4
  <2>. QED  BY <2>1, <2>2
<1>6. \A k \in 0..n : f[k] = g[k]
  BY <1>4, <1>5, WorksDetermined
<1>. QED  BY <1>1, <1>3, <1>5, <1>6 DEF plan

LEMMA AppendFacts ==
  ASSUME NEW S, NEW s \in Seq(S), NEW e \in S
  PROVE  /\ Append(s, e) \in Seq(S) /\ Len(Append(s, e)) = Len(s) + 1
         /\ Append(s, e) # <<>> /\ Append(s, e)[Len(s) + 1] = e
         /\ \A i \in 1..Len(s) : Append(s, e)[i] = s[i]
  OBVIOUS

-----------------------------------------------------------------------------
(* Replay *)

\* An edit recorded on a working copy fits that working copy.
LEMMA RecordedApplies ==
    ASSUME NEW edit, NEW work, NEW after, after = Edited(work, edit),
           edit.op \in {"insert", "remove", "replace"},
           edit.op = "insert" => edit.at <= Len(work) + 1,
           edit.op # "insert" => edit.at <= Len(work)
    PROVE  ApplyEdit([ok |-> TRUE, work |-> work], Recorded(edit, work, after))
              = [ok |-> TRUE, work |-> after]
<1>. DEFINE e == Recorded(edit, work, after)
<1>1. CASE edit.op = "insert"
  <2>1. e = [op |-> "insert", at |-> edit.at, tuple |-> edit.tuple,
             value |-> OccurrenceKey(after, edit.at)]
    BY <1>1 DEF Recorded, ValueKey
  <2>. HIDE DEF e
  <2>2. Edited(work, e) = after
    BY <1>1, <2>1 DEF Edited
  <2>3. EditFits(work, e)
    BY <1>1, <2>1, <2>2 DEF EditFits
  <2>. QED  BY <2>2, <2>3 DEF ApplyEdit, e
<1>2. CASE edit.op = "remove"
  <2>1. e = [op |-> "remove", at |-> edit.at,
             target |-> OccurrenceKey(work, edit.at), expected |-> work[edit.at]]
    BY <1>2 DEF Recorded
  <2>. HIDE DEF e
  <2>2. Edited(work, e) = after
    BY <1>2, <2>1 DEF Edited
  <2>3. EditFits(work, e)
    BY <1>2, <2>1 DEF EditFits
  <2>. QED  BY <2>2, <2>3 DEF ApplyEdit, e
<1>3. CASE edit.op = "replace"
  <2>1. e = [op |-> "replace", at |-> edit.at, tuple |-> edit.tuple,
             target |-> OccurrenceKey(work, edit.at), expected |-> work[edit.at],
             value |-> OccurrenceKey(after, edit.at)]
    BY <1>3 DEF Recorded, ValueKey
  <2>. HIDE DEF e
  <2>2. Edited(work, e) = after
    BY <1>3, <2>1 DEF Edited
  <2>3. EditFits(work, e)
    BY <1>3, <2>1, <2>2 DEF EditFits
  <2>. QED  BY <2>2, <2>3 DEF ApplyEdit, e
<1>. QED  BY <1>1, <1>2, <1>3

\* acc satisfies the equations of Replay; what does is unique.
IsReplay(acc, n, base, edits) ==
    acc = [k \in 0..n |-> IF k = 0 THEN [ok |-> TRUE, work |-> base]
                          ELSE ApplyEdit(acc[k - 1], edits[k])]

LEMMA ReplayDetermined ==
    \A n \in Nat : \A base, edits, f, g :
        IsReplay(f, n, base, edits) /\ IsReplay(g, n, base, edits) => \A k \in 0..n : f[k] = g[k]
<1>1. SUFFICES ASSUME NEW n \in Nat, NEW base, NEW edits, NEW f, NEW g,
                      IsReplay(f, n, base, edits), IsReplay(g, n, base, edits)
               PROVE  \A k \in 0..n : f[k] = g[k]
  OBVIOUS
<1>2. f[0] = g[0]
  BY <1>1 DEF IsReplay
<1>3. \A k \in 1..n : f[k - 1] = g[k - 1] => f[k] = g[k]
  <2>. SUFFICES ASSUME NEW k \in 1..n, f[k - 1] = g[k - 1] PROVE f[k] = g[k]
    OBVIOUS
  <2>1. k \in 0..n /\ k # 0
    OBVIOUS
  <2>. QED  BY <1>1, <2>1 DEF IsReplay
<1>. QED  BY <1>2, <1>3, StepsDetermine

\* What was computed from base to target, replayed on base, gives target.
LEMMA ReplayReaches ==
    \A S : \A base, target \in Seq(S) : \A delta :
        delta.edits = ComputeEdits(base, target)
            => Replay(base, delta) = [ok |-> TRUE, work |-> target]
<1>0. SUFFICES ASSUME NEW S, NEW base, NEW target, base \in Seq(S), target \in Seq(S),
                      NEW delta, delta.edits = ComputeEdits(base, target)
               PROVE  Replay(base, delta) = [ok |-> TRUE, work |-> target]
  OBVIOUS
<1>. DEFINE plan == Plan(base, target)
            edits == delta.edits
            W(k) == WorkAfter(base, target, k)
<1>1. PICK n \in Nat : n = Len(plan)
  BY <1>0, PlanFacts
<1>2. \A k \in 0..n : Works(base, plan)[k] = W(k)
  BY <1>0, <1>1, WorksFacts
<1>3. W(0) = base /\ W(n) = target
  BY <1>0, <1>1, PlanFacts
<1>4. Len(edits) = n /\ \A k \in 1..n : edits[k] = Recorded(plan[k], W(k - 1), W(k))
  <2>1. edits = [k \in 1..n |-> Recorded(plan[k], Works(base, plan)[k - 1], Works(base, plan)[k])]
    BY <1>0, <1>1 DEF ComputeEdits
  <2>2. \A k \in 1..n : k \in 0..n /\ k - 1 \in 0..n
    OBVIOUS
  <2>. HIDE DEF edits, plan, W
  <2>. QED  BY <1>2, <2>1, <2>2
<1>5. \A k \in 1..n :
          /\ plan[k].op \in {"insert", "remove", "replace"}
          /\ plan[k].op = "insert" => plan[k].at <= Len(W(k - 1)) + 1
          /\ plan[k].op # "insert" => plan[k].at <= Len(W(k - 1))
          /\ W(k) = Edited(W(k - 1), plan[k])
  <2>1. \A k \in 1..Len(plan) :
            /\ plan[k].op \in {"insert", "remove", "replace"}
            /\ plan[k].op = "insert" => plan[k].at <= Len(W(k - 1)) + 1
            /\ plan[k].op # "insert" => plan[k].at <= Len(W(k - 1))
            /\ Edited(W(k - 1), plan[k]) = W(k)
    BY <1>0, PlanFacts
  <2>. HIDE DEF edits, plan, W
  <2>. QED  BY <1>1, <2>1
<1>. HIDE DEF plan, edits, W
<1>6. \A k \in 1..n : ApplyEdit([ok |-> TRUE, work |-> W(k - 1)], edits[k])
                         = [ok |-> TRUE, work |-> W(k)]
  <2>. SUFFICES ASSUME NEW k \in 1..n
                PROVE  ApplyEdit([ok |-> TRUE, work |-> W(k - 1)], edits[k])
                           = [ok |-> TRUE, work |-> W(k)]
    OBVIOUS
  <2>1. PICK edit, work, after : edit = plan[k] /\ work = W(k - 1) /\ after = W(k)
    OBVIOUS
  <2>2. /\ edit.op \in {"insert", "remove", "replace"}
        /\ edit.op = "insert" => edit.at <= Len(work) + 1
        /\ edit.op # "insert" => edit.at <= Len(work)
        /\ after = Edited(work, edit)
    BY <1>5, <2>1
  <2>3. edits[k] = Recorded(edit, work, after)
    BY <1>4, <2>1
  <2>4. ApplyEdit([ok |-> TRUE, work |-> work], Recorded(edit, work, after))
            = [ok |-> TRUE, work |-> after]
    BY <2>2, RecordedApplies
  <2>. QED  BY <2>1, <2>3, <2>4
<1>7. PICK g : g = [k \in 0..n |-> [ok |-> TRUE, work |-> W(k)]]
  OBVIOUS
<1>8. IsReplay(g, n, base, edits)
  <2>1. ASSUME NEW k \in 0..n
        PROVE  [ok |-> TRUE, work |-> W(k)] = IF k = 0 THEN [ok |-> TRUE, work |-> base]
                                              ELSE ApplyEdit(g[k - 1], edits[k])
    <3>1. CASE k = 0
      BY <3>1, <1>3
    <3>2. CASE k # 0
      <4>1. k \in 1..n /\ k - 1 \in 0..n
        BY <3>2
      <4>. QED  BY <3>2, <4>1, <1>6, <1>7
    <3>. QED  BY <3>1, <3>2
  <2>. QED  BY <1>7, <2>1 DEF IsReplay
<1>9. PICK f : Replay(base, delta) = f[n] /\ IsReplay(f, n, base, edits)
  <2>1. Replay(base, delta) = (CHOOSE acc : IsReplay(acc, n, base, edits))[n]
    BY <1>4 DEF Replay, IsReplay, edits
  <2>2. \E acc : IsReplay(acc, n, base, edits)
    BY <1>8
  <2>. QED  BY <2>1, <2>2
<1>10. f[n] = g[n]
  BY <1>8, <1>9, ReplayDetermined
<1>. QED  BY <1>3, <1>7, <1>9, <1>10

-----------------------------------------------------------------------------
(* The protocol *)

\* The invariant of replay.  A list is a sequence of tuples.
ListsTyped == history \in Seq(Seq(Tuples)) /\ history # <<>>

DeltasFromAccepted ==
    \A delta \in emitted : /\ delta.from \in 1..Len(history) /\ delta.to = delta.from + 1
                           /\ delta.target \in Seq(Tuples)

\* What advanced the server led to the list it then accepted.
Acknowledged ==
    /\ remembered \subseteq emitted /\ acknowledged \subseteq emitted
    /\ \A delta \in acknowledged : delta.to <= Len(history) /\ history[delta.to] = delta.target

\* A replica that strayed may hold any list.
ReplicaTyped ==
    /\ replica = [tracked |-> replica.tracked, version |-> replica.version,
                  instructions |-> replica.instructions]
    /\ replica.tracked \in BOOLEAN /\ replica.version \in Nat

AtAccepted ==
    replica.version \in DOMAIN history /\ replica.instructions = history[replica.version]

\* The delta the replica has and the server has not accepted: either the
\* server's version moved past it, and it never will be, or the replica is one
\* delta ahead, and will be right when it is.
Ahead(delta) ==
    /\ delta \in followed \ acknowledged
    /\ \/ delta.from < Len(history)
       \/ /\ delta.from = Len(history)
          /\ replica.version = delta.to /\ replica.instructions = delta.target

ReplicaKnown ==
    /\ followed \subseteq emitted
    /\ replica.tracked => AtAccepted \/ \E delta \in followed : Ahead(delta)

ReplayInv ==
    /\ ListsTyped /\ DeltasFromAccepted /\ DeltaApplies
    /\ Acknowledged /\ ReplicaTyped /\ ReplicaKnown

LEMMA ListsAreSequences == Lists \subseteq Seq(Tuples)
<1>. SUFFICES ASSUME NEW m \in 0..MaxLen, NEW s \in [1..m -> Tuples] PROVE s \in Seq(Tuples)
  BY DEF Lists, BoundedSeq, SeqOf
<1>1. m \in Nat
  BY MaxLenAssumption
<1>. QED  BY <1>1

LEMMA ReplayInitially == ReplayInit => ReplayInv
<1>. SUFFICES ASSUME ReplayInit PROVE ReplayInv
  OBVIOUS
<1>1. PICK first \in Seq(Tuples) : history = <<first>>
  BY ListsAreSequences DEF ReplayInit
<1>2. <<>> \in Seq(Tuples)
  OBVIOUS
<1>3. ListsTyped
  BY <1>1 DEF ListsTyped
<1>. QED
  BY <1>2, <1>3 DEF ReplayInit, ReplayInv, DeltasFromAccepted, DeltaApplies, Acknowledged,
     ReplicaTyped, ReplicaKnown, UntrackedFile

\* What one more accepted list leaves alone.
LEMMA Appended ==
  ASSUME ListsTyped, NEW target \in Seq(Tuples), history' = Append(history, target)
  PROVE  /\ ListsTyped' /\ Len(history') = Len(history) + 1 /\ Len(history) \in Nat \ {0}
         /\ history'[Len(history) + 1] = target
         /\ \A k \in 1..Len(history) : history'[k] = history[k]
         /\ DOMAIN history = 1..Len(history) /\ DOMAIN history' = 1..(Len(history) + 1)
<1>1. PICK S : S = Seq(Tuples)
  OBVIOUS
<1>2. history \in Seq(S) /\ target \in S
  BY <1>1 DEF ListsTyped
<1>3. /\ Append(history, target) \in Seq(S) /\ Len(Append(history, target)) = Len(history) + 1
      /\ Append(history, target) # <<>> /\ Append(history, target)[Len(history) + 1] = target
      /\ \A k \in 1..Len(history) : Append(history, target)[k] = history[k]
  BY <1>2, AppendFacts
<1>4. Len(history) \in Nat \ {0}
  BY DEF ListsTyped
<1>5. history' \in Seq(S)
  BY <1>3
<1>6. DOMAIN history = 1..Len(history) /\ DOMAIN history' = 1..Len(history')
  BY <1>2, <1>5
<1>. QED  BY <1>1, <1>3, <1>4, <1>6 DEF ListsTyped

\* A list that is accepted, with or without a delta that led to it, disturbs
\* nothing that was known before.
LEMMA AcceptedKeeps ==
  ASSUME ReplayInv, NEW target \in Seq(Tuples), history' = Append(history, target),
         emitted' = emitted, replica' = replica, followed' = followed
  PROVE  /\ ListsTyped' /\ DeltasFromAccepted' /\ DeltaApplies' /\ ReplicaTyped'
         /\ AtAccepted => AtAccepted'
<1>1. /\ ListsTyped' /\ Len(history') = Len(history) + 1 /\ Len(history) \in Nat \ {0}
      /\ \A k \in 1..Len(history) : history'[k] = history[k]
      /\ DOMAIN history = 1..Len(history) /\ DOMAIN history' = 1..(Len(history) + 1)
  BY Appended DEF ReplayInv
<1>2. DeltasFromAccepted'
  BY <1>1 DEF ReplayInv, DeltasFromAccepted
<1>3. DeltaApplies'
  <2>1. ASSUME NEW delta \in emitted
        PROVE  Replay(history'[delta.from], delta) = [ok |-> TRUE, work |-> delta.target]
    <3>1. history'[delta.from] = history[delta.from]
      BY <1>1 DEF ReplayInv, DeltasFromAccepted
    <3>. QED  BY <3>1 DEF ReplayInv, DeltaApplies
  <2>. QED  BY <2>1 DEF DeltaApplies
<1>4. AtAccepted => AtAccepted'
  BY <1>1 DEF AtAccepted
<1>. QED  BY <1>1, <1>2, <1>3, <1>4 DEF ReplayInv, ReplicaTyped

\* One lemma for each action.
LEMMA RecompileKeeps ==
  ASSUME ReplayInv, NEW target \in Lists, Recompile(target)
  PROVE  ReplayInv'
<1>1. PICK n \in Nat \ {0} : n = Len(history)
  BY DEF ReplayInv, ListsTyped
<1>2. PICK base \in Seq(Tuples) : base = history[n]
  BY <1>1 DEF ReplayInv, ListsTyped
<1>3. target \in Seq(Tuples)
  BY ListsAreSequences
<1>4. PICK delta : delta = [from |-> n, to |-> n + 1, target |-> target,
                            edits |-> ComputeEdits(base, target)]
  OBVIOUS
<1>5. /\ UNCHANGED <<history, acknowledged, replica, followed>>
      /\ emitted' = emitted \union {delta}
      /\ remembered' = {other \in remembered : other.from # delta.from} \union {delta}
  BY <1>1, <1>2, <1>4 DEF Recompile, Last
<1>6. delta.from = n /\ delta.to = n + 1 /\ delta.target = target
      /\ delta.edits = ComputeEdits(base, target)
  BY <1>4
<1>7. DeltasFromAccepted'
  BY <1>1, <1>3, <1>5, <1>6 DEF ReplayInv, DeltasFromAccepted
<1>8. Replay(base, delta) = [ok |-> TRUE, work |-> target]
  BY <1>3, <1>6, ReplayReaches
<1>9. DeltaApplies'
  BY <1>2, <1>5, <1>6, <1>8 DEF ReplayInv, DeltaApplies
<1>10. Acknowledged'
  BY <1>5 DEF ReplayInv, Acknowledged
<1>11. ReplicaKnown'
  BY <1>5 DEF ReplayInv, ReplicaKnown, AtAccepted, Ahead
<1>. QED  BY <1>5, <1>7, <1>9, <1>10, <1>11 DEF ReplayInv, ListsTyped, ReplicaTyped

LEMMA PublishKeeps ==
  ASSUME ReplayInv, NEW target \in Lists, Publish(target)
  PROVE  ReplayInv'
<1>1. /\ target \in Seq(Tuples) /\ history' = Append(history, target)
      /\ remembered' \subseteq remembered
      /\ UNCHANGED <<emitted, acknowledged, replica, followed>>
  BY ListsAreSequences DEF Publish
<1>2. /\ ListsTyped' /\ Len(history') = Len(history) + 1 /\ Len(history) \in Nat \ {0}
      /\ \A k \in 1..Len(history) : history'[k] = history[k]
  BY <1>1, Appended DEF ReplayInv
<1>3. /\ DeltasFromAccepted' /\ DeltaApplies' /\ ReplicaTyped' /\ (AtAccepted => AtAccepted')
  BY <1>1, AcceptedKeeps
<1>4. Acknowledged'
  BY <1>1, <1>2 DEF ReplayInv, Acknowledged, DeltasFromAccepted
<1>5. ASSUME NEW delta \in followed, Ahead(delta) PROVE Ahead(delta)'
  BY <1>1, <1>2, <1>5 DEF ReplayInv, ReplicaKnown, DeltasFromAccepted, Ahead
<1>6. ReplicaKnown'
  BY <1>1, <1>3, <1>5 DEF ReplayInv, ReplicaKnown
<1>. QED  BY <1>2, <1>3, <1>4, <1>6 DEF ReplayInv

LEMMA AcknowledgeKeeps ==
  ASSUME ReplayInv, NEW delta \in emitted, Acknowledge(delta)
  PROVE  ReplayInv'
<1>1. PICK n \in Nat \ {0} : n = Len(history)
  BY DEF ReplayInv, ListsTyped
<1>2. /\ delta.from = n /\ delta.to = n + 1 /\ delta.target \in Seq(Tuples)
      /\ ApplySequence(Live, delta).instructions = delta.target
  <2>1. VersionsFit(Live, delta) /\ Replay(Live.instructions, delta).ok
    BY DEF Acknowledge, ApplySequence
  <2>2. Live.version = n /\ Live.instructions = history[n]
    BY <1>1 DEF Live, Last
  <2>3. delta.from = n
    BY <2>1, <2>2 DEF VersionsFit
  <2>4. Replay(history[n], delta) = [ok |-> TRUE, work |-> delta.target]
    BY <2>3 DEF ReplayInv, DeltaApplies
  <2>5. ApplySequence(Live, delta).instructions = delta.target
    BY <2>1, <2>2, <2>4 DEF ApplySequence, Live
  <2>. QED  BY <1>1, <2>3, <2>5 DEF ReplayInv, DeltasFromAccepted
<1>3. /\ history' = Append(history, delta.target) /\ acknowledged' = acknowledged \union {delta}
      /\ remembered' = remembered \ {delta}
      /\ UNCHANGED <<emitted, replica, followed>>
  BY <1>2 DEF Acknowledge
<1>4. /\ ListsTyped' /\ Len(history') = n + 1
      /\ history'[n + 1] = delta.target
      /\ \A k \in 1..n : history'[k] = history[k]
      /\ DOMAIN history' = 1..(n + 1)
  BY <1>1, <1>2, <1>3, Appended DEF ReplayInv
<1>5. /\ DeltasFromAccepted' /\ DeltaApplies' /\ ReplicaTyped' /\ (AtAccepted => AtAccepted')
  BY <1>2, <1>3, AcceptedKeeps
<1>6. Acknowledged'
  BY <1>1, <1>2, <1>3, <1>4 DEF ReplayInv, Acknowledged, DeltasFromAccepted
<1>7. ASSUME NEW other \in followed, Ahead(other) PROVE AtAccepted' \/ Ahead(other)'
  <2>1. CASE other = delta
    BY <1>1, <1>2, <1>3, <1>4, <1>7, <2>1 DEF Ahead, AtAccepted
  <2>2. CASE other # delta
    BY <1>1, <1>3, <1>4, <1>7, <2>2 DEF ReplayInv, ReplicaKnown, DeltasFromAccepted, Ahead
  <2>. QED  BY <2>1, <2>2
<1>8. ReplicaKnown'
  BY <1>3, <1>5, <1>7 DEF ReplayInv, ReplicaKnown
<1>. QED  BY <1>4, <1>5, <1>6, <1>8 DEF ReplayInv

LEMMA LoadKeeps ==
  ASSUME ReplayInv, NEW version \in DOMAIN history, LoadIr(version)
  PROVE  ReplayInv'
<1>1. version \in 1..Len(history) /\ version \in Nat /\ history[version] \in Seq(Tuples)
  BY DEF ReplayInv, ListsTyped
<1>2. ReplicaTyped' /\ AtAccepted' /\ ReplicaKnown'
  BY <1>1 DEF LoadIr, acceptedVars, ReplicaTyped, AtAccepted, ReplicaKnown
<1>. QED
  BY <1>2 DEF ReplayInv, LoadIr, acceptedVars, ListsTyped, DeltasFromAccepted, DeltaApplies,
     Acknowledged

LEMMA DeliverKeeps ==
  ASSUME ReplayInv, NEW delta \in emitted, Deliver(delta)
  PROVE  ReplayInv'
<1>1. /\ replica' = ApplySequence(replica, delta) /\ UNCHANGED acceptedVars
      /\ followed' = IF replica' = replica THEN followed ELSE followed \union {delta}
  BY DEF Deliver
<1>2. PICK n \in Nat \ {0} : n = Len(history) /\ DOMAIN history = 1..n
  BY DEF ReplayInv, ListsTyped
<1>3. /\ delta.from \in 1..n /\ delta.to = delta.from + 1 /\ delta.target \in Seq(Tuples)
  BY <1>2 DEF ReplayInv, DeltasFromAccepted
<1>4. ReplicaTyped' /\ ReplicaKnown'
  <2>1. CASE replica' = replica
    BY <1>1, <2>1 DEF ReplayInv, acceptedVars, ReplicaTyped, ReplicaKnown, AtAccepted, Ahead
  <2>2. CASE replica' # replica
    <3>1. /\ VersionsFit(replica, delta) /\ Replay(replica.instructions, delta).ok
          /\ replica' = [replica EXCEPT !.version = delta.to,
                         !.instructions = Replay(replica.instructions, delta).work]
      BY <1>1, <2>2 DEF ApplySequence
    <3>2. replica.tracked /\ replica.version = delta.from
      BY <3>1 DEF VersionsFit
    <3>3. /\ followed' = followed \union {delta} /\ replica'.version = delta.to /\ replica'.tracked
          /\ replica'.instructions = Replay(replica.instructions, delta).work
          /\ ReplicaTyped'
      <4>1. PICK work : work = Replay(replica.instructions, delta).work
        OBVIOUS
      <4>2. replica = [tracked |-> replica.tracked, version |-> replica.version,
                       instructions |-> replica.instructions]
            /\ replica.tracked \in BOOLEAN
        BY DEF ReplayInv, ReplicaTyped
      <4>3. replica' = [tracked |-> replica.tracked, version |-> delta.to, instructions |-> work]
        BY <3>1, <4>1, <4>2
      <4>. QED  BY <1>1, <1>3, <2>2, <3>2, <4>1, <4>2, <4>3 DEF ReplicaTyped
    <3>5. CASE AtAccepted
      <4>1. replica'.instructions = delta.target
        <5>1. Replay(history[delta.from], delta) = [ok |-> TRUE, work |-> delta.target]
          BY DEF ReplayInv, DeltaApplies
        <5>2. replica.instructions = history[delta.from]
          BY <3>2, <3>5 DEF AtAccepted
        <5>. QED  BY <3>3, <5>1, <5>2
      <4>2. CASE delta \in acknowledged
        <5>1. delta.to <= n /\ history[delta.to] = delta.target
          BY <1>2, <4>2 DEF ReplayInv, Acknowledged
        <5>2. AtAccepted'
          BY <1>1, <1>2, <1>3, <3>3, <4>1, <5>1 DEF AtAccepted, acceptedVars
        <5>. QED  BY <1>1, <3>3, <5>2 DEF ReplayInv, ReplicaKnown, acceptedVars
      <4>3. CASE delta \notin acknowledged
        <5>1. Ahead(delta)'
          BY <1>1, <1>2, <1>3, <3>3, <4>1, <4>3 DEF Ahead, acceptedVars
        <5>. QED  BY <1>1, <3>3, <5>1 DEF ReplayInv, ReplicaKnown, acceptedVars
      <4>. QED  BY <4>2, <4>3
    <3>6. ASSUME NEW other \in followed, Ahead(other) PROVE ReplicaKnown'
      <4>1. other.from < Len(history)
        BY <1>2, <1>3, <3>2, <3>6 DEF Ahead, ReplayInv, ReplicaKnown, DeltasFromAccepted
      <4>2. Ahead(other)'
        BY <1>1, <3>3, <3>6, <4>1 DEF Ahead, acceptedVars
      <4>. QED  BY <1>1, <3>3, <4>2 DEF ReplayInv, ReplicaKnown, acceptedVars
    <3>. QED  BY <3>2, <3>3, <3>5, <3>6 DEF ReplayInv, ReplicaKnown
  <2>. QED  BY <2>1, <2>2
<1>. QED
  BY <1>1, <1>4 DEF ReplayInv, acceptedVars, ListsTyped, DeltasFromAccepted, DeltaApplies,
     Acknowledged

LEMMA DropKeeps ==
  ASSUME ReplayInv, DropFile \/ ForgetPending \/ UNCHANGED replayVars
  PROVE  ReplayInv'
<1>1. CASE DropFile
  <2>1. <<>> \in Seq(Tuples)
    OBVIOUS
  <2>. QED
    BY <1>1, <2>1 DEF DropFile, UntrackedFile, acceptedVars, ReplayInv, ListsTyped,
       DeltasFromAccepted, DeltaApplies, Acknowledged, ReplicaTyped, ReplicaKnown
<1>2. CASE ForgetPending
  BY <1>2 DEF ForgetPending, ReplayInv, ListsTyped, DeltasFromAccepted, DeltaApplies,
     Acknowledged, ReplicaTyped, ReplicaKnown, AtAccepted, Ahead
<1>3. CASE UNCHANGED replayVars
  BY <1>3 DEF replayVars, acceptedVars, ReplayInv, ListsTyped, DeltasFromAccepted, DeltaApplies,
     Acknowledged, ReplicaTyped, ReplicaKnown, AtAccepted, Ahead
<1>. QED  BY <1>1, <1>2, <1>3

LEMMA ReplayInvariant == ReplaySpec => []ReplayInv
<1>1. ReplayInit => ReplayInv
  BY ReplayInitially
<1>2. ReplayInv /\ [ReplayNext]_replayVars => ReplayInv'
  <2>1. Compilable \subseteq Lists
    BY DEF Compilable
  <2>. QED
    BY <2>1, RecompileKeeps, PublishKeeps, AcknowledgeKeeps, LoadKeeps, DeliverKeeps, DropKeeps
       DEF ReplayNext
<1>. QED  BY <1>1, <1>2, PTL DEF ReplaySpec

\* The edits of a delta, of any length, replay from the version it names to
\* the list it was computed for, and every recorded value is found where it is
\* looked for (compute against apply_sequence).
THEOREM DeltasApply == ReplaySpec => []DeltaApplies
<1>1. ReplayInv => DeltaApplies
  BY DEF ReplayInv
<1>. QED  BY <1>1, ReplayInvariant, PTL

\* A replica whose deltas the server accepted, before or after it took them,
\* in any order, lost or repeated, holds what the server accepted as the
\* version it believes it is at (apply_sequence, remember_pending_transition).
THEOREM ReplicaFollows == ReplaySpec => []ReplicaExact
<1>1. ReplayInv => ReplicaExact
  BY DEF ReplayInv, ReplicaKnown, Ahead, AtAccepted, ReplicaExact
<1>. QED  BY <1>1, ReplayInvariant, PTL

-----------------------------------------------------------------------------
(***************************************************************************)
(* ProxyWindow                                                             *)
(***************************************************************************)

\* Largest is the maximum of a set of positions that is not empty.
LEMMA LargestFacts ==
    ASSUME NEW n \in Nat, NEW S, S \subseteq 1..n, S # {}
    PROVE  Largest(S) \in S /\ \A y \in S : y <= Largest(S)
<1>. DEFINE T == {n - x : x \in S}
<1>1. T \subseteq Nat /\ T # {}
  <2>1. \A x \in S : x \in 1..n /\ n - x \in Nat
    OBVIOUS
  <2>. QED  BY <2>1
<1>2. PICK d \in T : \A y \in T : d <= y
  BY <1>1, LeastNatural
<1>3. PICK x \in S : d = n - x
  BY <1>2
<1>4. \A y \in S : y <= x
  <2>. SUFFICES ASSUME NEW y \in S PROVE y <= x
    OBVIOUS
  <2>1. d <= n - y
    BY <1>2
  <2>. QED  BY <1>3, <2>1
<1>. QED  BY <1>4 DEF Largest

\* The conversation: every message has one or two blocks.
Conversation == messages \in Seq(Turns)

LEMMA TurnLength == \A turn \in Turns : Len(turn.content) \in Nat
  BY DEF Turns, Text, Result

\* What was sent and marked is what the last request computes.
WindowInv ==
    /\ Conversation /\ sent = Aged(messages)
    /\ marks = {} \/ \E frame \in Frames : marks = Breakpoints(messages, frame)

LEMMA WindowInitially == WindowInit => WindowInv
<1>. SUFFICES ASSUME WindowInit PROVE WindowInv
  OBVIOUS
<1>1. messages = <<>> /\ sent = {} /\ marks = {}
  BY DEF WindowInit
<1>2. Conversation
  BY <1>1 DEF Conversation
<1>3. Aged(<<>>) = {}
  BY DEF Aged
<1>. QED  BY <1>1, <1>2, <1>3 DEF WindowInv

LEMMA WindowSteps == WindowInv /\ [WindowNext]_windowVars => WindowInv'
<1>1. ASSUME WindowInv, NEW turn \in Turns, NEW frame \in Frames, Request(turn, frame)
      PROVE  WindowInv'
  <2>1. Conversation'
    BY <1>1 DEF Request, WindowInv, Conversation
  <2>. QED  BY <1>1, <2>1 DEF Request, WindowInv
<1>2. ASSUME WindowInv, UNCHANGED windowVars PROVE WindowInv'
  BY <1>2 DEF WindowInv, windowVars, Conversation
<1>. QED  BY <1>1, <1>2 DEF WindowNext

-----------------------------------------------------------------------------
UpTo(S, k) == IsFiniteSet(S) /\ Cardinality(S) <= k

LEMMA OneMore ==
    ASSUME NEW S, NEW k \in Nat, NEW x, UpTo(S, k), NEW l, l = k + 1
    PROVE  UpTo(S \union {x}, l)
<1>1. Cardinality(S) \in Nat
  BY FS_CardinalityType DEF UpTo
<1>2. /\ IsFiniteSet(S \union {x})
      /\ Cardinality(S \union {x}) = Cardinality(S) \/ Cardinality(S \union {x}) = Cardinality(S) + 1
  BY FS_AddElement DEF UpTo
<1>. QED  BY <1>1, <1>2 DEF UpTo

\* Four slots hold at most four marks.
LEMMA FourAtMost ==
    ASSUME NEW a, NEW b, NEW c, NEW d
    PROVE  IsFiniteSet({a, b, c, d}) /\ Cardinality({a, b, c, d}) <= 4
<1>1. UpTo({}, 0)
  BY FS_EmptySet DEF UpTo
<1>. DEFINE A == {} \union {a}
            B == A \union {b}
            C == B \union {c}
            D == C \union {d}
<1>. HIDE DEF A, B, C, D
<1>2. UpTo(A, 1)
  <2>1. 0 \in Nat /\ 1 = 0 + 1
    OBVIOUS
  <2>. QED  BY <1>1, <2>1, OneMore, Zenon DEF A
<1>3. UpTo(B, 2)
  <2>1. 1 \in Nat /\ 2 = 1 + 1
    OBVIOUS
  <2>. QED  BY <1>2, <2>1, OneMore, Zenon DEF B
<1>4. UpTo(C, 3)
  <2>1. 2 \in Nat /\ 3 = 2 + 1
    OBVIOUS
  <2>. QED  BY <1>3, <2>1, OneMore, Zenon DEF C
<1>5. UpTo(D, 4)
  <2>1. 3 \in Nat /\ 4 = 3 + 1
    OBVIOUS
  <2>. QED  BY <1>4, <2>1, OneMore, Zenon DEF D
<1>6. {a, b, c, d} = D
  BY DEF A, B, C, D
<1>. QED  BY <1>5, <1>6 DEF UpTo

LEMMA InjectedFour ==
    ASSUME NEW ms, NEW frame
    PROVE  Cardinality(Injected(ms, frame)) <= 4
<1>1. \E x : ToolsSlot(frame) \subseteq {x}
  BY DEF ToolsSlot
<1>2. \E x : SystemSlot(frame) \subseteq {x}
  BY DEF SystemSlot
<1>3. \E x : FirstMessageSlot(ms) \subseteq {x}
  BY DEF FirstMessageSlot
<1>4. \E x : TailSlot(ms) \subseteq {x}
  BY DEF TailSlot
<1>5. PICK a, b, c, d : /\ ToolsSlot(frame) \subseteq {a} /\ SystemSlot(frame) \subseteq {b}
                        /\ FirstMessageSlot(ms) \subseteq {c} /\ TailSlot(ms) \subseteq {d}
  BY <1>1, <1>2, <1>3, <1>4
<1>6. Injected(ms, frame) \subseteq {a, b, c, d}
  BY <1>5 DEF Injected
<1>7. /\ Cardinality(Injected(ms, frame)) \in Nat
      /\ Cardinality(Injected(ms, frame)) <= Cardinality({a, b, c, d})
      /\ Cardinality({a, b, c, d}) \in Nat
  BY <1>6, FourAtMost, FS_Subset, FS_CardinalityType
<1>8. Cardinality({a, b, c, d}) <= 4
  BY FourAtMost
<1>. QED  BY <1>7, <1>8

\* The tail slot is behind the other three.
LEMMA TailLast ==
    ASSUME NEW ms \in Seq(Turns), NEW frame, NEW m \in Injected(ms, frame), NEW t \in Injected(ms, frame),
           m.ttl = "1h", t.ttl = "tail"
    PROVE  Earlier(m, t)
<1>. DEFINE with == {i \in 1..Len(ms) : CacheableIn(ms, i) # {}}
<1>0. \A i \in 1..Len(ms) : ms[i] \in Turns /\ Len(ms[i].content) \in Nat
  BY TurnLength
<1>1. /\ t \in TailSlot(ms) /\ t.part = "messages" /\ with # {}
      /\ t.i = Largest(with) /\ t.j = Largest(CacheableIn(ms, Largest(with)))
  BY DEF Injected, ToolsSlot, SystemSlot, FirstMessageSlot, TailSlot
<1>2. t.i \in with /\ \A i \in with : i <= t.i
  <2>1. with \subseteq 1..Len(ms) /\ with # {} /\ Len(ms) \in Nat
    BY <1>1
  <2>. QED  BY <1>1, <2>1, LargestFacts
<1>3. CASE m \in ToolsSlot(frame) \union SystemSlot(frame)
  BY <1>1, <1>3 DEF ToolsSlot, SystemSlot, Earlier, Order
<1>4. CASE m \in FirstMessageSlot(ms) /\ ~(t.i = m.i /\ t.j = m.j)
  <2>1. /\ m.part = "messages" /\ m.i = 1 /\ m.j = Largest(CacheableIn(ms, 1))
        /\ ms # <<>> /\ CacheableIn(ms, 1) # {}
    BY <1>4 DEF FirstMessageSlot
  <2>2. 1 \in with
    BY <2>1
  <2>3. t.i > 1
    BY <1>1, <1>2, <1>4, <2>1, <2>2
  <2>. QED  BY <1>1, <2>1, <2>3 DEF Earlier
<1>. QED  BY <1>1, <1>3, <1>4 DEF Injected, TailSlot

LEMMA MarksOrdered == WindowInv => BreakpointsOrdered
<1>. SUFFICES ASSUME WindowInv PROVE BreakpointsOrdered
  OBVIOUS
<1>1. CASE marks = {}
  BY <1>1, FS_EmptySet DEF BreakpointsOrdered
<1>2. ASSUME NEW frame \in Frames, marks = Breakpoints(messages, frame) PROVE BreakpointsOrdered
  <2>1. CASE ClientMarks(messages) # {}
    <3>1. \A m \in marks : m.ttl = "client"
      BY <1>2, <2>1 DEF Breakpoints, ClientMarks
    <3>. QED  BY <2>1, <3>1 DEF BreakpointsOrdered
  <2>2. CASE ClientMarks(messages) = {}
    <3>1. marks = Injected(messages, frame)
      BY <1>2, <2>2 DEF Breakpoints
    <3>2. Cardinality(marks) <= 4
      BY <3>1, InjectedFour
    <3>3. \A m, n \in marks : m.ttl = "1h" /\ n.ttl = "tail" => Earlier(m, n)
      BY <3>1, TailLast DEF WindowInv, Conversation
    <3>. QED  BY <2>2, <3>2, <3>3 DEF BreakpointsOrdered
  <2>. QED  BY <2>1, <2>2
<1>. QED  BY <1>1, <1>2 DEF WindowInv

\* Whatever the conversation is, injection stays within four breakpoints, puts
\* every one-hour breakpoint before the tail's and adds none to a client's own
\* (inject_breakpoints).
THEOREM WindowOrdered == WindowSpec => []BreakpointsOrdered
  BY WindowInitially, WindowSteps, MarksOrdered, PTL DEF WindowSpec

-----------------------------------------------------------------------------
LEMMA StubsKept == WindowInv /\ [WindowNext]_windowVars => [StubsStep]_windowVars
<1>. SUFFICES ASSUME WindowInv, NEW turn \in Turns, NEW frame \in Frames, Request(turn, frame),
                     NEW p \in sent \ sent'
              PROVE  CrossReferenced(messages[p[1]].content[p[2]].path, RecentPaths(messages'))
  BY DEF WindowNext, StubsStep
<1>. DEFINE n == Len(messages)
<1>1. n \in Nat /\ Len(messages') = n + 1 /\ \A i \in 1..n : messages'[i] = messages[i]
  BY DEF WindowInv, Conversation, Request
<1>2. sent = Aged(messages) /\ sent' = Aged(messages')
  BY DEF WindowInv, Request
<1>. HIDE DEF n
<1>3. PICK i \in 1..n, j \in 1..2 : p = <<i, j>>
  <2>1. \A ms : Aged(ms) \subseteq (1..Len(ms)) \X (1..2)
    BY Zenon DEF Aged
  <2>2. p \in (1..n) \X (1..2)
    BY <1>2, <2>1, Zenon DEF n
  <2>. QED  BY <2>2, SMTT(60)
<1>4. /\ i \notin Recent(messages) /\ messages[i].role = "user" /\ j <= Len(messages[i].content)
      /\ messages[i].content[j].type = "tool_result" /\ ~Young(i, n)
  BY <1>2, <1>3 DEF Aged, n
<1>5. i \in 1..(n + 1) /\ messages'[i] = messages[i]
  BY <1>1, <1>3
<1>6. i \notin Recent(messages')
  BY <1>1, <1>3, <1>4, WindowAssumption DEF Recent, n
<1>7. ~Young(i, n + 1)
  BY <1>1, <1>3, <1>4, WindowAssumption DEF Young
<1>8. ~CrossReferenced(messages'[i].content[j].path, RecentPaths(messages')) => p \in Aged(messages')
  BY <1>1, <1>3, <1>4, <1>5, <1>6, <1>7 DEF Aged
<1>. QED  BY <1>2, <1>3, <1>5, <1>8

\* A tool result that one request replaced by a stub is a stub in the next
\* one, unless one of the most recent messages names its path
\* (age_tool_results).
THEOREM WindowStubsStay == WindowSpec => StubsStay
  BY WindowInitially, WindowSteps, StubsKept, PTL DEF WindowSpec, StubsStay

-----------------------------------------------------------------------------
(***************************************************************************)
(* BufferedStore                                                           *)
(***************************************************************************)

\* A set that holds 0 and with every step the next one holds them all.
LEMMA StepsReach ==
    ASSUME NEW n \in Nat, NEW R, 0 \in R, \A k \in 1..n : k - 1 \in R => k \in R
    PROVE  \A k \in 0..n : k \in R
<1>. DEFINE T == {k \in 0..n : k \notin R}
<1>1. SUFFICES ASSUME T # {} PROVE FALSE
  OBVIOUS
<1>2. PICK k \in T : \A y \in T : k <= y
  <2>1. T \subseteq Nat
    OBVIOUS
  <2>. QED  BY <1>1, <2>1, LeastNatural
<1>3. k \in 1..n /\ k - 1 \in 0..n /\ k - 1 \notin T
  BY <1>2
<1>. QED  BY <1>2, <1>3

\* f is computed from a by the steps of `step'.
Computes(f, n, V, a, step) ==
    f \in [0..n -> V] /\ f[0] = a /\ \A k \in 1..n : f[k] = step[<<k, f[k - 1]>>]

\* A computation of n steps exists.
LEMMA StepsExist ==
    ASSUME NEW n \in Nat, NEW V, NEW a \in V, NEW step \in [(1..n) \X V -> V]
    PROVE  \E f : Computes(f, n, V, a, step)
<1>. DEFINE R == {k \in 0..n : \E f : Computes(f, k, V, a, step)}
<1>1. 0 \in R
  <2>. DEFINE f == [k \in 0..0 |-> a]
  <2>1. Computes(f, 0, V, a, step)
    BY DEF Computes
  <2>. QED  BY <2>1
<1>2. ASSUME NEW k \in 1..n, k - 1 \in R PROVE k \in R
  <2>1. PICK f : Computes(f, k - 1, V, a, step)
    BY <1>2
  <2>. DEFINE g == [i \in 0..k |-> IF i = k THEN step[<<k, f[k - 1]>>] ELSE f[i]]
  <2>2. /\ f \in [0..(k - 1) -> V] /\ f[0] = a
        /\ \A i \in 1..(k - 1) : f[i] = step[<<i, f[i - 1]>>]
    BY <2>1 DEF Computes
  <2>3. step[<<k, f[k - 1]>>] \in V
    BY <2>2
  <2>4. g \in [0..k -> V] /\ g[0] = a
    BY <2>2, <2>3
  <2>5. ASSUME NEW i \in 1..k PROVE g[i] = step[<<i, g[i - 1]>>]
    <3>1. g[i - 1] = f[i - 1]
      OBVIOUS
    <3>2. CASE i = k
      <4>1. g[k] = step[<<k, f[k - 1]>>]
        OBVIOUS
      <4>. HIDE DEF g
      <4>. QED  BY <3>1, <3>2, <4>1
    <3>3. CASE i # k
      BY <2>2, <3>1, <3>3
    <3>. QED  BY <3>2, <3>3
  <2>. HIDE DEF g
  <2>6. Computes(g, k, V, a, step)
    BY <2>4, <2>5 DEF Computes
  <2>. QED  BY <2>6
<1>3. n \in R
  <2>. HIDE DEF R
  <2>1. \A k \in 1..n : k - 1 \in R => k \in R
    BY <1>2
  <2>2. \A k \in 0..n : k \in R
    BY <1>1, <2>1, StepsReach
  <2>. QED  BY <2>2
<1>. QED  BY <1>3

-----------------------------------------------------------------------------
(* Types *)

\* The types of operations, threads and tables.
Sources == SourceHashes \union {Nobody}
Ops == [n : Nat, kind : {"save", "append", "clear"}, file : StoreFiles, source : Sources]
ThreadStates ==
    [pc : {"idle", "flush", "clearQueue", "clearRows"}, batch : Seq(Ops), tries : Nat,
     ids : SUBSET Sources, file : StoreFiles \union {Nobody}, covers : SUBSET Nat,
     raced : BOOLEAN]
RowIds == {<<s>> : s \in Sources} \union {<<s, f>> : s \in Sources, f \in StoreFiles}
TableRows == [id : RowIds, source : Sources, writes : Seq(Nat)]
Tables == [StoreFiles -> TableRows \union {Nobody}]

Elements(s) == {s[i] : i \in 1..Len(s)}
RisingOps(s) == \A i, j \in 1..Len(s) : i < j => s[i].n < s[j].n

\* Appending an operation with a larger number keeps the order.
LEMMA AppendOp ==
    ASSUME NEW S, NEW s \in Seq(S), NEW x \in S
    PROVE  /\ Append(s, x) \in Seq(S) /\ Len(Append(s, x)) = Len(s) + 1
           /\ \A i \in 1..Len(s) : Append(s, x)[i] = s[i]
           /\ Append(s, x)[Len(s) + 1] = x
           /\ Elements(Append(s, x)) = Elements(s) \union {x}
<1>1. /\ Append(s, x) \in Seq(S) /\ Len(Append(s, x)) = Len(s) + 1 /\ Len(s) \in Nat
      /\ \A i \in 1..Len(s) : Append(s, x)[i] = s[i]
      /\ Append(s, x)[Len(s) + 1] = x
  OBVIOUS
<1>2. Elements(Append(s, x)) \subseteq Elements(s) \union {x}
  <2>. SUFFICES ASSUME NEW i \in 1..(Len(s) + 1) PROVE Append(s, x)[i] \in Elements(s) \union {x}
    BY <1>1 DEF Elements
  <2>1. i \in 1..Len(s) \/ i = Len(s) + 1
    BY <1>1
  <2>. QED  BY <1>1, <2>1 DEF Elements
<1>3. Elements(s) \union {x} \subseteq Elements(Append(s, x))
  <2>1. ASSUME NEW i \in 1..Len(s) PROVE s[i] \in Elements(Append(s, x))
    <3>1. i \in 1..Len(Append(s, x)) /\ Append(s, x)[i] = s[i]
      BY <1>1
    <3>. QED  BY <3>1 DEF Elements
  <2>2. x \in Elements(Append(s, x))
    <3>1. Len(s) + 1 \in 1..Len(Append(s, x))
      BY <1>1
    <3>. QED  BY <1>1, <3>1 DEF Elements
  <2>. QED  BY <2>1, <2>2 DEF Elements
<1>. QED  BY <1>1, <1>2, <1>3

-----------------------------------------------------------------------------
(* What is left of a queue or a batch *)

\* f satisfies the equations of Without.
IsKept(f, ops, out) ==
    f = [i \in 0..Len(ops) |->
            IF i = 0 THEN <<>>
            ELSE IF ops[i] \in out THEN f[i - 1] ELSE Append(f[i - 1], ops[i])]

LEMMA KeptExists ==
    ASSUME NEW ops \in Seq(Ops), NEW out
    PROVE  \E f : IsKept(f, ops, out)
<1>. DEFINE n == Len(ops)
            step == [p \in (1..n) \X Seq(Ops) |->
                        IF ops[p[1]] \in out THEN p[2] ELSE Append(p[2], ops[p[1]])]
<1>1. n \in Nat /\ \A i \in 1..n : ops[i] \in Ops
  OBVIOUS
<1>2. step \in [(1..n) \X Seq(Ops) -> Seq(Ops)]
  <2>1. ASSUME NEW p \in (1..n) \X Seq(Ops)
        PROVE  (IF ops[p[1]] \in out THEN p[2] ELSE Append(p[2], ops[p[1]])) \in Seq(Ops)
    <3>1. p[2] \in Seq(Ops) /\ ops[p[1]] \in Ops
      BY <1>1
    <3>. QED  BY <3>1
  <2>. QED  BY <2>1
<1>3. \A k \in 1..n, s \in Seq(Ops) :
         step[<<k, s>>] = IF ops[k] \in out THEN s ELSE Append(s, ops[k])
  OBVIOUS
<1>4. <<>> \in Seq(Ops)
  OBVIOUS
<1>. HIDE DEF step
<1>5. PICK f : Computes(f, n, Seq(Ops), <<>>, step)
  BY <1>1, <1>2, <1>4, StepsExist
<1>6. /\ f \in [0..n -> Seq(Ops)] /\ f[0] = <<>>
      /\ \A k \in 1..n : f[k] = step[<<k, f[k - 1]>>]
  BY <1>5 DEF Computes
<1>7. ASSUME NEW k \in 1..n
      PROVE  f[k] = IF ops[k] \in out THEN f[k - 1] ELSE Append(f[k - 1], ops[k])
  <2>1. f[k - 1] \in Seq(Ops)
    BY <1>1, <1>6, SMTT(60)
  <2>. QED  BY <1>3, <1>6, <2>1
<1>8. f = [i \in 0..n |-> f[i]]
  BY <1>6
<1>9. \A i \in 0..n : f[i] = IF i = 0 THEN <<>>
                             ELSE IF ops[i] \in out THEN f[i - 1] ELSE Append(f[i - 1], ops[i])
  <2>1. \A i \in 0..n : i = 0 \/ i \in 1..n
    BY <1>1
  <2>. QED  BY <1>6, <1>7, <2>1
<1>10. IsKept(f, ops, out)
  BY <1>8, <1>9 DEF IsKept
<1>. QED  BY <1>10

\* What Without leaves of a sequence: the other operations, in their order.
LEMMA WithoutFacts ==
    ASSUME NEW ops \in Seq(Ops), RisingOps(ops), NEW out
    PROVE  /\ Without(ops, out) \in Seq(Ops) /\ RisingOps(Without(ops, out))
           /\ Elements(Without(ops, out)) = {op \in Elements(ops) : op \notin out}
<1>. DEFINE n == Len(ops)
<1>1. PICK f : IsKept(f, ops, out) /\ Without(ops, out) = f[n]
  <2>. DEFINE g == CHOOSE f : IsKept(f, ops, out)
  <2>1. IsKept(g, ops, out)
    BY KeptExists
  <2>2. Without(ops, out) = g[n]
    BY DEF Without, IsKept
  <2>. HIDE DEF g
  <2>. QED  BY <2>1, <2>2
<1>2. n \in Nat /\ \A i \in 1..n : ops[i] \in Ops
  OBVIOUS
<1>3. /\ f[0] = <<>>
      /\ \A i \in 1..n : f[i] = IF ops[i] \in out THEN f[i - 1] ELSE Append(f[i - 1], ops[i])
  <2>1. \A i \in 0..n : f[i] = IF i = 0 THEN <<>>
                             ELSE IF ops[i] \in out THEN f[i - 1] ELSE Append(f[i - 1], ops[i])
    BY <1>1 DEF IsKept
  <2>. QED  BY <1>2, <2>1
<1>. DEFINE P(i) == /\ f[i] \in Seq(Ops) /\ RisingOps(f[i])
                    /\ Elements(f[i]) = {ops[j] : j \in {k \in 1..i : ops[k] \notin out}}
            R == {i \in 0..n : P(i)}
<1>4. 0 \in R
  <2>1. Len(<<>>) = 0 /\ <<>> \in Seq(Ops)
    OBVIOUS
  <2>2. RisingOps(<<>>) /\ Elements(<<>>) = {}
    BY <2>1 DEF RisingOps, Elements
  <2>3. {ops[j] : j \in {k \in 1..0 : ops[k] \notin out}} = {}
    OBVIOUS
  <2>4. P(0)
    BY <1>3, <2>1, <2>2, <2>3
  <2>. HIDE DEF P
  <2>. QED  BY <1>2, <2>4
<1>5. ASSUME NEW i \in 1..n, i - 1 \in R PROVE i \in R
  <2>1. /\ f[i - 1] \in Seq(Ops) /\ RisingOps(f[i - 1])
        /\ Elements(f[i - 1]) = {ops[j] : j \in {k \in 1..(i - 1) : ops[k] \notin out}}
    BY <1>5
  <2>2. i \in 0..n /\ i \in Nat /\ 1..i = 1..(i - 1) \union {i}
    BY <1>2
  <2>3. CASE ops[i] \in out
    <3>1. f[i] = f[i - 1]
      BY <1>3, <2>3
    <3>2. {k \in 1..(i - 1) : ops[k] \notin out} = {k \in 1..i : ops[k] \notin out}
      BY <2>2, <2>3
    <3>. QED  BY <2>1, <2>2, <3>1, <3>2
  <2>4. CASE ops[i] \notin out
    <3>0. PICK s \in Seq(Ops) : s = f[i - 1]
      BY <2>1
    <3>1. f[i] = Append(s, ops[i]) /\ ops[i] \in Ops
      BY <1>2, <1>3, <2>4, <3>0
    <3>2. /\ f[i] \in Seq(Ops) /\ Len(f[i]) = Len(s) + 1 /\ Len(s) \in Nat
          /\ \A j \in 1..Len(s) : f[i][j] = s[j]
          /\ f[i][Len(s) + 1] = ops[i]
          /\ Elements(f[i]) = Elements(s) \union {ops[i]}
      BY <3>1, AppendOp
    <3>3. \A j \in 1..Len(s) : s[j] \in Elements(s)
      BY DEF Elements
    <3>4. \A j \in 1..Len(s) : s[j].n < ops[i].n
      <4>1. ASSUME NEW j \in 1..Len(s) PROVE s[j].n < ops[i].n
        <5>1. PICK k \in 1..(i - 1) : s[j] = ops[k]
          BY <2>1, <3>0, <3>3
        <5>2. k \in 1..n /\ k < i
          BY <1>2, <2>2
        <5>. QED  BY <5>1, <5>2 DEF RisingOps
      <4>. QED  BY <4>1
    <3>5. RisingOps(f[i])
      <4>. SUFFICES ASSUME NEW j \in 1..(Len(s) + 1), NEW k \in 1..(Len(s) + 1), j < k
                    PROVE  f[i][j].n < f[i][k].n
        BY <3>2 DEF RisingOps
      <4>1. j \in 1..Len(s)
        BY <3>2
      <4>2. CASE k \in 1..Len(s)
        BY <2>1, <3>0, <3>2, <4>1, <4>2 DEF RisingOps
      <4>3. CASE k = Len(s) + 1
        BY <3>2, <3>4, <4>1, <4>3
      <4>. QED  BY <3>2, <4>2, <4>3
    <3>6. {k \in 1..i : ops[k] \notin out}
             = {k \in 1..(i - 1) : ops[k] \notin out} \union {i}
      BY <2>2, <2>4
    <3>7. Elements(f[i]) = {ops[j] : j \in {k \in 1..i : ops[k] \notin out}}
      BY <2>1, <3>0, <3>2, <3>6
    <3>. QED  BY <2>2, <3>2, <3>5, <3>7
  <2>. QED  BY <2>3, <2>4
<1>6. n \in R
  <2>. HIDE DEF R, n
  <2>1. \A k \in 0..n : k \in R
    BY <1>2, <1>4, <1>5, StepsReach
  <2>. QED  BY <1>2, <2>1
<1>. QED  BY <1>1, <1>6 DEF Elements

-----------------------------------------------------------------------------
(* Numbers of operations *)

\* Numbers as sets, and sequences of them in rising order.
Nums(s) == {s[i].n : i \in 1..Len(s)}
Rising(s) == \A i, j \in 1..Len(s) : i < j => s[i] < s[j]
Below(S, T) == \A x \in S, y \in T : x < y

LEMMA NumbersFacts ==
    ASSUME NEW s \in Seq(Ops)
    PROVE  /\ Numbers(s) \in Seq(Nat) /\ Len(Numbers(s)) = Len(s) /\ ToSet(Numbers(s)) = Nums(s)
           /\ Nums(s) \subseteq Nat
           /\ RisingOps(s) => Rising(Numbers(s))
<1>0. Len(s) \in Nat /\ \A i \in 1..Len(s) : s[i] \in Ops
  OBVIOUS
<1>1. Len(s) \in Nat /\ \A i \in 1..Len(s) : s[i].n \in Nat
  BY <1>0 DEF Ops
<1>2. Numbers(s) \in Seq(Nat) /\ Len(Numbers(s)) = Len(s) /\ DOMAIN Numbers(s) = 1..Len(s)
  BY <1>1 DEF Numbers
<1>3. \A i \in 1..Len(s) : Numbers(s)[i] = s[i].n
  BY DEF Numbers
<1>4. ToSet(Numbers(s)) = Nums(s)
  BY <1>2, <1>3 DEF ToSet, Nums
<1>5. RisingOps(s) => Rising(Numbers(s))
  BY <1>2, <1>3 DEF RisingOps, Rising
<1>. QED  BY <1>1, <1>2, <1>4, <1>5 DEF Nums

LEMMA SetOfSeq ==
    ASSUME NEW S, NEW s \in Seq(S)
    PROVE  ToSet(s) = {s[i] : i \in 1..Len(s)} /\ ToSet(s) \subseteq S
<1>1. DOMAIN s = 1..Len(s) /\ \A i \in 1..Len(s) : s[i] \in S
  OBVIOUS
<1>. QED  BY <1>1 DEF ToSet

LEMMA Concatenated ==
    ASSUME NEW a \in Seq(Nat), NEW b \in Seq(Nat), Rising(a), Rising(b), Below(ToSet(a), ToSet(b))
    PROVE  a \o b \in Seq(Nat) /\ Rising(a \o b) /\ ToSet(a \o b) = ToSet(a) \union ToSet(b)
<1>. DEFINE c == a \o b
<1>1. /\ c \in Seq(Nat) /\ Len(c) = Len(a) + Len(b) /\ Len(a) \in Nat /\ Len(b) \in Nat
      /\ \A i \in 1..(Len(a) + Len(b)) : c[i] = IF i <= Len(a) THEN a[i] ELSE b[i - Len(a)]
  BY ConcatProperties
<1>2. /\ \A i \in 1..Len(a) : i \in 1..Len(c) /\ c[i] = a[i]
      /\ \A j \in 1..Len(b) : Len(a) + j \in 1..Len(c) /\ c[Len(a) + j] = b[j]
      /\ \A i \in 1..Len(c) : i \in 1..Len(a) \/ i - Len(a) \in 1..Len(b)
      /\ \A i \in 1..Len(c) : i \notin 1..Len(a) => c[i] = b[i - Len(a)]
  BY <1>1
<1>3. /\ ToSet(a) = {a[i] : i \in 1..Len(a)} /\ ToSet(b) = {b[i] : i \in 1..Len(b)}
      /\ ToSet(c) = {c[i] : i \in 1..Len(c)}
  BY <1>1, SetOfSeq
<1>. HIDE DEF c
<1>4. ToSet(c) = ToSet(a) \union ToSet(b)
  <2>1. ASSUME NEW i \in 1..Len(c) PROVE c[i] \in ToSet(a) \union ToSet(b)
    BY <1>2, <1>3
  <2>2. \A i \in 1..Len(a) : a[i] \in ToSet(c)
    BY <1>2, <1>3
  <2>3. \A i \in 1..Len(b) : b[i] \in ToSet(c)
    BY <1>2, <1>3
  <2>. QED  BY <1>3, <2>1, <2>2, <2>3
<1>5. Rising(c)
  <2>. SUFFICES ASSUME NEW i \in 1..Len(c), NEW j \in 1..Len(c), i < j PROVE c[i] < c[j]
    BY DEF Rising
  <2>1. CASE j \in 1..Len(a)
    <3>1. i \in 1..Len(a)
      BY <1>1, <2>1
    <3>. QED  BY <1>2, <2>1, <3>1 DEF Rising
  <2>2. CASE i \in 1..Len(a) /\ j \notin 1..Len(a)
    <3>1. c[i] \in ToSet(a) /\ c[j] \in ToSet(b)
      BY <1>2, <1>3, <2>2
    <3>. QED  BY <3>1 DEF Below
  <2>3. CASE i \notin 1..Len(a) /\ j \notin 1..Len(a)
    <3>1. i - Len(a) \in 1..Len(b) /\ j - Len(a) \in 1..Len(b) /\ i - Len(a) < j - Len(a)
      BY <1>1, <1>2, <2>3
    <3>. QED  BY <1>2, <2>3, <3>1 DEF Rising
  <2>. QED  BY <2>1, <2>2, <2>3
<1>. QED  BY <1>1, <1>4, <1>5 DEF c

\* A batch put back before the queue is in order with it.
LEMMA Requeued ==
    ASSUME NEW a \in Seq(Ops), NEW b \in Seq(Ops), RisingOps(a), RisingOps(b), Below(Nums(a), Nums(b))
    PROVE  a \o b \in Seq(Ops) /\ RisingOps(a \o b) /\ Nums(a \o b) = Nums(a) \union Nums(b)
<1>. DEFINE c == a \o b
<1>1. /\ c \in Seq(Ops) /\ Len(c) = Len(a) + Len(b) /\ Len(a) \in Nat /\ Len(b) \in Nat
      /\ \A i \in 1..(Len(a) + Len(b)) : c[i] = IF i <= Len(a) THEN a[i] ELSE b[i - Len(a)]
  BY ConcatProperties
<1>2. /\ \A i \in 1..Len(a) : i \in 1..Len(c) /\ c[i] = a[i]
      /\ \A j \in 1..Len(b) : Len(a) + j \in 1..Len(c) /\ c[Len(a) + j] = b[j]
      /\ \A i \in 1..Len(c) : i \in 1..Len(a) \/ i - Len(a) \in 1..Len(b)
      /\ \A i \in 1..Len(c) : i \notin 1..Len(a) => c[i] = b[i - Len(a)]
  BY <1>1
<1>. HIDE DEF c
<1>4. Nums(c) = Nums(a) \union Nums(b)
  <2>1. ASSUME NEW i \in 1..Len(c) PROVE c[i].n \in Nums(a) \union Nums(b)
    BY <1>2 DEF Nums
  <2>2. \A i \in 1..Len(a) : a[i].n \in Nums(c)
    BY <1>2 DEF Nums
  <2>3. \A i \in 1..Len(b) : b[i].n \in Nums(c)
    BY <1>2 DEF Nums
  <2>. QED  BY <2>1, <2>2, <2>3 DEF Nums
<1>5. RisingOps(c)
  <2>. SUFFICES ASSUME NEW i \in 1..Len(c), NEW j \in 1..Len(c), i < j PROVE c[i].n < c[j].n
    BY DEF RisingOps
  <2>1. CASE j \in 1..Len(a)
    <3>1. i \in 1..Len(a)
      BY <1>1, <2>1
    <3>. QED  BY <1>2, <2>1, <3>1 DEF RisingOps
  <2>2. CASE i \in 1..Len(a) /\ j \notin 1..Len(a)
    <3>1. c[i].n \in Nums(a) /\ c[j].n \in Nums(b)
      BY <1>2, <2>2 DEF Nums
    <3>. QED  BY <3>1 DEF Below
  <2>3. CASE i \notin 1..Len(a) /\ j \notin 1..Len(a)
    <3>1. i - Len(a) \in 1..Len(b) /\ j - Len(a) \in 1..Len(b) /\ i - Len(a) < j - Len(a)
      BY <1>1, <1>2, <2>3
    <3>. QED  BY <1>2, <2>3, <3>1 DEF RisingOps
  <2>. QED  BY <2>1, <2>2, <2>3
<1>. QED  BY <1>1, <1>4, <1>5 DEF c

-----------------------------------------------------------------------------
(* What a batch writes *)

\* The writes that the committed rows show.
Written(rows) == UNION {ToSet(rows[f].writes) : f \in {g \in StoreFiles : rows[g] # Nobody}}

\* One operation adds its own number to the writes that show, at most.
LEMMA OpWrites ==
    ASSUME NEW rows \in Tables, NEW op \in Ops, rows # Nobody, ApplyOp(rows, op) # Nobody
    PROVE  ApplyOp(rows, op) \in Tables /\ Written(ApplyOp(rows, op)) \subseteq Written(rows) \union {op.n}
<1>. DEFINE after == ApplyOp(rows, op)
<1>. SUFFICES /\ after \in Tables
              /\ \A f \in StoreFiles : after[f] # Nobody =>
                    \/ after[f] = rows[f]
                    \/ ToSet(after[f].writes) \subseteq {op.n}
                    \/ rows[f] # Nobody /\ ToSet(after[f].writes) = ToSet(rows[f].writes) \union {op.n}
  <2>. HIDE DEF after
  <2>1. \A f \in StoreFiles : rows[f] # Nobody => ToSet(rows[f].writes) \subseteq Written(rows)
    BY DEF Written
  <2>2. ASSUME NEW f \in StoreFiles, after[f] # Nobody
        PROVE  ToSet(after[f].writes) \subseteq Written(rows) \union {op.n}
    BY <2>1, <2>2
  <2>3. Written(after) \subseteq Written(rows) \union {op.n}
    BY <2>2 DEF Written
  <2>. QED  BY <2>3 DEF after
<1>1. /\ op.n \in Nat /\ op.file \in StoreFiles /\ op.source \in Sources
      /\ op.kind \in {"save", "append", "clear"}
  BY DEF Ops
<1>2. CASE op.kind = "save"
  <2>1. PICK row \in TableRows : after = [rows EXCEPT ![op.file] = row] /\ row.writes = <<op.n>>
    <3>. DEFINE taken == \E f \in StoreFiles \ {op.file} :
                            rows[f] # Nobody /\ rows[f].id = ContextId(op.source)
                row == [id |-> IF taken THEN <<op.source, op.file>> ELSE ContextId(op.source),
                        source |-> op.source, writes |-> <<op.n>>]
    <3>1. after = [rows EXCEPT ![op.file] = row]
      BY <1>2 DEF ApplyOp, SaveRow
    <3>2. row \in TableRows
      <4>1. <<op.n>> \in Seq(Nat)
        BY <1>1
      <4>2. <<op.source, op.file>> \in RowIds /\ ContextId(op.source) \in RowIds
        BY <1>1 DEF RowIds, ContextId
      <4>. HIDE DEF taken
      <4>. QED  BY <1>1, <4>1, <4>2 DEF TableRows
    <3>3. row.writes = <<op.n>>
      OBVIOUS
    <3>. HIDE DEF row, after
    <3>. QED  BY <3>1, <3>2, <3>3
  <2>2. ToSet(<<op.n>>) = {op.n}
    BY DEF ToSet
  <2>. HIDE DEF after
  <2>. QED  BY <1>1, <2>1, <2>2 DEF Tables
<1>3. CASE op.kind = "append"
  <2>. DEFINE owner == {f \in StoreFiles : rows[f] # Nobody /\ rows[f].id = ContextId(op.source)}
  <2>1. after = [f \in StoreFiles |->
                IF f \in owner THEN [rows[f] EXCEPT !.writes = Append(@, op.n)] ELSE rows[f]]
    BY <1>3 DEF ApplyOp, AppendRow
  <2>2. ASSUME NEW f \in owner
        PROVE  /\ [rows[f] EXCEPT !.writes = Append(@, op.n)] \in TableRows
               /\ ToSet([rows[f] EXCEPT !.writes = Append(@, op.n)].writes)
                     = ToSet(rows[f].writes) \union {op.n}
               /\ rows[f] # Nobody
    <3>1. rows[f] \in TableRows /\ rows[f] # Nobody
      BY DEF Tables
    <3>2. rows[f].writes \in Seq(Nat)
      BY <3>1 DEF TableRows
    <3>3. PICK w \in Seq(Nat) : w = rows[f].writes
      BY <3>2
    <3>4. Append(w, op.n) \in Seq(Nat) /\ Elements(Append(w, op.n)) = Elements(w) \union {op.n}
      BY <1>1, AppendOp
    <3>5. ToSet(Append(w, op.n)) = ToSet(w) \union {op.n}
      BY <3>4, SetOfSeq DEF Elements
    <3>. QED  BY <3>1, <3>3, <3>4, <3>5 DEF TableRows
  <2>. HIDE DEF owner, after
  <2>. QED  BY <2>1, <2>2 DEF Tables
<1>4. CASE op.kind = "clear"
  <2>1. after = [rows EXCEPT ![op.file] = Nobody]
    BY <1>4 DEF ApplyOp, ClearRow
  <2>. HIDE DEF after
  <2>. QED  BY <1>1, <2>1 DEF Tables
<1>. QED  BY <1>1, <1>2, <1>3, <1>4

\* f satisfies the equations of ApplyBatch.
IsApplied(f, rows, ops) ==
    f = [i \in 0..Len(ops) |-> IF i = 0 THEN rows ELSE ApplyOp(f[i - 1], ops[i])]

LEMMA AppliedExists ==
    ASSUME NEW rows \in Tables, NEW ops \in Seq(Ops)
    PROVE  \E f : IsApplied(f, rows, ops)
<1>. DEFINE n == Len(ops)
            V == Tables \union {Nobody}
            step == [p \in (1..n) \X V |-> ApplyOp(p[2], ops[p[1]])]
<1>1. n \in Nat /\ (\A i \in 1..n : ops[i] \in Ops) /\ rows \in V
  OBVIOUS
<1>2. ASSUME NEW r \in V, NEW op \in Ops PROVE ApplyOp(r, op) \in V
  <2>1. r = Nobody => ApplyOp(r, op) = Nobody
    BY DEF ApplyOp
  <2>. QED  BY <2>1, OpWrites
<1>. HIDE DEF V
<1>3. step \in [(1..n) \X V -> V]
  <2>1. ASSUME NEW p \in (1..n) \X V PROVE ApplyOp(p[2], ops[p[1]]) \in V
    <3>1. p[2] \in V /\ ops[p[1]] \in Ops
      BY <1>1
    <3>. QED  BY <1>2, <3>1
  <2>. QED  BY <2>1
<1>4. \A k \in 1..n, r \in V : step[<<k, r>>] = ApplyOp(r, ops[k])
  OBVIOUS
<1>. HIDE DEF step
<1>5. PICK f : Computes(f, n, V, rows, step)
  BY <1>1, <1>3, StepsExist
<1>6. /\ f \in [0..n -> V] /\ f[0] = rows
      /\ \A k \in 1..n : f[k] = step[<<k, f[k - 1]>>]
  BY <1>5 DEF Computes
<1>7. ASSUME NEW k \in 1..n PROVE f[k] = ApplyOp(f[k - 1], ops[k])
  <2>1. f[k - 1] \in V
    BY <1>1, <1>6
  <2>. QED  BY <1>4, <1>6, <2>1
<1>8. f = [i \in 0..n |-> f[i]]
  BY <1>6
<1>9. \A i \in 0..n : f[i] = IF i = 0 THEN rows ELSE ApplyOp(f[i - 1], ops[i])
  <2>1. \A i \in 0..n : i = 0 \/ i \in 1..n
    BY <1>1
  <2>. QED  BY <1>6, <1>7, <2>1
<1>10. IsApplied(f, rows, ops)
  BY <1>8, <1>9 DEF IsApplied
<1>. QED  BY <1>10

\* A committed batch adds its own numbers to the writes that show, at most.
LEMMA BatchWrites ==
    ASSUME NEW rows \in Tables, NEW ops \in Seq(Ops), ApplyBatch(rows, ops) # Nobody
    PROVE  /\ ApplyBatch(rows, ops) \in Tables
           /\ Written(ApplyBatch(rows, ops)) \subseteq Written(rows) \union Nums(ops)
<1>. DEFINE n == Len(ops)
<1>1. PICK f : IsApplied(f, rows, ops) /\ ApplyBatch(rows, ops) = f[n]
  <2>. DEFINE g == CHOOSE f : IsApplied(f, rows, ops)
  <2>1. IsApplied(g, rows, ops)
    BY AppliedExists
  <2>2. ApplyBatch(rows, ops) = g[n]
    BY DEF ApplyBatch, IsApplied
  <2>. HIDE DEF g
  <2>. QED  BY <2>1, <2>2
<1>2. n \in Nat /\ \A i \in 1..n : ops[i] \in Ops /\ ops[i].n \in Nums(ops)
  BY DEF Nums
<1>3. f[0] = rows /\ \A i \in 1..n : f[i] = ApplyOp(f[i - 1], ops[i])
  <2>1. \A i \in 0..n : f[i] = IF i = 0 THEN rows ELSE ApplyOp(f[i - 1], ops[i])
    BY <1>1 DEF IsApplied
  <2>. QED  BY <1>2, <2>1
<1>. DEFINE P(i) == f[i] # Nobody =>
                      f[i] \in Tables /\ Written(f[i]) \subseteq Written(rows) \union Nums(ops)
            R == {i \in 0..n : P(i)}
<1>4. 0 \in R
  BY <1>2, <1>3
<1>5. ASSUME NEW i \in 1..n, i - 1 \in R PROVE i \in R
  <2>0. P(i - 1) /\ i \in 0..n
    BY <1>2, <1>5
  <2>1. SUFFICES ASSUME f[i] # Nobody
                 PROVE  f[i] \in Tables /\ Written(f[i]) \subseteq Written(rows) \union Nums(ops)
    BY <2>0
  <2>2. f[i - 1] # Nobody
    BY <1>3, <2>1 DEF ApplyOp
  <2>3. PICK r \in Tables : r = f[i - 1] /\ Written(r) \subseteq Written(rows) \union Nums(ops)
    BY <2>0, <2>2
  <2>4. PICK op \in Ops : op = ops[i] /\ op.n \in Nums(ops)
    BY <1>2
  <2>5. f[i] = ApplyOp(r, op)
    BY <1>3, <2>3, <2>4
  <2>6. f[i] \in Tables /\ Written(f[i]) \subseteq Written(r) \union {op.n}
    BY <2>1, <2>2, <2>3, <2>5, OpWrites
  <2>. QED  BY <2>3, <2>4, <2>6
<1>6. n \in R
  <2>. HIDE DEF R, n
  <2>1. \A k \in 0..n : k \in R
    BY <1>2, <1>4, <1>5, StepsReach
  <2>. QED  BY <1>2, <2>1
<1>. QED  BY <1>1, <1>6

-----------------------------------------------------------------------------
(* The accounts: committed, in flight, queued, gone *)

\* The books: committed a, in flight b, queued c and gone d are the n accepted
\* operations, each in one place and in order.
Accounts(a, b, c, d, n) ==
    /\ Rising(a) /\ RisingOps(b) /\ RisingOps(c)
    /\ Below(ToSet(a), Nums(b)) /\ Below(ToSet(a) \union Nums(b), Nums(c))
    /\ ToSet(a) \union Nums(b) \union Nums(c) \union d = 0..(n - 1)
    /\ (ToSet(a) \union Nums(b) \union Nums(c)) \intersect d = {}

LEMMA NoOps == <<>> \in Seq(Ops) /\ RisingOps(<<>>) /\ Nums(<<>>) = {} /\ Elements(<<>>) = {}
<1>1. Len(<<>>) = 0 /\ <<>> \in Seq(Ops)
  OBVIOUS
<1>. QED  BY <1>1 DEF RisingOps, Nums, Elements

\* What the sections of flush, of a writer and of clear_file do to the books.
LEMMA AccountsTake ==
    ASSUME NEW a, NEW c, NEW d, NEW n, Accounts(a, <<>>, c, d, n)
    PROVE  Accounts(a, c, <<>>, d, n)
  BY NoOps DEF Accounts, Below

LEMMA AccountsCommit ==
    ASSUME NEW a \in Seq(Nat), NEW b \in Seq(Ops), NEW c, NEW d, NEW n, Accounts(a, b, c, d, n)
    PROVE  a \o Numbers(b) \in Seq(Nat) /\ Accounts(a \o Numbers(b), <<>>, c, d, n)
           /\ ToSet(a \o Numbers(b)) = ToSet(a) \union Nums(b)
<1>1. PICK m \in Seq(Nat) : m = Numbers(b) /\ ToSet(m) = Nums(b) /\ Rising(m)
  BY NumbersFacts DEF Accounts
<1>2. a \o m \in Seq(Nat) /\ Rising(a \o m) /\ ToSet(a \o m) = ToSet(a) \union ToSet(m)
  BY <1>1, Concatenated DEF Accounts
<1>3. Accounts(a \o m, <<>>, c, d, n)
  BY <1>1, <1>2, NoOps DEF Accounts, Below
<1>. QED  BY <1>1, <1>2, <1>3

LEMMA AccountsRequeue ==
    ASSUME NEW a, NEW b \in Seq(Ops), NEW c \in Seq(Ops), NEW d, NEW n, Accounts(a, b, c, d, n)
    PROVE  b \o c \in Seq(Ops) /\ Accounts(a, <<>>, b \o c, d, n)
<1>1. Below(Nums(b), Nums(c))
  BY DEF Accounts, Below
<1>2. b \o c \in Seq(Ops) /\ RisingOps(b \o c) /\ Nums(b \o c) = Nums(b) \union Nums(c)
  BY <1>1, Requeued DEF Accounts
<1>3. Accounts(a, <<>>, b \o c, d, n)
  BY <1>2, NoOps DEF Accounts, Below
<1>. QED  BY <1>2, <1>3

LEMMA AccountsQueue ==
    ASSUME NEW a \in Seq(Nat), NEW b \in Seq(Ops), NEW c \in Seq(Ops), NEW d, NEW n \in Nat,
           NEW op \in Ops, op.n = n, Accounts(a, b, c, d, n)
    PROVE  Append(c, op) \in Seq(Ops) /\ Accounts(a, b, Append(c, op), d, n + 1)
           /\ Nums(Append(c, op)) = Nums(c) \union {n}
<1>0. PICK l \in Nat : l = Len(c)
  OBVIOUS
<1>1. PICK q : /\ q = Append(c, op) /\ q \in Seq(Ops) /\ Len(q) = l + 1
               /\ \A i \in 1..l : q[i] = c[i]
               /\ q[l + 1] = op /\ Elements(q) = Elements(c) \union {op}
  <2>1. /\ Append(c, op) \in Seq(Ops) /\ Len(Append(c, op)) = Len(c) + 1
        /\ \A i \in 1..Len(c) : Append(c, op)[i] = c[i]
        /\ Append(c, op)[Len(c) + 1] = op
        /\ Elements(Append(c, op)) = Elements(c) \union {op}
    BY AppendOp
  <2>. QED  BY <1>0, <2>1
<1>2. Nums(q) = Nums(c) \union {n}
  <2>1. \A s : Nums(s) = {x.n : x \in Elements(s)}
    BY DEF Nums, Elements
  <2>2. Nums(q) = {x.n : x \in Elements(q)} /\ Nums(c) = {x.n : x \in Elements(c)}
    BY <2>1
  <2>. QED  BY <1>1, <2>2
<1>3. \A x \in ToSet(a) \union Nums(b) \union Nums(c) : x < n
  BY DEF Accounts
<1>4. \A i \in 1..l : c[i].n \in Nums(c)
  BY <1>0 DEF Nums
<1>5. RisingOps(q)
  <2>1. \A i, j \in 1..l : i < j => c[i].n < c[j].n
    BY <1>0 DEF RisingOps, Accounts
  <2>2. \A i, j \in 1..(l + 1) : i < j => i \in 1..l /\ (j \in 1..l \/ j = l + 1)
    OBVIOUS
  <2>3. \A i, j \in 1..(l + 1) : i < j => q[i].n < q[j].n
    BY <1>1, <1>3, <1>4, <2>1, <2>2
  <2>. QED  BY <1>1, <2>3 DEF RisingOps
<1>6. 0..(n + 1 - 1) = 0..(n - 1) \union {n}
  OBVIOUS
<1>7. n \notin d
  BY DEF Accounts
<1>8. Below(ToSet(a) \union Nums(b), Nums(q))
  BY <1>2, <1>3 DEF Below, Accounts
<1>9. Accounts(a, b, q, d, n + 1)
  BY <1>2, <1>5, <1>6, <1>7, <1>8 DEF Accounts
<1>. QED  BY <1>1, <1>2, <1>9

LEMMA AccountsClear ==
    ASSUME NEW a, NEW b, NEW c, NEW d, NEW n, NEW e, NEW gone, Accounts(a, b, c, d, n),
           RisingOps(e), Nums(e) \union gone = Nums(c), Nums(e) \intersect gone = {},
           ToSet(a) \union Nums(b) \subseteq Nat, Nums(c) \subseteq Nat
    PROVE  Accounts(a, b, e, d \union gone, n)
<1>1. (ToSet(a) \union Nums(b)) \intersect Nums(c) = {}
  BY DEF Accounts, Below
<1>. QED  BY <1>1 DEF Accounts, Below

\* Statements of the batch that had no effect.
LEMMA AccountsSwallow ==
    ASSUME NEW a, NEW b, NEW c, NEW d, NEW n, NEW e, NEW lost, Accounts(a, b, c, d, n),
           RisingOps(e), Nums(e) \union lost = Nums(b), Nums(e) \intersect lost = {},
           ToSet(a) \union Nums(b) \subseteq Nat, Nums(c) \subseteq Nat
    PROVE  Accounts(a, e, c, d \union lost, n)
<1>1. Nums(b) \intersect (ToSet(a) \union Nums(c)) = {}
  BY DEF Accounts, Below
<1>. QED  BY <1>1 DEF Accounts, Below

\* The books as AcceptedOnceInOrder states them.
InOneLine(line, d, n) ==
    /\ \A i, j \in 1..Len(line) : i < j => line[i] < line[j]
    /\ ToSet(line) \union d = 0..(n - 1)
    /\ ToSet(line) \intersect d = {}

LEMMA AccountsLine ==
    ASSUME NEW a \in Seq(Nat), NEW b \in Seq(Ops), NEW c \in Seq(Ops), NEW d, NEW n,
           Accounts(a, b, c, d, n)
    PROVE  InOneLine(a \o Numbers(b) \o Numbers(c), d, n)
<1>1. PICK x \in Seq(Nat) : x = a \o Numbers(b) /\ Accounts(x, <<>>, c, d, n)
  BY AccountsCommit
<1>2. PICK y \in Seq(Nat) : y = x \o Numbers(c) /\ Accounts(y, <<>>, <<>>, d, n)
  BY <1>1, AccountsTake, AccountsCommit
<1>3. a \o Numbers(b) \o Numbers(c) = y
  BY <1>1, <1>2
<1>4. InOneLine(y, d, n)
  BY <1>2, NoOps DEF Accounts, Rising, InOneLine
<1>. QED  BY <1>3, <1>4

-----------------------------------------------------------------------------
(* The inductive invariant *)

\* The invariant of the store.
StoreTyped ==
    /\ pending \in Seq(Ops) /\ thread \in [Threads -> ThreadStates] /\ table \in Tables
    /\ nextOp \in Nat /\ applied \in Seq(Nat)
    /\ open \in Tables \union {Nobody}
    /\ \A op \in swallowed : op.kind = "clear"

\* The numbers of the clears that had no effect.
Lost == {op.n : op \in swallowed}

\* Only the flusher has a batch, and only while it flushes.
OneFlush ==
    \A t \in Threads : /\ thread[t].batch # <<>> => thread[t].pc = "flush"
                       /\ thread[t].pc = "flush" => t \in Flushers

\* A call of clear_file between its sections, and an undisturbed one.
InClear(t) == thread[t].pc \in {"clearQueue", "clearRows"}
Alone(t) == InClear(t) /\ ~thread[t].raced

\* What such a call has covered and not yet taken out is still in the queue, and
\* the second section will own it.
Covering(t) ==
    /\ thread[t].covers \subseteq Nums(pending) \union dropped
    /\ thread[t].pc = "clearRows" => thread[t].covers \subseteq dropped
    /\ thread[t].pc = "clearQueue" =>
          \A op \in Elements(pending) : op.n \in thread[t].covers => ~Retained(t, op)

\* Neither property is inductive: both need the books, the second one also what a
\* call of clear_file that is under way has seen.
StoreInv ==
    /\ StoreTyped /\ OneFlush
    /\ Accounts(applied, Batch, pending, Lost \union dropped, nextOp)
    /\ Lost \intersect dropped = {}
    /\ \A t \in Threads : /\ InClear(t) => thread[t].file \in StoreFiles
                          /\ Alone(t) => Covering(t) /\ \A u \in Threads : thread[u].pc # "flush"
    /\ erased \subseteq dropped
    /\ Written(table) \subseteq ToSet(applied)

\* The batch in flight, as a function of the threads.
BatchOf(th) ==
    LET flying == {t \in Threads : th[t].batch # <<>>}
    IN  IF flying = {} THEN <<>> ELSE th[CHOOSE t \in flying : TRUE].batch

LEMMA BatchNow == Batch = BatchOf(thread) /\ Batch' = BatchOf(thread')
  BY DEF Batch, BatchOf

LEMMA BatchIs ==
    ASSUME NEW th, NEW t \in Threads, t \in Flushers,
           \A u \in Threads : th[u].batch # <<>> => u \in Flushers
    PROVE  BatchOf(th) = th[t].batch
<1>1. \A u \in Threads : th[u].batch # <<>> => u = t
  BY FlusherAssumption
<1>. DEFINE flying == {u \in Threads : th[u].batch # <<>>}
<1>2. BatchOf(th) = IF flying = {} THEN <<>> ELSE th[CHOOSE u \in flying : TRUE].batch
  BY DEF BatchOf
<1>3. flying # {} => (CHOOSE u \in flying : TRUE) \in flying
  OBVIOUS
<1>. QED  BY <1>1, <1>2, <1>3

LEMMA BatchSame ==
    ASSUME \A t \in Threads : thread'[t].batch = thread[t].batch
    PROVE  Batch' = Batch
<1>. DEFINE flying == {u \in Threads : thread[u].batch # <<>>}
            c == CHOOSE u \in flying : TRUE
<1>1. {u \in Threads : thread'[u].batch # <<>>} = flying
  OBVIOUS
<1>2. Batch = IF flying = {} THEN <<>> ELSE thread[c].batch
  BY DEF Batch
<1>3. Batch' = IF flying = {} THEN <<>> ELSE thread'[c].batch
  BY <1>1 DEF Batch
<1>4. flying # {} => c \in Threads
  OBVIOUS
<1>. QED  BY <1>2, <1>3, <1>4

LEMMA BatchTyped == StoreTyped => Batch \in Seq(Ops)
<1>. SUFFICES ASSUME StoreTyped PROVE Batch \in Seq(Ops)
  OBVIOUS
<1>. DEFINE flying == {u \in Threads : thread[u].batch # <<>>}
<1>1. \A u \in Threads : thread[u].batch \in Seq(Ops)
  BY DEF StoreTyped, ThreadStates
<1>2. Batch = IF flying = {} THEN <<>> ELSE thread[CHOOSE u \in flying : TRUE].batch
  BY DEF Batch
<1>3. flying # {} => (CHOOSE u \in flying : TRUE) \in Threads
  OBVIOUS
<1>. QED  BY <1>1, <1>2, <1>3, NoOps

LEMMA IdleTyped == IdleThread \in ThreadStates
  BY NoOps DEF IdleThread, ThreadStates

LEMMA NumsOf == \A s : Nums(s) = {op.n : op \in Elements(s)}
  BY DEF Nums, Elements

LEMMA QueuedOf == \A f : QueuedIds(f) =
    {op.source : op \in {x \in Elements(pending) : x.kind = "save" /\ x.file = f}}
  BY DEF QueuedIds, Elements

LEMMA QueuedOfNext == \A f : QueuedIds(f)' =
    {op.source : op \in {x \in Elements(pending') : x.kind = "save" /\ x.file = f}}
  BY DEF QueuedIds, Elements

\* An operation's number identifies it in the queue.
LEMMA Identified ==
    ASSUME NEW s \in Seq(Ops), RisingOps(s)
    PROVE  \A x, y \in Elements(s) : x.n = y.n => x = y
<1>. SUFFICES ASSUME NEW i \in 1..Len(s), NEW j \in 1..Len(s), s[i].n = s[j].n PROVE s[i] = s[j]
  BY DEF Elements
<1>1. s[i] \in Ops /\ s[j] \in Ops
  OBVIOUS
<1>2. s[i].n \in Nat /\ s[j].n \in Nat
  BY <1>1 DEF Ops
<1>3. ~(i < j) /\ ~(j < i)
  BY <1>2 DEF RisingOps
<1>. QED  BY <1>3

-----------------------------------------------------------------------------
(* The operations keep it *)

LEMMA StoreInitially == StoreInit => StoreInv
<1>. SUFFICES ASSUME StoreInit PROVE StoreInv
  OBVIOUS
<1>1. StoreTyped
  <2>1. <<>> \in Seq(Nat)
    OBVIOUS
  <2>. QED  BY <2>1, NoOps, IdleTyped DEF StoreInit, StoreTyped, Tables, Lost
<1>2. \A t \in Threads : thread[t].pc = "idle" /\ thread[t].batch = <<>>
  BY DEF StoreInit, IdleThread
<1>3. Batch = <<>>
  BY <1>2 DEF Batch
<1>4. Rising(<<>>) /\ ToSet(<<>>) = {} /\ 0..(0 - 1) = {}
  BY DEF Rising, ToSet
<1>5. Accounts(applied, Batch, pending, Lost \union dropped, nextOp) /\ Lost = {}
  BY <1>3, <1>4, NoOps DEF StoreInit, Accounts, Below, Lost
<1>6. Written(table) = {}
  BY DEF Written, StoreInit
<1>. QED  BY <1>1, <1>2, <1>5, <1>6 DEF StoreInit, StoreInv, OneFlush, InClear, Alone

\* One lemma for each action.
LEMMA EnqueueKeeps ==
    ASSUME StoreInv, NEW kind \in {"save", "append", "clear"}, NEW f \in StoreFiles,
           NEW s \in Sources, Enqueue(kind, f, s)
    PROVE  StoreInv'
<1>1. PICK op \in Ops : op.n = nextOp /\ pending' = Append(pending, op)
  <2>. DEFINE op == [n |-> nextOp, kind |-> kind, file |-> f, source |-> s]
  <2>1. op \in Ops /\ op.n = nextOp /\ pending' = Append(pending, op)
    BY DEF StoreInv, StoreTyped, Ops, Enqueue
  <2>. QED  BY <2>1
<1>2. /\ nextOp' = nextOp + 1 /\ table' = table /\ open' = open /\ thread' = thread
      /\ applied' = applied
      /\ dropped' = dropped /\ erased' = erased /\ swallowed' = swallowed /\ Lost' = Lost
  BY DEF Enqueue, Lost
<1>3. /\ pending \in Seq(Ops) /\ nextOp \in Nat /\ applied \in Seq(Nat) /\ Batch \in Seq(Ops)
      /\ Accounts(applied, Batch, pending, Lost \union dropped, nextOp)
  BY BatchTyped DEF StoreInv, StoreTyped
<1>4. /\ pending' \in Seq(Ops) /\ Accounts(applied, Batch, pending', Lost \union dropped, nextOp + 1)
      /\ Nums(pending') = Nums(pending) \union {nextOp}
      /\ Elements(pending') = Elements(pending) \union {op}
  BY <1>1, <1>3, AccountsQueue, AppendOp
<1>5. Batch' = Batch
  BY <1>2, BatchSame
<1>6. nextOp \notin Nums(pending) \union dropped
  BY <1>3 DEF Accounts
<1>7. ASSUME NEW t \in Threads, Alone(t)' PROVE Covering(t)' /\ \A u \in Threads : thread'[u].pc # "flush"
  <2>1. Covering(t) /\ \A u \in Threads : thread[u].pc # "flush"
    BY <1>2, <1>7 DEF StoreInv, Alone, InClear
  <2>2. \A g : QueuedIds(g) \subseteq QueuedIds(g)'
    BY <1>4, QueuedOf, QueuedOfNext
  <2>3. \A x : ~Retained(t, x) => ~Retained(t, x)'
    BY <1>2, <2>2 DEF Retained, OwnedIds
  <2>. QED  BY <1>1, <1>2, <1>4, <1>6, <2>1, <2>3 DEF Covering
<1>8. StoreTyped' /\ OneFlush'
  BY <1>2, <1>3, <1>4 DEF StoreInv, StoreTyped, OneFlush
<1>. QED  BY <1>2, <1>4, <1>5, <1>7, <1>8 DEF StoreInv, InClear, Written

LEMMA FlushTakeKeeps ==
    ASSUME StoreInv, NEW t \in Threads, FlushTake(t)
    PROVE  StoreInv'
<1>1. /\ t \in Flushers /\ thread[t].pc = "idle" /\ pending' = <<>> /\ table' = table /\ open' = open
      /\ nextOp' = nextOp /\ applied' = applied /\ dropped' = dropped /\ erased' = erased
      /\ swallowed' = swallowed /\ Lost' = Lost
      /\ thread' = [u \in Threads |->
                      IF u = t THEN [IdleThread EXCEPT !.pc = "flush", !.batch = pending]
                      ELSE [thread[u] EXCEPT !.raced = @ \/ thread[u].file # Nobody]]
  BY DEF FlushTake, Lost
<1>2. /\ pending \in Seq(Ops) /\ thread \in [Threads -> ThreadStates] /\ OneFlush
      /\ Accounts(applied, Batch, pending, Lost \union dropped, nextOp)
  BY DEF StoreInv, StoreTyped
<1>3. /\ thread'[t] = [IdleThread EXCEPT !.pc = "flush", !.batch = pending]
      /\ \A u \in Threads \ {t} :
            thread'[u] = [thread[u] EXCEPT !.raced = @ \/ thread[u].file # Nobody]
  BY <1>1
<1>4. /\ thread'[t] \in ThreadStates /\ thread'[t].pc = "flush" /\ thread'[t].batch = pending
  BY <1>2, <1>3, IdleTyped DEF ThreadStates, IdleThread
<1>5. ASSUME NEW u \in Threads \ {t}
      PROVE  /\ thread'[u] \in ThreadStates /\ thread'[u].pc = thread[u].pc
             /\ thread'[u].batch = thread[u].batch /\ thread'[u].file = thread[u].file
             /\ thread[u].file # Nobody => thread'[u].raced
  <2>1. thread[u] \in ThreadStates
    BY <1>2
  <2>2. PICK b \in BOOLEAN : b = (thread[u].raced \/ thread[u].file # Nobody)
    OBVIOUS
  <2>3. thread'[u] = [thread[u] EXCEPT !.raced = b]
    BY <1>3, <2>2
  <2>4. /\ thread'[u] \in ThreadStates /\ thread'[u].pc = thread[u].pc
        /\ thread'[u].batch = thread[u].batch /\ thread'[u].file = thread[u].file
        /\ thread'[u].raced = b
    BY <2>1, <2>3 DEF ThreadStates
  <2>. QED  BY <2>2, <2>4
<1>6. StoreTyped'
  <2>1. thread' \in [Threads -> ThreadStates]
    BY <1>1, <1>4, <1>5
  <2>. QED  BY <1>1, <2>1, NoOps DEF StoreInv, StoreTyped
<1>7. OneFlush'
  BY <1>1, <1>2, <1>4, <1>5 DEF OneFlush
<1>8. Batch = <<>> /\ Batch' = pending
  <2>1. Batch = thread[t].batch
    BY <1>1, <1>2, BatchIs, BatchNow DEF OneFlush
  <2>2. Batch' = thread'[t].batch
    BY <1>1, <1>7, BatchIs, BatchNow DEF OneFlush
  <2>. QED  BY <1>1, <1>2, <1>4, <2>1, <2>2 DEF OneFlush
<1>9. Accounts(applied, Batch, pending, Lost \union dropped, nextOp)'
  BY <1>1, <1>2, <1>8, AccountsTake
<1>10. ASSUME NEW u \in Threads PROVE (InClear(u)' => thread'[u].file \in StoreFiles) /\ ~Alone(u)'
  <2>1. CASE u = t
    BY <1>4, <2>1 DEF Alone, InClear
  <2>2. CASE u # t
    <3>1. InClear(u)' => InClear(u) /\ thread[u].file \in StoreFiles
      BY <1>5, <2>2 DEF InClear, StoreInv
    <3>. QED  BY <1>5, <2>2, <3>1, NobodyAssumption DEF Alone
  <2>. QED  BY <2>1, <2>2
<1>. QED  BY <1>1, <1>6, <1>7, <1>9, <1>10 DEF StoreInv, Written

\* While a batch is in flight no clear_file call is alone.
LEMMA FlushMeets ==
    ASSUME StoreInv, NEW t \in Threads, thread[t].pc = "flush", NEW r \in ThreadStates,
           thread' = [thread EXCEPT ![t] = r], r.pc \in {"idle", "flush"},
           r.batch # <<>> => r.pc = "flush"
    PROVE  /\ t \in Flushers /\ thread' \in [Threads -> ThreadStates] /\ OneFlush'
           /\ Batch = thread[t].batch /\ Batch' = r.batch /\ Batch \in Seq(Ops)
           /\ \A u \in Threads : (InClear(u)' => thread'[u].file \in StoreFiles) /\ ~Alone(u)'
<1>1. t \in Flushers /\ OneFlush /\ StoreTyped
  BY DEF StoreInv, OneFlush
<1>2. /\ thread' \in [Threads -> ThreadStates] /\ thread'[t] = r
      /\ \A u \in Threads \ {t} : thread'[u] = thread[u]
  BY <1>1 DEF StoreTyped
<1>3. OneFlush'
  BY <1>1, <1>2 DEF OneFlush
<1>4. Batch = thread[t].batch
  BY <1>1, BatchIs, BatchNow DEF OneFlush
<1>5. Batch' = thread'[t].batch
  BY <1>1, <1>3, BatchIs, BatchNow DEF OneFlush
<1>6. \A u \in Threads : ~Alone(u)
  BY DEF StoreInv
<1>7. ASSUME NEW u \in Threads PROVE (InClear(u)' => thread'[u].file \in StoreFiles) /\ ~Alone(u)'
  <2>1. CASE u = t
    BY <1>2, <2>1 DEF Alone, InClear
  <2>2. CASE u # t
    <3>1. InClear(u)' = InClear(u) /\ Alone(u)' = Alone(u) /\ thread'[u].file = thread[u].file
      BY <1>2, <2>2 DEF Alone, InClear
    <3>. QED  BY <1>6, <3>1 DEF StoreInv
  <2>. QED  BY <2>1, <2>2
<1>. QED  BY <1>1, <1>2, <1>3, <1>4, <1>5, <1>7, BatchTyped

LEMMA FlushCommitKeeps ==
    ASSUME StoreInv, NEW t \in Threads, FlushCommit(t)
    PROVE  StoreInv'
<1>1. /\ thread[t].pc = "flush" /\ thread' = [thread EXCEPT ![t] = IdleThread]
      /\ pending' = pending /\ open' = open /\ nextOp' = nextOp /\ dropped' = dropped /\ erased' = erased
  BY DEF FlushCommit, To
<1>0. PICK lost \in Swallowable(thread[t].batch) :
         LET done == Without(thread[t].batch, lost) IN
         /\ ApplyBatch(table, done) # Nobody
         /\ table' = ApplyBatch(table, done) /\ applied' = applied \o Numbers(done)
         /\ swallowed' = swallowed \union lost
  BY DEF FlushCommit
<1>2. PICK done : /\ done = Without(thread[t].batch, lost) /\ ApplyBatch(table, done) # Nobody
                  /\ table' = ApplyBatch(table, done) /\ applied' = applied \o Numbers(done)
                  /\ swallowed' = swallowed \union lost
  BY <1>0
<1>3. /\ thread' \in [Threads -> ThreadStates] /\ OneFlush' /\ Batch = thread[t].batch
      /\ Batch' = <<>> /\ Batch \in Seq(Ops)
      /\ \A u \in Threads : (InClear(u)' => thread'[u].file \in StoreFiles) /\ ~Alone(u)'
  <2>1. IdleThread.pc = "idle" /\ IdleThread.batch = <<>>
    BY DEF IdleThread
  <2>. QED  BY <1>1, <2>1, IdleTyped, FlushMeets
<1>4. /\ table \in Tables /\ applied \in Seq(Nat) /\ pending \in Seq(Ops) /\ RisingOps(Batch)
      /\ Accounts(applied, Batch, pending, Lost \union dropped, nextOp) /\ Lost \intersect dropped = {}
  BY DEF StoreInv, StoreTyped, Accounts
<1>. DEFINE gone == {op.n : op \in lost}
<1>5. /\ lost \subseteq Elements(Batch) /\ \A op \in lost : op.kind = "clear"
  <2>1. ToSet(Batch) = Elements(Batch)
    BY DEF ToSet, Elements
  <2>. QED  BY <1>3, <2>1 DEF Swallowable
<1>6. done \in Seq(Ops) /\ RisingOps(done) /\ Elements(done) = {op \in Elements(Batch) : op \notin lost}
  BY <1>2, <1>3, <1>4, WithoutFacts
<1>7. /\ Nums(Batch) = {op.n : op \in Elements(Batch)} /\ Nums(done) = {op.n : op \in Elements(done)}
  BY NumsOf
<1>8. Nums(done) \union gone = Nums(Batch) /\ Nums(done) \intersect gone = {}
  <2>1. \A x, y \in Elements(Batch) : x.n = y.n => x = y
    BY <1>3, <1>4, Identified
  <2>. QED  BY <1>5, <1>6, <1>7, <2>1
<1>9. ToSet(applied) \union Nums(Batch) \subseteq Nat /\ Nums(pending) \subseteq Nat
  <2>1. ToSet(applied) \subseteq Nat
    BY <1>4, SetOfSeq
  <2>. QED  BY <1>3, <1>4, <2>1, NumbersFacts
<1>. HIDE DEF gone
<1>10. Accounts(applied, done, pending, (Lost \union dropped) \union gone, nextOp)
  BY <1>4, <1>6, <1>8, <1>9, AccountsSwallow
<1>11. Lost' = Lost \union gone /\ (Lost \union dropped) \union gone = Lost' \union dropped'
  BY <1>1, <1>2 DEF Lost, gone
<1>12. gone \intersect dropped = {}
  BY <1>4, <1>8 DEF Accounts
<1>13. /\ applied' \in Seq(Nat) /\ Accounts(applied', <<>>, pending, Lost' \union dropped', nextOp)
       /\ ToSet(applied') = ToSet(applied) \union Nums(done)
  BY <1>2, <1>4, <1>6, <1>10, <1>11, AccountsCommit
<1>14. table' \in Tables /\ Written(table') \subseteq Written(table) \union Nums(done)
  BY <1>2, <1>4, <1>6, BatchWrites
<1>15. StoreTyped'
  BY <1>1, <1>2, <1>3, <1>5, <1>13, <1>14 DEF StoreInv, StoreTyped
<1>16. Written(table)' \subseteq ToSet(applied')
  BY <1>13, <1>14 DEF StoreInv, Written
<1>17. Lost' \intersect dropped' = {}
  BY <1>1, <1>4, <1>11, <1>12
<1>. QED  BY <1>1, <1>3, <1>13, <1>15, <1>16, <1>17 DEF StoreInv

LEMMA AttemptKeeps ==
    ASSUME StoreInv, NEW t \in Threads, thread[t].pc = "flush", AttemptFailed(t),
           open' \in Tables \union {Nobody}, UNCHANGED <<table, nextOp, applied, swallowed, dropped, erased>>
    PROVE  StoreInv'
<1>0. Lost' = Lost
  BY DEF Lost
<1>1. thread[t] \in ThreadStates /\ pending \in Seq(Ops)
  BY DEF StoreInv, StoreTyped
<1>2. CASE thread' = [thread EXCEPT ![t] = [thread[t] EXCEPT !.tries = @ + 1]] /\ pending' = pending
  <2>1. PICK r \in ThreadStates : /\ r = [thread[t] EXCEPT !.tries = @ + 1]
                                  /\ r.pc = "flush" /\ r.batch = thread[t].batch
    <3>1. PICK k \in Nat : k = thread[t].tries + 1
      BY <1>1 DEF ThreadStates
    <3>2. PICK r : r = [thread[t] EXCEPT !.tries = k]
      OBVIOUS
    <3>3. r \in ThreadStates /\ r.pc = thread[t].pc /\ r.batch = thread[t].batch
      BY <1>1, <3>2 DEF ThreadStates
    <3>4. r = [thread[t] EXCEPT !.tries = @ + 1]
      BY <3>1, <3>2
    <3>. QED  BY <3>3, <3>4
  <2>0. thread' = [thread EXCEPT ![t] = r]
    BY <1>2, <2>1
  <2>2. /\ thread' \in [Threads -> ThreadStates] /\ OneFlush' /\ Batch' = Batch
        /\ \A u \in Threads : (InClear(u)' => thread'[u].file \in StoreFiles) /\ ~Alone(u)'
    <3>1. r.pc \in {"idle", "flush"} /\ (r.batch # <<>> => r.pc = "flush")
      BY <2>1
    <3>2. /\ t \in Flushers /\ thread' \in [Threads -> ThreadStates] /\ OneFlush'
          /\ Batch = thread[t].batch /\ Batch' = r.batch /\ Batch \in Seq(Ops)
          /\ \A u \in Threads : (InClear(u)' => thread'[u].file \in StoreFiles) /\ ~Alone(u)'
      BY <2>0, <3>1, FlushMeets
    <3>. QED  BY <2>1, <3>2
  <2>. QED  BY <1>0, <1>2, <2>2 DEF StoreInv, StoreTyped, Written
<1>3. CASE thread' = [thread EXCEPT ![t] = IdleThread] /\ pending' = thread[t].batch \o pending
  <2>1. /\ thread' \in [Threads -> ThreadStates] /\ OneFlush' /\ Batch = thread[t].batch
        /\ Batch' = <<>> /\ Batch \in Seq(Ops)
        /\ \A u \in Threads : (InClear(u)' => thread'[u].file \in StoreFiles) /\ ~Alone(u)'
    <3>1. IdleThread.pc = "idle" /\ IdleThread.batch = <<>>
      BY DEF IdleThread
    <3>. QED  BY <1>3, <3>1, IdleTyped, FlushMeets
  <2>2. pending' \in Seq(Ops) /\ Accounts(applied, <<>>, pending', Lost \union dropped, nextOp)
    BY <1>1, <1>3, <2>1, AccountsRequeue DEF StoreInv
  <2>. QED  BY <1>0, <2>1, <2>2 DEF StoreInv, StoreTyped, Written
<1>. QED  BY <1>2, <1>3 DEF AttemptFailed, To, Requeue

LEMMA FlushRefusedKeeps ==
    ASSUME StoreInv, NEW t \in Threads, FlushRefused(t)
    PROVE  StoreInv'
<1>1. open' \in Tables \union {Nobody}
  BY DEF FlushRefused, StoreInv, StoreTyped
<1>. QED  BY <1>1, AttemptKeeps DEF FlushRefused

LEMMA FlushFaultKeeps ==
    ASSUME StoreInv, NEW t \in Threads, FlushFault(t)
    PROVE  StoreInv'
<1>1. /\ thread[t].batch \in Seq(Ops) /\ thread[t].pc = "flush" /\ table \in Tables
      /\ RisingOps(thread[t].batch)
  <2>1. t \in Flushers /\ thread[t] \in ThreadStates /\ RisingOps(Batch)
    BY DEF FlushFault, StoreInv, StoreTyped, OneFlush, Accounts
  <2>2. Batch = thread[t].batch
    BY <2>1, BatchIs, BatchNow DEF StoreInv, OneFlush
  <2>. QED  BY <2>1, <2>2 DEF FlushFault, ThreadStates, StoreInv, StoreTyped
<1>2. open' \in Tables \union {Nobody}
  <2>1. PICK lost : open' \in {Nobody, ApplyBatch(table, Without(thread[t].batch, lost))}
    BY DEF FlushFault
  <2>2. Without(thread[t].batch, lost) \in Seq(Ops)
    BY <1>1, WithoutFacts
  <2>. QED  BY <1>1, <2>1, <2>2, BatchWrites
<1>. QED  BY <1>1, <1>2, AttemptKeeps DEF FlushFault

LEMMA ClearLookupKeeps ==
    ASSUME StoreInv, NEW t \in Threads, NEW f \in StoreFiles, ClearLookup(t, f)
    PROVE  StoreInv'
<1>0. PICK error \in BOOLEAN :
         To(t, [IdleThread EXCEPT
                  !.pc = "clearQueue", !.file = f,
                  !.ids = IF error THEN {} ELSE ContextIds(f), !.covers = Queued(f),
                  !.raced = \/ error \/ open # Nobody \/ \E u \in Threads : thread[u].pc = "flush"])
  BY DEF ClearLookup
<1>. DEFINE ids == IF error THEN {} ELSE ContextIds(f)
            r == [IdleThread EXCEPT
                    !.pc = "clearQueue", !.file = f, !.ids = ids, !.covers = Queued(f),
                    !.raced = \/ error \/ open # Nobody \/ \E u \in Threads : thread[u].pc = "flush"]
<1>1. /\ thread[t].pc = "idle" /\ thread' = [thread EXCEPT ![t] = r]
      /\ pending' = pending /\ table' = table /\ open' = open /\ nextOp' = nextOp
      /\ applied' = applied /\ dropped' = dropped /\ erased' = erased
      /\ swallowed' = swallowed /\ Lost' = Lost
  BY <1>0 DEF ClearLookup, To, Lost
<1>2. /\ pending \in Seq(Ops) /\ thread \in [Threads -> ThreadStates] /\ OneFlush
      /\ table \in Tables /\ Accounts(applied, Batch, pending, Lost \union dropped, nextOp)
  BY DEF StoreInv, StoreTyped
<1>3. ids \subseteq Sources
  <2>1. Visible \in Tables
    BY <1>2 DEF Visible, StoreInv, StoreTyped
  <2>2. Visible[f] = Nobody \/ Visible[f] \in TableRows
    BY <2>1 DEF Tables
  <2>. QED  BY <2>2 DEF ContextIds, TableRows
<1>4. Queued(f) \subseteq Nums(pending) /\ Queued(f) \subseteq Nat
  <2>1. Nums(pending) \subseteq Nat
    BY <1>2, NumbersFacts
  <2>. QED  BY <2>1 DEF Queued, Nums
<1>5. /\ r \in ThreadStates /\ r.pc = "clearQueue" /\ r.file = f /\ r.batch = <<>>
      /\ r.ids = ids /\ r.covers = Queued(f)
      /\ ~r.raced => ~error /\ \A u \in Threads : thread[u].pc # "flush"
  <2>1. PICK b \in BOOLEAN : b = (error \/ open # Nobody \/ \E u \in Threads : thread[u].pc = "flush")
    OBVIOUS
  <2>. HIDE DEF ids
  <2>2. r = [pc |-> "clearQueue", batch |-> <<>>, tries |-> 0, ids |-> ids,
             file |-> f, covers |-> Queued(f), raced |-> b]
    <3>1. r = [IdleThread EXCEPT !.pc = "clearQueue", !.file = f, !.ids = ids,
                                 !.covers = Queued(f), !.raced = b]
      BY <2>1
    <3>. HIDE DEF r
    <3>. QED  BY <3>1 DEF IdleThread
  <2>. HIDE DEF r
  <2>3. r \in ThreadStates
    BY <1>3, <1>4, <2>2, NoOps DEF ThreadStates
  <2>. QED  BY <2>1, <2>2, <2>3
<1>. HIDE DEF r
<1>6. /\ thread' \in [Threads -> ThreadStates] /\ thread'[t] = r
      /\ \A u \in Threads \ {t} : thread'[u] = thread[u]
  BY <1>1, <1>2, <1>5
<1>7. OneFlush' /\ \A u \in Threads : thread'[u].batch = thread[u].batch
  BY <1>1, <1>2, <1>5, <1>6 DEF OneFlush
<1>8. Batch' = Batch
  BY <1>7, BatchSame
<1>9. \A g : QueuedIds(g)' = QueuedIds(g)
  BY <1>1 DEF QueuedIds
<1>10. ASSUME ~r.raced PROVE Covering(t)' /\ \A u \in Threads : thread'[u].pc # "flush"
  <2>1. ASSUME NEW op \in Elements(pending), op.n \in Queued(f) PROVE ~Retained(t, op)'
    <3>1. PICK i \in 1..Len(pending) :
             /\ pending[i].n = op.n /\ pending[i].file = f
             /\ pending[i].kind = "append" => pending[i].source \in ContextIds(f) \union QueuedIds(f)
      BY <2>1 DEF Queued
    <3>2. pending[i] = op
      BY <1>2, <3>1, Identified DEF Elements, Accounts
    <3>3. OwnedIds(t)' = ContextIds(f) \union QueuedIds(f)
      BY <1>5, <1>6, <1>9, <1>10 DEF OwnedIds
    <3>. QED  BY <1>5, <1>6, <3>1, <3>2, <3>3 DEF Retained
  <2>2. Covering(t)'
    BY <1>1, <1>4, <1>5, <1>6, <2>1 DEF Covering
  <2>. QED  BY <1>5, <1>6, <1>10, <2>2
<1>11. ASSUME NEW u \in Threads
       PROVE  /\ InClear(u)' => thread'[u].file \in StoreFiles
              /\ Alone(u)' => Covering(u)' /\ \A v \in Threads : thread'[v].pc # "flush"
  <2>1. CASE u = t
    BY <1>5, <1>6, <1>10, <2>1 DEF Alone
  <2>2. CASE u # t
    <3>1. thread'[u] = thread[u]
      BY <1>6, <2>2
    <3>2. \A op : Retained(u, op)' = Retained(u, op)
      BY <1>9, <3>1 DEF Retained, OwnedIds
    <3>3. InClear(u)' = InClear(u) /\ Alone(u)' = Alone(u)
      BY <3>1 DEF InClear, Alone
    <3>4. Alone(u) => Covering(u) /\ \A v \in Threads : thread[v].pc # "flush"
      BY DEF StoreInv
    <3>5. Covering(u) => Covering(u)'
      BY <1>1, <3>1, <3>2 DEF Covering
    <3>6. \A v \in Threads : thread[v].pc # "flush" => thread'[v].pc # "flush"
      BY <1>5, <1>6
    <3>7. InClear(u) => thread[u].file \in StoreFiles
      BY DEF StoreInv
    <3>. QED  BY <3>1, <3>3, <3>4, <3>5, <3>6, <3>7
  <2>. QED  BY <2>1, <2>2
<1>12. StoreTyped'
  BY <1>1, <1>6 DEF StoreInv, StoreTyped
<1>. QED  BY <1>1, <1>7, <1>8, <1>11, <1>12 DEF StoreInv, Written

\* What clear_file takes out of the queue.
Gone(t) == {op.n : op \in Cleared(t)}

LEMMA ClearQueueKeeps ==
    ASSUME StoreInv, NEW t \in Threads, ClearQueue(t)
    PROVE  StoreInv'
<1>. DEFINE r == [thread[t] EXCEPT !.pc = "clearRows"]
<1>1. /\ thread[t].pc = "clearQueue" /\ thread' = [thread EXCEPT ![t] = r]
      /\ pending' = Without(pending, Cleared(t)) /\ dropped' = dropped \union Gone(t)
      /\ table' = table /\ open' = open /\ nextOp' = nextOp /\ applied' = applied
      /\ erased' = erased /\ swallowed' = swallowed /\ Lost' = Lost
  BY DEF ClearQueue, To, Gone, Lost
<1>2. /\ pending \in Seq(Ops) /\ thread \in [Threads -> ThreadStates] /\ OneFlush
      /\ applied \in Seq(Nat) /\ Accounts(applied, Batch, pending, Lost \union dropped, nextOp)
      /\ RisingOps(pending)
  BY DEF StoreInv, StoreTyped, Accounts
<1>3. /\ pending' \in Seq(Ops) /\ RisingOps(pending')
      /\ Elements(pending') = {op \in Elements(pending) : Retained(t, op)}
  <2>1. Elements(pending') = {op \in Elements(pending) : op \notin Cleared(t)}
    BY <1>1, <1>2, WithoutFacts
  <2>2. ToSet(pending) = Elements(pending)
    BY DEF ToSet, Elements
  <2>3. \A op \in Elements(pending) : op \notin Cleared(t) <=> Retained(t, op)
    BY <2>2 DEF Cleared
  <2>4. pending' \in Seq(Ops) /\ RisingOps(pending')
    BY <1>1, <1>2, WithoutFacts
  <2>. QED  BY <2>1, <2>3, <2>4
<1>4. Gone(t) = {op.n : op \in {x \in Elements(pending) : ~Retained(t, x)}}
  <2>1. ToSet(pending) = Elements(pending)
    BY DEF ToSet, Elements
  <2>. QED  BY <2>1 DEF Gone, Cleared
<1>5. /\ Nums(pending) = {op.n : op \in Elements(pending)}
      /\ Nums(pending') = {op.n : op \in Elements(pending')}
  BY NumsOf
<1>6. Nums(pending') \union Gone(t) = Nums(pending)
  BY <1>3, <1>4, <1>5
<1>7. Nums(pending') \intersect Gone(t) = {}
  <2>1. \A x, y \in Elements(pending) : x.n = y.n => x = y
    BY <1>2, Identified
  <2>. QED  BY <1>3, <1>4, <1>5, <2>1
<1>8. Accounts(applied, Batch, pending', Lost \union dropped', nextOp) /\ Lost \intersect dropped' = {}
  <2>1. ToSet(applied) \subseteq Nat
    BY <1>2, SetOfSeq
  <2>2. Batch \in Seq(Ops)
    BY BatchTyped DEF StoreInv
  <2>3. Nums(Batch) \subseteq Nat
    BY <2>2, NumbersFacts
  <2>4. Nums(pending) \subseteq Nat
    BY <1>2, NumbersFacts
  <2>5. Accounts(applied, Batch, pending', (Lost \union dropped) \union Gone(t), nextOp)
    BY <1>1, <1>2, <1>3, <1>6, <1>7, <2>1, <2>3, <2>4, AccountsClear
  <2>6. (Lost \union dropped) \union Gone(t) = Lost \union dropped'
    BY <1>1
  <2>7. Gone(t) \intersect Lost = {}
    BY <1>2, <1>6 DEF Accounts
  <2>. QED  BY <1>1, <2>5, <2>6, <2>7 DEF StoreInv
<1>9. /\ r \in ThreadStates /\ r.pc = "clearRows" /\ r.batch = thread[t].batch
      /\ r.file = thread[t].file /\ r.covers = thread[t].covers /\ r.raced = thread[t].raced
  <2>1. thread[t] \in ThreadStates
    BY <1>2
  <2>. QED  BY <2>1 DEF ThreadStates
<1>. HIDE DEF r
<1>10. /\ thread' \in [Threads -> ThreadStates] /\ thread'[t] = r
       /\ \A u \in Threads \ {t} : thread'[u] = thread[u]
  BY <1>1, <1>2, <1>9
<1>11. OneFlush' /\ \A u \in Threads : thread'[u].batch = thread[u].batch
  BY <1>1, <1>2, <1>9, <1>10 DEF OneFlush
<1>12. Batch' = Batch
  BY <1>11, BatchSame
<1>13. \A v \in Threads : thread[v].pc # "flush" => thread'[v].pc # "flush"
  BY <1>9, <1>10
<1>14. ASSUME NEW u \in Threads, Alone(u)' PROVE Covering(u)'
  <2>1. Alone(u) /\ Covering(u)
    <3>1. Alone(u)
      BY <1>1, <1>9, <1>10, <1>14 DEF Alone, InClear
    <3>. QED  BY <3>1 DEF StoreInv
  <2>2. thread'[u].covers = thread[u].covers
    BY <1>9, <1>10
  <2>3. thread'[u].covers \subseteq Nums(pending') \union dropped'
    BY <1>1, <1>6, <2>1, <2>2 DEF Covering
  <2>4. CASE u = t
    <3>1. thread[t].covers \subseteq Gone(t) \union dropped
      BY <1>1, <1>4, <1>5, <2>1, <2>4 DEF Covering
    <3>. QED  BY <1>1, <1>9, <1>10, <2>2, <2>3, <2>4, <3>1 DEF Covering
  <2>5. CASE u # t
    <3>0. thread'[u] = thread[u]
      BY <1>10, <2>5
    <3>1. ASSUME NEW op \in Elements(pending'), op.n \in thread[u].covers, thread[u].pc = "clearQueue"
          PROVE  ~Retained(u, op)'
      <4>1. op \in Elements(pending) /\ Retained(t, op) /\ ~Retained(u, op)
        BY <1>3, <2>1, <3>1 DEF Covering
      <4>2. CASE op.kind # "append"
        BY <3>0, <4>1, <4>2 DEF Retained
      <4>3. CASE op.kind = "append"
        <5>1. op.source \in thread[u].ids \union QueuedIds(thread[u].file)
          BY <4>1, <4>3 DEF Retained, OwnedIds
        <5>2. op.source \notin QueuedIds(thread[t].file)
          BY <4>1, <4>3 DEF Retained, OwnedIds
        <5>3. CASE op.source \in thread[u].ids
          BY <3>0, <4>3, <5>3 DEF Retained, OwnedIds
        <5>4. CASE op.source \in QueuedIds(thread[u].file)
          <6>1. PICK save \in Elements(pending) : save.kind = "save" /\ save.file = thread[u].file
                                                   /\ save.source = op.source
            BY <5>4, QueuedOf
          <6>2. Retained(t, save)
            BY <5>2, <6>1, QueuedOf DEF Retained
          <6>3. op.source \in QueuedIds(thread[u].file)'
            BY <1>3, <3>0, <6>1, <6>2, QueuedOfNext
          <6>. QED  BY <3>0, <4>3, <6>3 DEF Retained, OwnedIds
        <5>. QED  BY <5>1, <5>3, <5>4
      <4>. QED  BY <4>2, <4>3
    <3>. QED  BY <1>1, <2>1, <2>2, <2>3, <3>0, <3>1 DEF Covering
  <2>. QED  BY <2>4, <2>5
<1>15. ASSUME NEW u \in Threads
       PROVE  /\ InClear(u)' => thread'[u].file \in StoreFiles
              /\ Alone(u)' => \A v \in Threads : thread'[v].pc # "flush"
  <2>1. /\ InClear(u)' => InClear(u) /\ thread'[u].file = thread[u].file
        /\ Alone(u)' => Alone(u)
    BY <1>1, <1>9, <1>10 DEF Alone, InClear
  <2>. QED  BY <1>13, <2>1 DEF StoreInv
<1>16. StoreTyped'
  BY <1>1, <1>3, <1>10 DEF StoreInv, StoreTyped
<1>. QED  BY <1>1, <1>8, <1>11, <1>12, <1>14, <1>15, <1>16 DEF StoreInv, Written

LEMMA ClearRowsKeeps ==
    ASSUME StoreInv, NEW t \in Threads, ClearRows(t)
    PROVE  StoreInv'
<1>1. /\ thread[t].pc = "clearRows" /\ thread' = [thread EXCEPT ![t] = IdleThread]
      /\ table' = table \/ table' = [table EXCEPT ![thread[t].file] = Nobody]
      /\ open' = open \/ (open # Nobody /\ open' = [open EXCEPT ![thread[t].file] = Nobody])
      /\ erased' = IF thread[t].raced THEN erased ELSE erased \union thread[t].covers
      /\ pending' = pending /\ nextOp' = nextOp /\ applied' = applied /\ dropped' = dropped
      /\ swallowed' = swallowed /\ Lost' = Lost
  BY DEF ClearRows, ClearRow, To, Lost
<1>2. thread \in [Threads -> ThreadStates] /\ OneFlush /\ table \in Tables
  BY DEF StoreInv, StoreTyped
<1>3. /\ thread' \in [Threads -> ThreadStates] /\ thread'[t] = IdleThread
      /\ \A u \in Threads \ {t} : thread'[u] = thread[u]
  BY <1>1, <1>2, IdleTyped
<1>4. IdleThread.pc = "idle" /\ IdleThread.batch = <<>>
  BY DEF IdleThread
<1>5. OneFlush' /\ \A u \in Threads : thread'[u].batch = thread[u].batch
  BY <1>1, <1>2, <1>3, <1>4 DEF OneFlush
<1>6. Batch' = Batch
  BY <1>5, BatchSame
<1>7. table' \in Tables /\ Written(table') \subseteq Written(table)
  <2>1. thread[t].file \in StoreFiles
    BY <1>1 DEF StoreInv, InClear
  <2>2. table' \in Tables /\ \A f \in StoreFiles : table'[f] = table[f] \/ table'[f] = Nobody
    BY <1>1, <1>2, <2>1 DEF Tables
  <2>. QED  BY <2>2 DEF Written
<1>8. erased' \subseteq dropped
  <2>1. erased \subseteq dropped /\ (~thread[t].raced => thread[t].covers \subseteq dropped)
    BY <1>1 DEF StoreInv, Alone, InClear, Covering
  <2>. QED  BY <1>1, <2>1
<1>9. ASSUME NEW u \in Threads
      PROVE  /\ InClear(u)' => thread'[u].file \in StoreFiles
             /\ Alone(u)' => Covering(u)' /\ \A v \in Threads : thread'[v].pc # "flush"
  <2>1. CASE u = t
    BY <1>3, <1>4, <2>1 DEF Alone, InClear
  <2>2. CASE u # t
    <3>1. thread'[u] = thread[u]
      BY <1>3, <2>2
    <3>2. \A op : Retained(u, op)' = Retained(u, op)
      BY <1>1, <3>1 DEF Retained, OwnedIds, QueuedIds
    <3>3. InClear(u)' = InClear(u) /\ Alone(u)' = Alone(u)
      BY <3>1 DEF InClear, Alone
    <3>4. Alone(u) => Covering(u) /\ \A v \in Threads : thread[v].pc # "flush"
      BY DEF StoreInv
    <3>5. Covering(u) => Covering(u)'
      BY <1>1, <3>1, <3>2 DEF Covering
    <3>6. \A v \in Threads : thread[v].pc # "flush" => thread'[v].pc # "flush"
      BY <1>3, <1>4
    <3>7. InClear(u) => thread[u].file \in StoreFiles
      BY DEF StoreInv
    <3>. QED  BY <3>1, <3>3, <3>4, <3>5, <3>6, <3>7
  <2>. QED  BY <2>1, <2>2
<1>10. StoreTyped'
  <2>1. thread[t].file \in StoreFiles
    BY <1>1 DEF StoreInv, InClear
  <2>2. open' \in Tables \union {Nobody}
    BY <1>1, <2>1 DEF StoreInv, StoreTyped, Tables
  <2>. QED  BY <1>1, <1>3, <1>7, <2>2 DEF StoreInv, StoreTyped
<1>11. Written(table)' \subseteq ToSet(applied')
  BY <1>1, <1>7 DEF StoreInv, Written
<1>. QED  BY <1>1, <1>5, <1>6, <1>8, <1>9, <1>10, <1>11 DEF StoreInv

LEMMA StoreStutters == StoreInv /\ UNCHANGED storeVars => StoreInv'
<1>. SUFFICES ASSUME StoreInv, UNCHANGED storeVars PROVE StoreInv'
  OBVIOUS
<1>1. /\ pending' = pending /\ table' = table /\ open' = open /\ thread' = thread
      /\ nextOp' = nextOp /\ applied' = applied /\ dropped' = dropped /\ erased' = erased
      /\ swallowed' = swallowed /\ Lost' = Lost
  BY DEF storeVars, Lost
<1>2. Batch' = Batch
  BY <1>1, BatchSame
<1>3. ASSUME NEW t \in Threads 
      PROVE  InClear(t)' = InClear(t) /\ Alone(t)' = Alone(t) /\ (Covering(t) => Covering(t)')
  BY <1>1 DEF InClear, Alone, Covering, Retained, OwnedIds, QueuedIds
<1>. QED  BY <1>1, <1>2, <1>3 DEF StoreInv, StoreTyped, OneFlush, Written

LEMMA StoreSteps == StoreInv /\ [StoreNext]_storeVars => StoreInv'
<1>. SUFFICES ASSUME StoreInv, [StoreNext]_storeVars PROVE StoreInv'
  OBVIOUS
<1>1. ASSUME NEW f \in StoreFiles, NEW s \in SourceHashes, QueueSave(f, s) \/ QueueAppend(f, s)
      PROVE  StoreInv'
  <2>1. s \in Sources
    BY DEF Sources
  <2>. QED  BY <1>1, <2>1, EnqueueKeeps DEF QueueSave, QueueAppend
<1>2. ASSUME NEW f \in StoreFiles, QueueClear(f) PROVE StoreInv'
  <2>1. Nobody \in Sources
    BY DEF Sources
  <2>. QED  BY <1>2, <2>1, EnqueueKeeps DEF QueueClear
<1>3. ASSUME NEW t \in Threads, FlushTake(t) \/ FlushCommit(t) \/ FlushRefused(t) \/ FlushFault(t)
      PROVE  StoreInv'
  BY <1>3, FlushTakeKeeps, FlushCommitKeeps, FlushRefusedKeeps, FlushFaultKeeps
<1>4. ASSUME NEW t \in Threads, NEW f \in StoreFiles, ClearLookup(t, f) PROVE StoreInv'
  BY <1>4, ClearLookupKeeps
<1>5. ASSUME NEW t \in Threads, ClearQueue(t) \/ ClearRows(t) PROVE StoreInv'
  BY <1>5, ClearQueueKeeps, ClearRowsKeeps
<1>. QED  BY <1>1, <1>2, <1>3, <1>4, <1>5, StoreStutters DEF StoreNext

LEMMA StoreOrdered == StoreInv => AcceptedOnceInOrder
<1>. SUFFICES ASSUME StoreInv PROVE AcceptedOnceInOrder
  OBVIOUS
<1>1. /\ pending \in Seq(Ops) /\ applied \in Seq(Nat) /\ Batch \in Seq(Ops)
      /\ Accounts(applied, Batch, pending, Lost \union dropped, nextOp)
  BY BatchTyped DEF StoreInv, StoreTyped
<1>2. InOneLine(Trail, Lost \union dropped, nextOp)
  BY <1>1, AccountsLine DEF Trail
<1>3. /\ \A i, j \in 1..Len(Trail) : i < j => Trail[i] < Trail[j]
      /\ ToSet(Trail) \union Lost \union dropped = 0..(nextOp - 1)
      /\ ToSet(Trail) \intersect (Lost \union dropped) = {}
  BY <1>2 DEF InOneLine
<1>4. Lost \intersect dropped = {} /\ \A op \in swallowed : op.kind = "clear"
  BY DEF StoreInv, StoreTyped
<1>5. \A f \in StoreFiles : table[f] # Nobody => ToSet(table[f].writes) \subseteq ToSet(applied)
  BY DEF StoreInv, Written
<1>. QED  BY <1>3, <1>4, <1>5 DEF AcceptedOnceInOrder, Lost

LEMMA StoreCleared == StoreInv => ClearedStaysCleared
<1>. SUFFICES ASSUME StoreInv PROVE ClearedStaysCleared
  OBVIOUS
<1>1. /\ pending \in Seq(Ops) /\ Accounts(applied, Batch, pending, Lost \union dropped, nextOp)
      /\ erased \subseteq dropped /\ Written(table) \subseteq ToSet(applied) /\ OneFlush
      /\ \A t \in Threads : thread[t].batch \in Seq(Ops)
  BY DEF StoreInv, StoreTyped, ThreadStates
<1>2. erased \intersect (ToSet(applied) \union Nums(Batch) \union Nums(pending)) = {}
  BY <1>1 DEF Accounts
<1>3. erased \intersect ToSet(Numbers(pending)) = {}
  BY <1>1, <1>2, NumbersFacts
<1>4. ASSUME NEW t \in Threads PROVE erased \intersect ToSet(Numbers(thread[t].batch)) = {}
  <2>1. ToSet(Numbers(thread[t].batch)) = Nums(thread[t].batch)
    BY <1>1, NumbersFacts
  <2>2. CASE t \in Flushers
    <3>1. Batch = thread[t].batch
      BY <1>1, <2>2, BatchIs, BatchNow DEF OneFlush
    <3>. QED  BY <1>2, <2>1, <3>1
  <2>3. CASE t \notin Flushers
    <3>1. thread[t].batch = <<>>
      BY <1>1, <2>3 DEF OneFlush
    <3>. QED  BY <2>1, <3>1, NoOps
  <2>. QED  BY <2>2, <2>3
<1>5. \A f \in StoreFiles : table[f] # Nobody => ToSet(table[f].writes) \subseteq Written(table)
  BY DEF Written
<1>. QED  BY <1>1, <1>2, <1>3, <1>4, <1>5 DEF ClearedStaysCleared

\* Every write a caller was told is accepted has taken effect, is in the batch
\* being flushed, is queued, was taken out by clear_file or is a clear whose
\* statement failed, exactly one of these, and writes take effect in the order
\* of their acceptance, for every number of writers, failures and retries, with
\* a transaction left open or not (flush).
THEOREM StoreAccepts == StoreSpec => []AcceptedOnceInOrder
  BY StoreInitially, StoreSteps, StoreOrdered, PTL DEF StoreSpec

\* What the queue held of a file when an undisturbed clear_file looked is never
\* committed, queued or in a batch again, for every number of concurrent calls
\* and whatever fails after the look (clear_file).
THEOREM StoreClears == StoreSpec => []ClearedStaysCleared
  BY StoreInitially, StoreSteps, StoreCleared, PTL DEF StoreSpec
=============================================================================
