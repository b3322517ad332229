-------------------------- MODULE AuthorityProofs --------------------------
(***************************************************************************)
(* Proofs about Authority for every set of workers and contents, every     *)
(* kind of session and every bound.                                        *)
(*                                                                         *)
(* Three invariants build on each other.  IInv, for all sessions: types,   *)
(* which handler is at which step, who holds the publication clock, and    *)
(* that a ticket inside it is newer than every committed one.  DInv, for   *)
(* sessions of delta_code_context, apply_delta and refresh: nothing        *)
(* pending or captured is newer than the live context.  RowsInv, for such  *)
(* sessions with auto_save: the durable rows load as the live context.     *)
(*                                                                         *)
(* The replay of a chain is a recursion over its length; what is said of   *)
(* it for every length is proved by induction over sets of naturals.       *)
(***************************************************************************)
EXTENDS Authority, SequenceTheorems, WellFoundedInduction, TLAPS

\* Every nonempty set of naturals has a least element.
LEMMA LeastNatural ==
    ASSUME NEW T, T \subseteq Nat, T # {}
    PROVE  \E x \in T : \A y \in T : x <= y
<1>1. \E x \in T : \A y \in T : ~ (<<y, x>> \in OpToRel(<, Nat))
  BY NatLessThanWellFounded, WFMin
<1>2. PICK x \in T : \A y \in T : ~ (<<y, x>> \in OpToRel(<, Nat))
  BY <1>1
<1>3. ASSUME NEW y \in T PROVE x <= y
  <2>1. ~ (<<y, x>> \in {ss \in Nat \X Nat : ss[1] < ss[2]})
    BY <1>2 DEF OpToRel
  <2>2. y \in Nat /\ x \in Nat
    OBVIOUS
  <2> QED BY <2>1, <2>2
<1> QED BY <1>3

\* Induction over the naturals, for the set of the numbers that satisfy a claim.
LEMMA Induction ==
    ASSUME NEW S, 0 \in S, \A n \in S \intersect Nat : n + 1 \in S
    PROVE  Nat \subseteq S
<1> SUFFICES ASSUME Nat \ S # {} PROVE FALSE
  OBVIOUS
<1>1. PICK x \in Nat \ S : \A y \in Nat \ S : x <= y
  BY LeastNatural
<1>2. x # 0 /\ x - 1 \in Nat
  BY <1>1
<1>3. x - 1 \in S
  BY <1>1, <1>2
<1>4. (x - 1) + 1 \in S
  BY <1>2, <1>3
<1>5. (x - 1) + 1 = x
  BY <1>2
<1> QED BY <1>1, <1>4, <1>5

\* One delta of a chain applied to every outcome of the ones before it.
Extended(S, t) == UNION {IF c = None THEN {None} ELSE ApplySequence(c, t) : c \in S}

BaselineOutcome(d) == {[ver |-> d.ver, ir |-> d.ir, src |-> d.hash]}

\* f holds the outcomes of the first 0, 1, ..., n deltas of d's chain.
Outcomes(d, n, f) ==
    f = [k \in 0..n |-> IF k = 0 THEN BaselineOutcome(d) ELSE Extended(f[k - 1], d.chain[k])]

\* What load_context_with_deltas computes is the last of those outcomes.
LEMMA ReplayedIsOutcome ==
    ASSUME NEW d, NEW n
    PROVE  Replayed(d, n) = (CHOOSE f : Outcomes(d, n, f))[n]
BY DEF Replayed, Outcomes, Extended, BaselineOutcome

\* The replay of a chain is defined at every length.
LEMMA OutcomesExist ==
    ASSUME NEW d
    PROVE  \A n \in Nat : \E f : Outcomes(d, n, f)
<1> DEFINE S == {n \in Nat : \E f : Outcomes(d, n, f)}
<1>1. 0 \in S
  <2>1. Outcomes(d, 0, [k \in 0..0 |-> BaselineOutcome(d)])
    BY DEF Outcomes
  <2> QED BY <2>1
<1>2. ASSUME NEW n \in Nat, n \in S PROVE n + 1 \in S
  <2>1. PICK f : Outcomes(d, n, f)
    BY <1>2
  <2> DEFINE g == [k \in 0..(n + 1) |-> IF k <= n THEN f[k] ELSE Extended(f[n], d.chain[n + 1])]
  <2>2. ASSUME NEW k \in 0..(n + 1)
        PROVE  g[k] = IF k = 0 THEN BaselineOutcome(d) ELSE Extended(g[k - 1], d.chain[k])
    <3>1. CASE k = 0
      BY <2>1, <3>1 DEF Outcomes
    <3>2. CASE k \in 1..n
      <4>1. g[k] = f[k] /\ g[k - 1] = f[k - 1] /\ k \in 0..n /\ k # 0
        BY <3>2
      <4> QED BY <2>1, <4>1 DEF Outcomes
    <3>3. CASE k = n + 1
      <4>1. g[k] = Extended(f[n], d.chain[n + 1]) /\ k - 1 = n /\ g[n] = f[n]
        BY <3>3
      <4> QED BY <3>3, <4>1
    <3> QED BY <3>1, <3>2, <3>3
  <2>3. Outcomes(d, n + 1, g)
    BY <2>2 DEF Outcomes
  <2> QED BY <2>3
<1>3. Nat \subseteq S
  BY <1>1, <1>2, Induction
<1> QED BY <1>3

\* No delta tells the two sets of outcomes apart: apply_sequence reads the
\* version and the instructions of a context, not its source hash.
Alike(S, T) == \A t : Extended(S, t) = Extended(T, t)

\* Two chains that start alike and hold the same first deltas stay alike.
LEMMA OutcomesAgree ==
    ASSUME NEW d, NEW e, NEW n \in Nat, NEW m \in Nat, NEW f, NEW g, n <= m,
           Outcomes(d, n, f), Outcomes(e, m, g), Alike(BaselineOutcome(d), BaselineOutcome(e)),
           \A k \in 1..n : d.chain[k] = e.chain[k]
    PROVE  \A k \in 0..n : Alike(f[k], g[k])
<1> DEFINE S == {k \in Nat : k <= n => Alike(f[k], g[k])}
<1>1. 0 \in S
  <2>1. f[0] = BaselineOutcome(d)
    BY DEF Outcomes
  <2>2. g[0] = BaselineOutcome(e)
    BY DEF Outcomes
  <2> QED BY <2>1, <2>2
<1>2. ASSUME NEW k \in Nat, k \in S PROVE k + 1 \in S
  <2> SUFFICES ASSUME k + 1 <= n PROVE f[k + 1] = g[k + 1]
    BY DEF Alike
  <2>1. Alike(f[k], g[k]) /\ k + 1 \in 1..n /\ (k + 1) - 1 = k
        /\ k + 1 # 0 /\ k + 1 \in 0..n /\ k + 1 \in 0..m
    BY <1>2
  <2>2. f[k + 1] = Extended(f[k], d.chain[k + 1])
    BY <2>1 DEF Outcomes
  <2>3. g[k + 1] = Extended(g[k], e.chain[k + 1])
    BY <2>1 DEF Outcomes
  <2> QED BY <2>1, <2>2, <2>3 DEF Alike
<1>3. Nat \subseteq S
  BY <1>1, <1>2, Induction
<1> QED BY <1>3

\* Without deltas, the rows are their baseline.
LEMMA ReplayedZero == ASSUME NEW d PROVE Replayed(d, 0) = BaselineOutcome(d)
<1>1. Outcomes(d, 0, CHOOSE f : Outcomes(d, 0, f))
  BY OutcomesExist
<1> QED BY <1>1, ReplayedIsOutcome DEF Outcomes

\* Replaying one delta more is applying it to what the others led to, also
\* when the append that added it moved the hash of the row.
LEMMA ReplayedNext ==
    ASSUME NEW d, NEW e, NEW n \in Nat, Alike(BaselineOutcome(e), BaselineOutcome(d)),
           \A k \in 1..n : e.chain[k] = d.chain[k]
    PROVE  Replayed(d, n + 1) = Extended(Replayed(e, n), d.chain[n + 1])
<1> DEFINE f == CHOOSE f : Outcomes(e, n, f)
           g == CHOOSE g : Outcomes(d, n + 1, g)
<1>1. Outcomes(e, n, f) /\ Outcomes(d, n + 1, g)
  <2>1. \E h : Outcomes(e, n, h)
    BY OutcomesExist
  <2>2. \E h : Outcomes(d, n + 1, h)
    BY OutcomesExist
  <2> QED BY <2>1, <2>2
<1> HIDE DEF f, g
<1>2. Alike(f[n], g[n])
  <2>1. n + 1 \in Nat /\ n <= n + 1 /\ n \in 0..n
    OBVIOUS
  <2> QED BY <1>1, <2>1, OutcomesAgree
<1>3. g[n + 1] = Extended(g[n], d.chain[n + 1])
  BY <1>1 DEF Outcomes
<1>4. Replayed(d, n + 1) = g[n + 1] /\ Replayed(e, n) = f[n]
  BY ReplayedIsOutcome DEF f, g
<1> QED BY <1>2, <1>3, <1>4 DEF Alike

-----------------------------------------------------------------------------
(* Types of the durable rows *)

\* The source of every version that has a semantic snapshot.
Snapshots == UNION {[D -> Contents] : D \in SUBSET Nat}

Rows == [id: Contents, ver: Nat, ir: Irs, chain: Seq(Transitions), hash: Contents,
         snaps: Snapshots]

\* A missing row is mistaken for none that was written.
LEMMA NoRowIsNoRow == NoRow \notin Rows
BY AuthorityAssumption DEF NoRow, Rows

\* A snapshot names a source.
LEMMA SnapshotType ==
    ASSUME NEW d \in Rows, NEW v \in DOMAIN d.snaps
    PROVE  d.snaps[v] \in Contents
<1>1. PICK D \in SUBSET Nat : d.snaps \in [D -> Contents]
  BY DEF Rows, Snapshots
<1> QED BY <1>1

\* apply_sequence yields a context, or refuses.
LEMMA ApplySequenceType ==
    ASSUME NEW c \in Contexts, NEW t \in Transitions
    PROVE  ApplySequence(c, t) \subseteq Contexts \union {None}
<1>1. t.to \in Nat /\ t.target \in Contents /\ Ir[t.target] \in Irs /\ Mixed \in Irs
  BY DEF Transitions, Irs
<1>2. [ver |-> t.to, ir |-> Ir[t.target], src |-> t.target] \in Contexts
  BY <1>1 DEF Contexts
<1>3. [ver |-> t.to, ir |-> Mixed, src |-> t.target] \in Contexts
  BY <1>1 DEF Contexts
<1> QED BY <1>2, <1>3 DEF ApplySequence

\* The rows replay to contexts, at every length of the chain.
LEMMA ReplayedType ==
    ASSUME NEW d \in Rows
    PROVE  \A n \in 0..Len(d.chain) : Replayed(d, n) \subseteq Contexts \union {None}
<1> DEFINE S == {n \in Nat : n <= Len(d.chain) => Replayed(d, n) \subseteq Contexts \union {None}}
<1>1. 0 \in S
  <2>1. [ver |-> d.ver, ir |-> d.ir, src |-> d.hash] \in Contexts
    BY DEF Rows, Contexts
  <2> QED BY <2>1, ReplayedZero DEF BaselineOutcome
<1>2. ASSUME NEW n \in S \intersect Nat PROVE n + 1 \in S
  <2> SUFFICES ASSUME n + 1 <= Len(d.chain)
               PROVE  Replayed(d, n + 1) \subseteq Contexts \union {None}
    OBVIOUS
  <2>1. Len(d.chain) \in Nat
    BY DEF Rows
  <2>2. d.chain[n + 1] \in Transitions
    BY <2>1 DEF Rows
  <2>3. Replayed(d, n) \subseteq Contexts \union {None}
    BY <1>2, <2>1
  <2>4. Replayed(d, n + 1) = Extended(Replayed(d, n), d.chain[n + 1])
    BY ReplayedNext DEF Alike
  <2>5. \A c \in Contexts : ApplySequence(c, d.chain[n + 1]) \subseteq Contexts \union {None}
    BY <2>2, ApplySequenceType
  <2> QED BY <2>3, <2>4, <2>5 DEF Extended
<1>3. Nat \subseteq S
  <2> HIDE DEF S
  <2> QED BY <1>1, <1>2, Induction
<1>4. Len(d.chain) \in Nat
  BY DEF Rows
<1> QED BY <1>3, <1>4

\* load_durable_context answers a context, or nothing.
LEMMA LoadAtType ==
    ASSUME NEW d \in Rows, NEW n \in 0..Len(d.chain), NEW latest,
           NEW c \in LoadAt(d, n, latest)
    PROVE  c \in Contexts \union {None}
<1>1. PICK b \in Replayed(d, n) :
          c = IF b = None THEN None
              ELSE IF b.ver \notin DOMAIN d.snaps THEN None
              ELSE IF latest /\ d.snaps[b.ver] # d.hash THEN None
              ELSE [b EXCEPT !.src = d.snaps[b.ver]]
  BY DEF LoadAt
<1>2. b \in Contexts \union {None}
  BY ReplayedType
<1>3. b.ver \in DOMAIN d.snaps => d.snaps[b.ver] \in Contents
  BY SnapshotType
<1> QED BY <1>1, <1>2, <1>3 DEF Contexts

-----------------------------------------------------------------------------
(* The inductive invariant *)

FileType == mix \in Mixes /\ disk \in Contents /\ (durable = NoRow \/ durable \in Rows)

OwnerType ==
    /\ live \in Contexts \union {None}
    /\ alias \in BOOLEAN /\ maps \in BOOLEAN
    /\ pending \subseteq Transitions /\ retired \subseteq Nat

CounterType ==
    /\ nextGen \in Nat /\ committed \in 0..nextGen
    /\ calls \in Nat /\ adversity \in Nat
    /\ accepted \in Contexts \union {None}

LocalsType ==
    /\ pc \in [Workers -> Steps] /\ op \in [Workers -> AllHandlers]
    /\ gen \in [Workers -> Nat]
    /\ prev \in [Workers -> Contexts \union {None}]
    /\ cand \in [Workers -> Contexts \union {NoContext}]
    /\ held \in [Workers -> SUBSET Transitions]
    /\ ctx \in [Workers -> Contents \union {None}]

\* A worker inside a handler runs a handler of the session, at one of its steps.
ControlInv ==
    \A w \in Workers : pc[w] # "idle" =>
        /\ op[w] \in mix.handlers
        /\ pc[w] \in {"capture", "compile", "commit", "persist", "publish"}
              => op[w] \in {"provide", "compress", "delta"}
        /\ pc[w] \in {"ensure", "ensurePersist"} => op[w] \in {"delta", "apply"}
        /\ pc[w] = "remember" => op[w] = "delta"
        /\ pc[w] \in {"lookup", "applyBase", "contextId", "apply"} => op[w] = "apply"
        /\ pc[w] \in {"snapshot", "savePersist"} => op[w] = "save"
        /\ pc[w] \in {"load", "adopt"} => op[w] \in {"restore", "replay"}
        /\ pc[w] = "validate" => op[w] = "restore"
        /\ pc[w] \in {"deleteRows", "deleteLive", "deleteMaps", "deleteAlias"} => op[w] = "delete"
        /\ pc[w] = "purge" => op[w] = "purge"
        /\ pc[w] \in {"list", "retire"} => op[w] = "refresh"

\* What a handler reads from its locals, it has written.
LocalsInv ==
    \A w \in Workers :
        /\ pc[w] \in {"commit", "persist", "publish", "remember", "savePersist", "validate",
                      "adopt"} \/ Locked(w) => cand[w] \in Contexts
        /\ pc[w] \in {"ensure", "ensurePersist", "remember"} => prev[w] \in Contexts
        /\ pc[w] \in {"applyBase", "contextId", "apply"}
              \/ (op[w] = "apply" /\ pc[w] \in {"ensure", "ensurePersist"}) => held[w] # {}

\* The step is one of those the publication clock protects.
Holds(w) == pc[w] \in ClockSteps \/ Locked(w)

ClockInv ==
    /\ clock \in Workers \union {None}
    /\ \A w \in Workers : clock = w <=> Holds(w)

\* Tickets are handed out in order, and the ticket inside the clock is newer
\* than every committed one.
TicketInv ==
    \A w \in Workers :
        /\ gen[w] <= nextGen
        /\ Holds(w) /\ op[w] # "compress" => gen[w] > committed

\* delta_code_context still holds the authority it captured.
CaptureInv == \A w \in Workers : Locked(w) => live = prev[w]

IInv ==
    /\ FileType /\ OwnerType /\ CounterType /\ LocalsType /\ ClockInv
    /\ ControlInv /\ LocalsInv /\ TicketInv /\ CaptureInv

\* A compilation is a context.
LEMMA CompiledType ==
    ASSUME NEW ver \in Nat, NEW c \in Contents
    PROVE  Compiled(ver, c) \in Contexts
BY DEF Compiled, Contexts, Irs

\* A persisted baseline is a well-formed row.
LEMMA BaselineType ==
    ASSUME NEW c \in Contexts
    PROVE  Baseline(c) \in Rows
<1>1. c.src \in Contents /\ c.ver \in Nat /\ c.ir \in Irs
  BY DEF Contexts
<1>2. [v \in {c.ver} |-> c.src] \in [{c.ver} -> Contents] /\ {c.ver} \in SUBSET Nat
  BY <1>1
<1>3. [v \in {c.ver} |-> c.src] \in Snapshots
  BY <1>2 DEF Snapshots
<1>4. <<>> \in Seq(Transitions)
  OBVIOUS
<1> QED BY <1>1, <1>3, <1>4 DEF Baseline, Rows

\* append_delta_with_semantics keeps the row well-formed.
LEMMA AppendedType ==
    ASSUME NEW d \in Rows, NEW t \in Transitions
    PROVE  Appended(d, t) \in Rows
<1> DEFINE snaps == [v \in DOMAIN d.snaps \union {t.to} |->
                       IF v = t.to THEN t.target ELSE d.snaps[v]]
<1>1. Append(d.chain, t) \in Seq(Transitions) /\ t.target \in Contents /\ t.to \in Nat
  BY DEF Rows, Transitions
<1>2. PICK D \in SUBSET Nat : d.snaps \in [D -> Contents]
  BY DEF Rows, Snapshots
<1>3. snaps \in [D \union {t.to} -> Contents] /\ D \union {t.to} \in SUBSET Nat
  BY <1>1, <1>2
<1>4. snaps \in Snapshots
  BY <1>3 DEF Snapshots
<1> HIDE DEF snaps
<1>5. [d EXCEPT !.chain = Append(d.chain, t), !.hash = t.target, !.snaps = snaps] \in Rows
  BY <1>1, <1>4 DEF Rows
<1>6. Appended(d, t) = [d EXCEPT !.chain = Append(d.chain, t), !.hash = t.target, !.snaps = snaps]
  BY DEF Appended, snaps, Rows
<1> QED BY <1>5, <1>6

\* purge_old_deltas keeps the row well-formed.
LEMMA PurgedType ==
    ASSUME NEW d \in Rows, NEW n \in 0..Len(d.chain)
    PROVE  [d EXCEPT !.chain = SubSeq(@, n + 1, Len(@))] \in Rows
<1>1. SubSeq(d.chain, n + 1, Len(d.chain)) \in Seq(Transitions)
  <2>1. d.chain \in Seq(Transitions) /\ Len(d.chain) \in Nat
    BY DEF Rows
  <2> QED BY <2>1, SubSeqProperties
<1> QED BY <1>1 DEF Rows

\* apply_delta still has the transition it looked up when it applies it.
LEMMA TransitionType ==
    ASSUME IInv, NEW w \in Workers, pc[w] = "apply"
    PROVE  Transition(w) \in held[w] /\ Transition(w) \in Transitions
  BY DEF Transition, IInv, LocalsInv, LocalsType

USE AuthorityAssumption
USE DEF Goto, Return, ClockFree, file, owner, ticket, budget, locals
USE DEF IInv, FileType, OwnerType, CounterType, LocalsType, ClockInv, ControlInv, LocalsInv,
        TicketInv, CaptureInv, Holds, Locked, Steps, ClockSteps

\* The parameter gates, and the ticket of a handler that draws one.
LEMMA BeginInv ==
    ASSUME IInv, NEW w \in Workers, NEW o \in mix.handlers, Begin(w, o)
    PROVE  IInv'
<1>1. o \in AllHandlers
  OBVIOUS
<1>2. nextGen' \in Nat /\ nextGen' >= nextGen /\ gen'[w] <= nextGen' /\ gen' \in [Workers -> Nat]
      /\ \A v \in Workers \ {w} : gen'[v] = gen[v]
  BY DEF Begin
<1>3. FirstStep(o) \in Steps
  BY <1>1 DEF FirstStep, AllHandlers
<1>4. ControlInv'
  BY <1>1 DEF Begin, FirstStep, AllHandlers
<1>5. LocalsInv' /\ ClockInv'
  BY <1>1 DEF Begin, FirstStep, AllHandlers
<1>6. TicketInv' /\ CaptureInv'
  BY <1>1, <1>2, <1>5 DEF Begin, FirstStep, AllHandlers
<1>7. pc' \in [Workers -> Steps] /\ op' \in [Workers -> AllHandlers]
  BY <1>1, <1>3 DEF Begin
<1>8. LocalsType'
  BY <1>2, <1>7 DEF Begin
<1>9. CounterType'
  BY <1>2 DEF Begin
<1> QED BY <1>4, <1>5, <1>6, <1>8, <1>9 DEF Begin

\* provide_code_context, compress_code_context and delta_code_context up to
\* their commit.
LEMMA CompileInv ==
    ASSUME IInv, NEW w \in Workers
    PROVE  /\ AnswerCached(w) => IInv'
           /\ Capture(w) => IInv'
           /\ Compile(w) => IInv'
           /\ CommitRefused(w) => IInv'
           /\ EnterCommit(w) => IInv'
           /\ AuthorityMoved(w) => IInv'
<1>1. ASSUME AnswerCached(w) PROVE IInv'
  BY <1>1 DEF AnswerCached
<1>2. ASSUME Capture(w) PROVE IInv'
  BY <1>2 DEF Capture, Visible
<1>3. ASSUME Compile(w) PROVE IInv'
  <2>1. cand'[w] \in Contexts /\ cand' \in [Workers -> Contexts \union {NoContext}]
        /\ \A v \in Workers \ {w} : cand'[v] = cand[v]
    <3>1. prev[w] # None => prev[w].ver + 1 \in Nat
      BY DEF Contexts
    <3>2. Compiled(IF prev[w] = None THEN 1 ELSE prev[w].ver + 1, disk) \in Contexts
      BY <3>1, CompiledType
    <3> QED BY <1>3, <3>2 DEF Compile
  <2>2. OwnerType'
    BY <1>3 DEF Compile
  <2> QED BY <1>3, <2>1, <2>2 DEF Compile
<1>4. ASSUME CommitRefused(w) PROVE IInv'
  BY <1>4 DEF CommitRefused
<1>5. ASSUME EnterCommit(w) PROVE IInv'
  BY <1>5 DEF EnterCommit, Superseded, Visible
<1>6. ASSUME AuthorityMoved(w) PROVE IInv'
  <2>1. gen[w] > committed /\ gen[w] <= nextGen /\ committed' = gen[w] /\ clock = None
    BY <1>6 DEF AuthorityMoved, Superseded
  <2>2. CounterType'
    BY <1>6, <2>1 DEF AuthorityMoved
  <2>3. TicketInv'
    BY <1>6, <2>1 DEF AuthorityMoved
  <2> QED BY <1>6, <2>2, <2>3 DEF AuthorityMoved
<1> QED BY <1>1, <1>2, <1>3, <1>4, <1>5, <1>6

\* The steps of a commit, and of the baseline check that apply_delta shares.
LEMMA CommitInv ==
    ASSUME IInv, NEW w \in Workers
    PROVE  /\ PersistBaseline(w) => IInv'
           /\ Publish(w) => IInv'
           /\ EnsureMissing(w) => IInv'
           /\ EnsureMatches(w) => IInv'
           /\ EnsureRefuses(w) => IInv'
           /\ EnsurePersist(w) => IInv'
           /\ Remember(w) => IInv'
<1>1. ASSUME PersistBaseline(w) PROVE IInv'
  BY <1>1, BaselineType DEF PersistBaseline
<1>2. ASSUME Publish(w) PROVE IInv'
  BY <1>2 DEF Publish
<1>3. ASSUME EnsureMissing(w) PROVE IInv'
  BY <1>3 DEF EnsureMissing
<1>4. ASSUME EnsureMatches(w) PROVE IInv'
  BY <1>4 DEF EnsureMatches
<1>5. ASSUME EnsureRefuses(w) PROVE IInv'
  BY <1>5 DEF EnsureRefuses
<1>6. ASSUME EnsurePersist(w) PROVE IInv'
  BY <1>6, BaselineType DEF EnsurePersist
<1>7. ASSUME Remember(w) PROVE IInv'
  <2>1. live \in Contexts /\ cand[w] \in Contexts /\ prev[w] \in Contexts /\ gen[w] \in Nat
    BY <1>7 DEF Remember
  <2>2. [live EXCEPT !.src = cand[w].src] \in Contexts
    BY <2>1 DEF Contexts
  <2>3. [from |-> prev[w].ver, to |-> cand[w].ver, base |-> prev[w].ir, target |-> cand[w].src,
         inst |-> gen[w]] \in Transitions
    BY <2>1 DEF Contexts, Transitions
  <2>4. live' \in Contexts /\ pending' \subseteq Transitions
    <3>1. CASE cand[w].ir = prev[w].ir
      BY <1>7, <2>1, <2>2, <3>1 DEF Remember
    <3>2. CASE cand[w].ir # prev[w].ir
      BY <1>7, <2>1, <2>3, <3>2 DEF Remember
    <3> QED BY <3>1, <3>2
  <2> QED BY <1>7, <2>4 DEF Remember
<1> QED BY <1>1, <1>2, <1>3, <1>4, <1>5, <1>6, <1>7

\* apply_delta.
LEMMA ApplyDeltaInv ==
    ASSUME IInv, NEW w \in Workers
    PROVE  /\ Lookup(w) => IInv'
           /\ LookupFails(w) => IInv'
           /\ ApplyBase(w) => IInv'
           /\ ContextId(w) => IInv'
           /\ Apply(w) => IInv'
           /\ ApplyFails(w) => IInv'
<1>1. ASSUME Lookup(w) PROVE IInv'
  <2>1. PICK t \in pending : held' = [held EXCEPT ![w] = {t}]
    BY <1>1 DEF Lookup
  <2>2. held' \in [Workers -> SUBSET Transitions] /\ held'[w] # {}
    BY <2>1
  <2>3. LocalsType'
    BY <1>1, <2>2 DEF Lookup
  <2>4. LocalsInv'
    BY <1>1, <2>1, <2>2 DEF Lookup
  <2> QED BY <1>1, <2>3, <2>4 DEF Lookup
<1>2. ASSUME LookupFails(w) PROVE IInv'
  BY <1>2 DEF LookupFails
<1>3. ASSUME ApplyBase(w) PROVE IInv'
  <2>1. CASE live = None
    BY <1>3, <2>1 DEF ApplyBase
  <2>2. CASE live # None
    BY <1>3, <2>2 DEF ApplyBase
  <2> QED BY <2>1, <2>2
<1>4. ASSUME ContextId(w) PROVE IInv'
  <2>1. durable # NoRow => durable.id \in Contents
    BY DEF Rows
  <2>2. CASE durable = NoRow
    BY <1>4, <2>2 DEF ContextId
  <2>3. CASE durable # NoRow
    <3>1. ctx' \in [Workers -> Contents \union {None}]
      BY <1>4, <2>1, <2>3 DEF ContextId
    <3> QED BY <1>4, <2>3, <3>1 DEF ContextId
  <2> QED BY <2>2, <2>3
<1>5. ASSUME Apply(w) PROVE IInv'
  BY <1>5, TransitionType, AppendedType, ApplySequenceType DEF Apply
<1>6. ASSUME ApplyFails(w) PROVE IInv'
  BY <1>6 DEF ApplyFails
<1> QED BY <1>1, <1>2, <1>3, <1>4, <1>5, <1>6

\* save_context, restore_context and replay_history.
LEMMA SaveRestoreInv ==
    ASSUME IInv, NEW w \in Workers
    PROVE  /\ Snapshot(w) => IInv'
           /\ SavePersist(w) => IInv'
           /\ Load(w) => IInv'
           /\ Validate(w) => IInv'
           /\ Adopt(w) => IInv'
<1>1. ASSUME Snapshot(w) PROVE IInv'
  BY <1>1 DEF Snapshot
<1>2. ASSUME SavePersist(w) PROVE IInv'
  BY <1>2, BaselineType DEF SavePersist
<1>3. ASSUME Load(w) PROVE IInv'
  <2>1. CASE Return(w)
    BY <1>3, <2>1 DEF Load
  <2>2. CASE ~Return(w)
    <3>1. PICK c \in Contexts :
             /\ pc' = [pc EXCEPT ![w] = IF op[w] = "restore" THEN "validate" ELSE "adopt"]
             /\ cand' = [cand EXCEPT ![w] = c]
             /\ UNCHANGED <<clock, op, gen, prev, held, ctx>>
      <4>1. PICK n \in 0 .. (IF durable = NoRow THEN 0 ELSE Len(durable.chain)) :
               \E c \in IF durable = NoRow THEN {None} ELSE LoadAt(durable, n, op[w] = "restore") :
                  /\ c # None
                  /\ pc' = [pc EXCEPT ![w] = IF op[w] = "restore" THEN "validate" ELSE "adopt"]
                  /\ cand' = [cand EXCEPT ![w] = c]
                  /\ UNCHANGED <<clock, op, gen, prev, held, ctx>>
        BY <1>3, <2>2 DEF Load
      <4>2. durable # NoRow => \A c \in LoadAt(durable, n, op[w] = "restore") :
                                 c \in Contexts \union {None}
        BY <4>1, LoadAtType
      <4> QED BY <4>1, <4>2
    <3> QED BY <1>3, <3>1 DEF Load
  <2> QED BY <2>1, <2>2
<1>4. ASSUME Validate(w) PROVE IInv'
  <2>1. OwnerType'
    BY <1>4 DEF Validate
  <2>2. CASE Return(w)
    BY <1>4, <2>1, <2>2 DEF Validate
  <2>3. CASE ~Return(w)
    BY <1>4, <2>1, <2>3 DEF Validate
  <2> QED BY <2>2, <2>3
<1>5. ASSUME Adopt(w) PROVE IInv'
  <2>1. CASE gen[w] > committed
    <3>1. live' \in Contexts /\ maps' = TRUE /\ alias' = TRUE
      BY <1>5, <2>1 DEF Adopt
    <3>2. OwnerType'
      BY <1>5, <3>1 DEF Adopt
    <3> QED BY <1>5, <2>1, <3>2 DEF Adopt
  <2>2. CASE ~(gen[w] > committed)
    <3>0. UNCHANGED <<live, maps, pending, retired>> /\ alias' = TRUE
      BY <1>5, <2>2 DEF Adopt
    <3>1. OwnerType'
      BY <3>0
    <3> QED BY <1>5, <2>2, <3>1 DEF Adopt
  <2> QED BY <2>1, <2>2
<1> QED BY <1>1, <1>2, <1>3, <1>4, <1>5

\* delete_context, purge_old_deltas and the refresh.
LEMMA ForgetInv ==
    ASSUME IInv, NEW w \in Workers
    PROVE  /\ DeleteRows(w) => IInv'
           /\ DeleteLive(w) => IInv'
           /\ DeleteMaps(w) => IInv'
           /\ DeleteAlias(w) => IInv'
           /\ Purge(w) => IInv'
           /\ ListPending(w) => IInv'
           /\ Retire(w) => IInv'
           /\ RefreshDone(w) => IInv'
<1>1. ASSUME DeleteRows(w) PROVE IInv'
  BY <1>1 DEF DeleteRows
<1>2. ASSUME DeleteLive(w) PROVE IInv'
  BY <1>2 DEF DeleteLive
<1>3. ASSUME DeleteMaps(w) PROVE IInv'
  <2>1. OwnerType'
    BY <1>3 DEF DeleteMaps
  <2> QED BY <1>3, <2>1 DEF DeleteMaps
<1>4. ASSUME DeleteAlias(w) PROVE IInv'
  <2>1. OwnerType'
    BY <1>4 DEF DeleteAlias
  <2> QED BY <1>4, <2>1 DEF DeleteAlias
<1>5. ASSUME Purge(w) PROVE IInv'
  <2>1. FileType'
    <3>1. CASE durable = NoRow
      BY <1>5, <3>1 DEF Purge
    <3>2. CASE durable # NoRow
      <4>1. PICK n \in 0..Len(durable.chain) :
                durable' = [durable EXCEPT !.chain = SubSeq(@, n + 1, Len(@))]
        BY <1>5, <3>2 DEF Purge
      <4>2. durable' \in Rows
        BY <3>2, <4>1, PurgedType
      <4> QED BY <1>5, <4>2 DEF Purge
    <3> QED BY <3>1, <3>2
  <2>2. Return(w) /\ UNCHANGED <<mix, disk, owner, ticket, budget, accepted>> /\ pc[w] = "purge"
    BY <1>5 DEF Purge
  <2> QED BY <2>1, <2>2
<1>6. ASSUME ListPending(w) PROVE IInv'
  BY <1>6 DEF ListPending
<1>7. ASSUME Retire(w) PROVE IInv'
  <2>1. \A t \in held[w] : t.inst \in Nat
    BY DEF Transitions
  <2>2. PICK t \in held[w] : /\ retired' = retired \union {t.inst}
                              /\ pending' \subseteq pending
                              /\ held' = [held EXCEPT ![w] = @ \ {t}]
    BY <1>7 DEF Retire
  <2>3. retired' \subseteq Nat /\ pending' \subseteq Transitions
    <3>1. retired \subseteq Nat /\ pending \subseteq Transitions
      OBVIOUS
    <3> HIDE DEF IInv
    <3>2. t.inst \in Nat
      BY <2>1, <2>2
    <3> QED BY <2>2, <3>1, <3>2
  <2>4. UNCHANGED <<live, alias, maps>>
    BY <1>7 DEF Retire
  <2>5. OwnerType'
    BY <2>3, <2>4
  <2> QED BY <1>7, <2>2, <2>5 DEF Retire
<1>8. ASSUME RefreshDone(w) PROVE IInv'
  BY <1>8 DEF RefreshDone
<1> QED BY <1>1, <1>2, <1>3, <1>4, <1>5, <1>6, <1>7, <1>8

\* A failed transaction, an outside write and a crash.
LEMMA AdversityInv ==
    ASSUME IInv
    PROVE  /\ \A w \in Workers : StoreFails(w) => IInv'
           /\ OutsideWrite => IInv'
           /\ Crash => IInv'
<1>1. ASSUME NEW w \in Workers, StoreFails(w) PROVE IInv'
  BY <1>1 DEF StoreFails, TransactionFails
<1>2. ASSUME OutsideWrite PROVE IInv'
  BY <1>2 DEF OutsideWrite
<1>3. ASSUME Crash PROVE IInv'
  <2>1. OwnerType'
    BY <1>3 DEF Crash
  <2> QED BY <1>3, <2>1 DEF Crash
<1> QED BY <1>1, <1>2, <1>3

\* A cold process.
LEMMA InitInv == Init => IInv
<1> SUFFICES ASSUME Init PROVE IInv
  OBVIOUS
<1>1. FileType
  BY CompiledType, BaselineType DEF Init
<1>2. OwnerType
  BY DEF Init
<1> QED BY <1>1, <1>2 DEF Init, AllHandlers

\* Every step of every handler, and every adversity.
LEMMA NextInv == ASSUME IInv, [Next]_vars PROVE IInv'
<1>0. CASE UNCHANGED vars
  BY <1>0 DEF vars
<1> HIDE DEF IInv
<1>1. ASSUME NEW w \in Workers, Step(w) PROVE IInv'
  BY <1>1, BeginInv, CompileInv, CommitInv, ApplyDeltaInv, SaveRestoreInv, ForgetInv,
     AdversityInv DEF Step
<1>2. CASE OutsideWrite \/ Crash
  BY <1>2, AdversityInv
<1> QED BY <1>0, <1>1, <1>2 DEF Next

\* The inductive invariant of the handlers holds in every reachable state.
THEOREM Invariance == Spec => []IInv
BY InitInv, NextInv, PTL DEF Spec

\* Every variable keeps its type, and the publication clock is held exactly by
\* the handler inside a commit: no early return and no failed transaction
\* leaves it locked (publication.rs).
THEOREM TypeCorrect == Spec => []TypeOK
<1>1. IInv => TypeOK
  BY SnapshotType DEF TypeOK, Rows
<1> QED BY <1>1, Invariance, PTL

-----------------------------------------------------------------------------
(* The order of the publication clock *)

orderedVars == <<live, committed, "compress" \notin mix.handlers>>

\* The abstract states are the contexts.
LEMMA StatesAreContexts == Ordered!States = Contexts
BY DEF Ordered!States, Contexts

\* Every handler leaves the kind of session alone.
LEMMA MixKept == ASSUME IInv, [Next]_vars PROVE mix' = mix
<1>1. ASSUME NEW w \in Workers, Step(w) PROVE mix' = mix
  BY <1>1 DEF Step, Begin, AnswerCached, Capture, Compile, CommitRefused, EnterCommit,
     AuthorityMoved, PersistBaseline, Publish, EnsureMissing, EnsureMatches, EnsureRefuses,
     EnsurePersist, Remember, Lookup, LookupFails, ApplyBase, ContextId, Apply, ApplyFails,
     Snapshot, SavePersist, Load, Validate, Adopt, DeleteRows, DeleteLive, DeleteMaps,
     DeleteAlias, Purge, ListPending, Retire, RefreshDone, StoreFails, TransactionFails
<1> QED BY <1>1 DEF Next, OutsideWrite, Crash, vars

\* The steps that neither publish nor commit.
LEMMA QuietSteps ==
    ASSUME NEW w \in Workers, Step(w),
           ~Publish(w), ~Remember(w), ~AuthorityMoved(w), ~Adopt(w), ~Apply(w), ~DeleteLive(w)
    PROVE  UNCHANGED <<live, committed>>
BY DEF Step, Begin, AnswerCached, Capture, Compile, CommitRefused, EnterCommit,
     PersistBaseline, EnsureMissing, EnsureMatches, EnsureRefuses,
     EnsurePersist, Lookup, LookupFails, ApplyBase, ContextId, ApplyFails,
     Snapshot, SavePersist, Load, Validate, DeleteRows, DeleteMaps,
     DeleteAlias, Purge, ListPending, Retire, RefreshDone, StoreFails, TransactionFails

\* Every step of the handlers is a step of the ordered authority, or none.
LEMMA OrderedStep ==
    ASSUME IInv, [Next]_vars
    PROVE  [Ordered!Next]_orderedVars
<1>0. mix' = mix
  BY MixKept
<1>1. ASSUME NEW w \in Workers, Publish(w) PROVE Ordered!Establish \/ Ordered!Overwrite
  <2>1. live' \in Contexts
    BY <1>1 DEF Publish
  <2>2. CASE op[w] = "compress"
    <3>1. "compress" \in mix.handlers /\ UNCHANGED committed
      BY <1>1, <2>2 DEF Publish
    <3> QED BY <2>1, <3>1, StatesAreContexts DEF Ordered!Overwrite
  <2>3. CASE op[w] # "compress"
    <3>1. committed' = gen[w] /\ gen[w] > committed /\ gen[w] \in Nat
      BY <1>1, <2>3 DEF Publish
    <3> QED BY <2>1, <3>1, StatesAreContexts DEF Ordered!Establish
  <2> QED BY <2>2, <2>3
<1>2. ASSUME NEW w \in Workers, Remember(w) PROVE Ordered!Establish
  <2>1. live \in Contexts /\ cand[w] \in Contexts
    BY <1>2 DEF Remember
  <2>2. [live EXCEPT !.src = cand[w].src] \in Contexts
    BY <2>1 DEF Contexts
  <2>3. live' \in Contexts
    BY <1>2, <2>1, <2>2 DEF Remember
  <2>4. committed' = gen[w] /\ gen[w] > committed /\ gen[w] \in Nat
    BY <1>2 DEF Remember
  <2> QED BY <2>3, <2>4, StatesAreContexts DEF Ordered!Establish
<1>3. ASSUME NEW w \in Workers, AuthorityMoved(w) PROVE Ordered!Establish
  <2>1. committed' = gen[w] /\ gen[w] > committed /\ gen[w] \in Nat /\ live' = live
    BY <1>3 DEF AuthorityMoved, Superseded
  <2> QED BY <2>1 DEF Ordered!Establish
<1>4. ASSUME NEW w \in Workers, Adopt(w) PROVE Ordered!Establish \/ UNCHANGED <<live, committed>>
  <2>1. CASE gen[w] > committed
    <3>1. committed' = gen[w] /\ gen[w] \in Nat /\ live' \in Contexts
      BY <1>4, <2>1 DEF Adopt
    <3> QED BY <2>1, <3>1, StatesAreContexts DEF Ordered!Establish
  <2>2. CASE ~(gen[w] > committed)
    BY <1>4, <2>2 DEF Adopt
  <2> QED BY <2>1, <2>2
<1>5. ASSUME NEW w \in Workers, Apply(w) PROVE Ordered!Advance
  <2>1. Transition(w) \in Transitions /\ live \in Contexts
    BY <1>5, TransitionType DEF Apply
  <2>2. PICK c \in ApplySequence(live, Transition(w)) : c # None /\ live' = c
    BY <1>5 DEF Apply
  <2>3. c \in Contexts
    BY <2>1, <2>2, ApplySequenceType
  <2>4. c.ver > live.ver
    <3>1. live.ver = Transition(w).from /\ ~(Transition(w).to <= Transition(w).from)
          /\ c.ver = Transition(w).to
      BY <2>2 DEF ApplySequence
    <3>2. Transition(w).from \in Nat /\ Transition(w).to \in Nat
      BY <2>1 DEF Transitions
    <3> QED BY <3>1, <3>2
  <2>5. live # None /\ UNCHANGED committed
    BY <1>5 DEF Apply
  <2> QED BY <2>2, <2>3, <2>4, <2>5, StatesAreContexts DEF Ordered!Advance
<1>6. ASSUME NEW w \in Workers, DeleteLive(w) PROVE Ordered!Forget
  BY <1>6 DEF DeleteLive, Ordered!Forget
<1>7. ASSUME Crash PROVE Ordered!Restart
  BY <1>7 DEF Crash, Ordered!Restart
<1>8. ASSUME OutsideWrite \/ UNCHANGED vars PROVE UNCHANGED <<live, committed>>
  BY <1>8 DEF OutsideWrite, vars
<1>9. \/ Ordered!Establish \/ Ordered!Advance \/ Ordered!Forget \/ Ordered!Restart
      \/ Ordered!Overwrite \/ UNCHANGED <<live, committed>>
  <2> HIDE DEF IInv
  <2> QED BY <1>1, <1>2, <1>3, <1>4, <1>5, <1>6, <1>7, <1>8, QuietSteps DEF Next
<1> QED BY <1>0, <1>9 DEF Ordered!Next, orderedVars

\* Whatever handlers run, in whatever interleaving, the live authority moves
\* only to a newer ticket or, under apply_delta, to a later version; only
\* compress_code_context writes without either (OrderedAuthority).
THEOREM OrderImplemented == Spec => ImplementsOrdered
<1>1. Init => Ordered!Init
  BY DEF Init, Ordered!Init
<1>2. IInv /\ [Next]_vars => [Ordered!Next]_orderedVars
  BY OrderedStep
<1> QED BY <1>1, <1>2, Invariance, PTL DEF Spec, ImplementsOrdered, Ordered!Spec, orderedVars

-----------------------------------------------------------------------------
(* Sessions of delta_code_context, apply_delta and refresh *)

Coherent(c) == c.ir = Ir[c.src]

\* Something computed from instructions ir at version ver is not newer than the
\* live context, and is of its instructions if it is of its version.
NotNewer(ver, ir) == live # None /\ ver <= live.ver /\ (ver = live.ver => ir = live.ir)

\* A context is live under an alias; while a first one is being published,
\* there is none.
DeltaLiveInv ==
    /\ live # None => Coherent(live) /\ alias
    /\ \A w \in Workers : pc[w] \in {"persist", "publish"} => live = None

\* Transitions that are pending, or that a handler holds, and captured contexts.
DeltaBaseInv ==
    /\ \A t \in pending : NotNewer(t.from, t.base)
    /\ \A w \in Workers : \A t \in held[w] : NotNewer(t.from, t.base)
    /\ \A w \in Workers : prev[w] # None => Coherent(prev[w]) /\ NotNewer(prev[w].ver, prev[w].ir)

\* What delta_code_context compiled.
DeltaCandInv ==
    \A w \in Workers :
        pc[w] \in {"commit", "persist", "publish"} \/ Locked(w) => Coherent(cand[w])

DInv == DeltaLiveInv /\ DeltaBaseInv /\ DeltaCandInv

\* No context is mistaken for an absent one.
LEMMA NoneIsNoContext == None \notin Contexts
OBVIOUS

\* Such a session runs none of the other handlers.
LEMMA DeltaControl ==
    ASSUME IInv, DeltaSession, NEW w \in Workers
    PROVE  pc[w] \in {"idle", "capture", "compile", "commit", "persist", "publish", "ensure",
                      "ensurePersist", "remember", "lookup", "applyBase", "contextId", "apply",
                      "list", "retire"}
           /\ (pc[w] \in {"capture", "compile", "commit", "persist", "publish"} => op[w] = "delta")
BY DEF DeltaSession

USE DEF DInv, DeltaLiveInv, DeltaBaseInv, DeltaCandInv, NotNewer

\* What was just compiled belongs to its source.
LEMMA CompiledCoherent == \A ver, c : Coherent(Compiled(ver, c))
BY DEF Coherent, Compiled

\* Generating a delta, up to its commit.
LEMMA DeltaCompileInv ==
    ASSUME IInv, DeltaSession, DInv, NEW w \in Workers
    PROVE  /\ \A o \in mix.handlers : Begin(w, o) => DInv'
           /\ AnswerCached(w) => DInv'
           /\ Capture(w) => DInv'
           /\ Compile(w) => DInv'
           /\ CommitRefused(w) => DInv'
           /\ EnterCommit(w) => DInv'
           /\ AuthorityMoved(w) => DInv'
<1>0. ASSUME NEW o \in mix.handlers, Begin(w, o) PROVE DInv'
  <2>1. o \in {"delta", "apply", "refresh"}
    BY DEF DeltaSession
  <2> QED BY <1>0, <2>1 DEF Begin, FirstStep
<1>1. ASSUME AnswerCached(w) PROVE DInv'
  BY <1>1 DEF AnswerCached
<1>2. ASSUME Capture(w) PROVE DInv'
  <2>1. live # None => live.ver \in Nat
    BY DEF Contexts
  <2> QED BY <1>2, <2>1 DEF Capture, Visible
<1>3. ASSUME Compile(w) PROVE DInv'
  <2>1. Coherent(cand'[w]) /\ \A v \in Workers \ {w} : cand'[v] = cand[v]
    BY <1>3, CompiledCoherent DEF Compile
  <2>2. op[w] = "delta" /\ alias' = alias
    BY <1>3, DeltaControl DEF Compile
  <2> QED BY <1>3, <2>1, <2>2 DEF Compile
<1>4. ASSUME CommitRefused(w) PROVE DInv'
  BY <1>4 DEF CommitRefused
<1>5. ASSUME EnterCommit(w) PROVE DInv'
  <2>1. op[w] = "delta"
    BY <1>5, DeltaControl DEF EnterCommit
  <2>2. prev[w] = None => live = None
    BY <1>5, <2>1 DEF EnterCommit, Visible
  <2> QED BY <1>5, <2>1, <2>2 DEF EnterCommit
<1>6. ASSUME AuthorityMoved(w) PROVE DInv'
  BY <1>6 DEF AuthorityMoved
<1> QED BY <1>0, <1>1, <1>2, <1>3, <1>4, <1>5, <1>6

\* Generating a delta, and the baseline check of apply_delta.
LEMMA DeltaCommitInv ==
    ASSUME IInv, DeltaSession, DInv, NEW w \in Workers
    PROVE  /\ PersistBaseline(w) => DInv'
           /\ Publish(w) => DInv'
           /\ EnsureMissing(w) => DInv'
           /\ EnsureMatches(w) => DInv'
           /\ EnsureRefuses(w) => DInv'
           /\ EnsurePersist(w) => DInv'
           /\ Remember(w) => DInv'
<1>1. ASSUME PersistBaseline(w) PROVE DInv'
  BY <1>1 DEF PersistBaseline
<1>2. ASSUME Publish(w) PROVE DInv'
  <2>1. live = None /\ pending = {} /\ \A v \in Workers : held[v] = {} /\ prev[v] = None
    BY <1>2 DEF Publish
  <2>2. live' = cand[w] /\ Coherent(cand[w]) /\ alias' /\ pending' = {}
    BY <1>2, <2>1, DeltaControl DEF Publish
  <2>3. \A v \in Workers : held'[v] = {} /\ prev'[v] = None
    BY <1>2, <2>1 DEF Publish
  <2>4. \A v \in Workers : pc'[v] \notin {"persist", "publish"}
    BY <1>2 DEF Publish
  <2>5. DeltaCandInv'
    BY <1>2 DEF Publish
  <2> QED BY <2>2, <2>3, <2>4, <2>5 DEF Coherent
<1>3. ASSUME EnsureMissing(w) PROVE DInv'
  BY <1>3 DEF EnsureMissing
<1>4. ASSUME EnsureMatches(w) PROVE DInv'
  BY <1>4 DEF EnsureMatches
<1>5. ASSUME EnsureRefuses(w) PROVE DInv'
  BY <1>5 DEF EnsureRefuses
<1>6. ASSUME EnsurePersist(w) PROVE DInv'
  BY <1>6 DEF EnsurePersist
<1>7. ASSUME Remember(w) PROVE DInv'
  <2>1. live \in Contexts /\ live = prev[w] /\ live # None /\ Coherent(cand[w])
    <3>1. pc[w] = "remember" /\ op[w] = "delta"
      BY <1>7 DEF Remember
    <3>2. live = prev[w] /\ prev[w] \in Contexts /\ Coherent(cand[w])
      BY <3>1
    <3> QED BY <3>2, NoneIsNoContext
  <2>2. /\ live' \in Contexts /\ live' # None /\ Coherent(live')
        /\ live'.ver = live.ver /\ live'.ir = live.ir
    <3>1. CASE cand[w].ir = prev[w].ir
      <4>1. live' = [live EXCEPT !.src = cand[w].src]
        BY <1>7, <3>1 DEF Remember
      <4>2. cand[w] \in Contexts
        BY <1>7 DEF Remember
      <4>3. live' \in Contexts /\ live'.ver = live.ver /\ live'.ir = live.ir
            /\ live'.src = cand[w].src
        BY <2>1, <4>1, <4>2 DEF Contexts
      <4>4. live'.ir = Ir[live'.src]
        BY <2>1, <3>1, <4>3 DEF Coherent
      <4> QED BY <4>3, <4>4, NoneIsNoContext DEF Coherent
    <3>2. CASE cand[w].ir # prev[w].ir
      BY <1>7, <2>1, <3>2 DEF Remember
    <3> QED BY <3>1, <3>2
  <2>3. \A t \in pending' : t \in pending \/ (t.from = live.ver /\ t.base = live.ir)
    BY <1>7, <2>1 DEF Remember
  <2>4. live.ver \in Nat
    BY <2>1 DEF Contexts
  <2>5. DeltaLiveInv'
    BY <1>7, <2>1, <2>2 DEF Remember
  <2>6. DeltaBaseInv'
    BY <1>7, <2>2, <2>3, <2>4 DEF Remember
  <2>7. DeltaCandInv'
    BY <1>7 DEF Remember
  <2> QED BY <2>5, <2>6, <2>7
<1> QED BY <1>1, <1>2, <1>3, <1>4, <1>5, <1>6, <1>7

\* The transition apply_delta replays was computed from the live instructions.
LEMMA AppliedToItsBase ==
    ASSUME IInv, DInv, NEW w \in Workers, Apply(w)
    PROVE  /\ live \in Contexts /\ Transition(w) \in Transitions
           /\ live.ver = Transition(w).from /\ live.ir = Transition(w).base
           /\ Transition(w).to > live.ver
           /\ live' = [ver |-> Transition(w).to, ir |-> Ir[Transition(w).target],
                       src |-> Transition(w).target]
           /\ accepted' = live'
<1>1. Transition(w) \in held[w] /\ Transition(w) \in Transitions /\ live \in Contexts
  BY TransitionType DEF Apply
<1>2. PICK c \in ApplySequence(live, Transition(w)) : c # None /\ live' = c /\ accepted' = c
  BY DEF Apply
<1>3. live.ver = Transition(w).from /\ ~(Transition(w).to <= Transition(w).from)
  BY <1>2 DEF ApplySequence
<1>4. Transition(w).from \in Nat /\ Transition(w).to \in Nat
  BY <1>1 DEF Transitions
<1>5. live.ir = Transition(w).base
  BY <1>1, <1>3
<1>6. c = [ver |-> Transition(w).to, ir |-> Ir[Transition(w).target], src |-> Transition(w).target]
  BY <1>2, <1>3, <1>5 DEF ApplySequence
<1> QED BY <1>1, <1>2, <1>3, <1>4, <1>5, <1>6

\* apply_delta: the live version moves past that of every transition and
\* every captured context, so none of them can be of the new version.
LEMMA DeltaApplyInv ==
    ASSUME IInv, DeltaSession, DInv, NEW w \in Workers
    PROVE  /\ Lookup(w) => DInv'
           /\ LookupFails(w) => DInv'
           /\ ApplyBase(w) => DInv'
           /\ ContextId(w) => DInv'
           /\ Apply(w) => DInv'
           /\ ApplyFails(w) => DInv'
<1>1. ASSUME Lookup(w) PROVE DInv'
  BY <1>1 DEF Lookup
<1>2. ASSUME LookupFails(w) PROVE DInv'
  BY <1>2 DEF LookupFails
<1>3. ASSUME ApplyBase(w) PROVE DInv'
  <2>1. live # None => live.ver \in Nat
    BY DEF Contexts
  <2> QED BY <1>3, <2>1 DEF ApplyBase
<1>4. ASSUME ContextId(w) PROVE DInv'
  BY <1>4 DEF ContextId
<1>5. ASSUME Apply(w) PROVE DInv'
  <2>1. live # None /\ live' # None /\ live'.ver > live.ver /\ Coherent(live')
    <3>1. live # None /\ live' # None
      BY <1>5 DEF Apply
    <3> QED BY <1>5, <3>1, AppliedToItsBase DEF Coherent
  <2>2. live.ver \in Nat /\ live'.ver \in Nat
    BY <1>5, AppliedToItsBase DEF Contexts, Transitions
  <2>3. \A n \in Nat : n <= live.ver => n <= live'.ver /\ n # live'.ver
    BY <2>1, <2>2
  <2>4. DeltaLiveInv'
    BY <1>5, <2>1 DEF Apply
  <2>5. DeltaCandInv'
    BY <1>5 DEF Apply
  <2>6. \A t \in Transitions : t.from \in Nat
    BY DEF Transitions
  <2>7. \A c \in Contexts : c.ver \in Nat
    BY DEF Contexts
  <2>8. DeltaBaseInv'
    BY <1>5, <2>1, <2>3, <2>6, <2>7 DEF Apply
  <2> QED BY <2>4, <2>5, <2>8
<1>6. ASSUME ApplyFails(w) PROVE DInv'
  BY <1>6 DEF ApplyFails
<1> QED BY <1>1, <1>2, <1>3, <1>4, <1>5, <1>6

\* Refreshes, failures, outside writes and crashes.
LEMMA DeltaOtherInv ==
    ASSUME IInv, DeltaSession, DInv
    PROVE  /\ \A w \in Workers : ListPending(w) \/ Retire(w) \/ RefreshDone(w) => DInv'
           /\ \A w \in Workers : StoreFails(w) => DInv'
           /\ OutsideWrite => DInv'
           /\ Crash => DInv'
           /\ UNCHANGED vars => DInv'
<1>1. ASSUME NEW w \in Workers, ListPending(w) PROVE DInv'
  BY <1>1 DEF ListPending
<1>2. ASSUME NEW w \in Workers, Retire(w) PROVE DInv'
  BY <1>2 DEF Retire
<1>3. ASSUME NEW w \in Workers, RefreshDone(w) PROVE DInv'
  BY <1>3 DEF RefreshDone
<1>4. ASSUME NEW w \in Workers, StoreFails(w) PROVE DInv'
  BY <1>4 DEF StoreFails, TransactionFails
<1>5. ASSUME OutsideWrite PROVE DInv'
  BY <1>5 DEF OutsideWrite
<1>6. ASSUME Crash PROVE DInv'
  BY <1>6 DEF Crash
<1>7. ASSUME UNCHANGED vars PROVE DInv'
  BY <1>7 DEF vars
<1> QED BY <1>1, <1>2, <1>3, <1>4, <1>5, <1>6, <1>7

\* The handlers such a session does not call.
LEMMA NotInDeltaSession ==
    ASSUME IInv, DeltaSession, NEW w \in Workers
    PROVE  ~(\/ Snapshot(w) \/ SavePersist(w) \/ Load(w) \/ Validate(w) \/ Adopt(w)
             \/ DeleteRows(w) \/ DeleteLive(w) \/ DeleteMaps(w) \/ DeleteAlias(w) \/ Purge(w))
<1>1. pc[w] \notin {"snapshot", "savePersist", "load", "validate", "adopt", "deleteRows",
                     "deleteLive", "deleteMaps", "deleteAlias", "purge"}
  BY DeltaControl
<1> HIDE DEF IInv
<1> QED BY <1>1 DEF Snapshot, SavePersist, Load, Validate, Adopt, DeleteRows, DeleteLive,
   DeleteMaps, DeleteAlias, Purge

\* Every step of such a session.
LEMMA DeltaNext ==
    ASSUME IInv, [Next]_vars, DeltaSession, DInv
    PROVE  DInv'
<1> HIDE DEF IInv, DInv
<1>1. ASSUME NEW w \in Workers, Step(w) PROVE DInv'
  BY <1>1, DeltaCompileInv, DeltaCommitInv, DeltaApplyInv, DeltaOtherInv, NotInDeltaSession DEF Step
<1> QED BY <1>1, DeltaOtherInv DEF Next

DeltaInv == DeltaSession => DInv

\* In a session of deltas nothing pending or captured is newer than the live
\* context, and what is of its version has its instructions.
THEOREM DeltaInvariance == Spec => []DeltaInv
<1>1. Init => DeltaInv
  BY DEF Init, DeltaInv
<1>2. IInv /\ DeltaInv /\ [Next]_vars => DeltaInv'
  <2> SUFFICES ASSUME IInv, DeltaInv, [Next]_vars, DeltaSession' PROVE DInv'
    BY DEF DeltaInv
  <2>1. DeltaSession
    BY MixKept DEF DeltaSession
  <2> QED BY <2>1, DeltaNext DEF DeltaInv
<1> QED BY <1>1, <1>2, Invariance, PTL DEF Spec

\* No apply_delta splices two contexts: in sessions that generate and apply
\* deltas, the live instructions always are those of the live source
\* (delta.rs, delta_apply.rs).
THEOREM BasesKept == Spec => []DeltaKeepsBase
<1>1. DeltaInv => DeltaKeepsBase
  BY DEF DeltaInv, DeltaKeepsBase, LiveCoherent, Coherent
<1> QED BY <1>1, DeltaInvariance, PTL

-----------------------------------------------------------------------------
(* The durable rows of such a session, with persistence.auto_save *)

\* The rows replay to c alone, and its snapshot carries the hash of the row.
LoadsAs(d, c) ==
    /\ Replayed(d, Len(d.chain)) = {c}
    /\ c.ver \in DOMAIN d.snaps /\ d.snaps[c.ver] = c.src /\ d.hash = c.src

\* Such rows pass the checks of load_durable_context.
LEMMA LoadsAsLoads ==
    ASSUME NEW d \in Rows, NEW c \in Contexts, LoadsAs(d, c)
    PROVE  LoadDurable(d) = {c}
<1>1. c # None /\ [c EXCEPT !.src = d.snaps[c.ver]] = c
  BY NoneIsNoContext DEF LoadsAs, Contexts
<1> QED BY <1>1 DEF LoadsAs, LoadDurable, LoadAt

\* A fresh baseline loads as the context it was made of.
LEMMA BaselineLoads ==
    ASSUME NEW c \in Contexts
    PROVE  LoadsAs(Baseline(c), c)
<1>1. Len(Baseline(c).chain) = 0
  BY DEF Baseline
<1>2. BaselineOutcome(Baseline(c)) = {[ver |-> c.ver, ir |-> c.ir, src |-> c.src]}
  BY DEF BaselineOutcome, Baseline
<1>3. [ver |-> c.ver, ir |-> c.ir, src |-> c.src] = c
  BY DEF Contexts
<1>4. Replayed(Baseline(c), 0) = {c}
  BY <1>2, <1>3, ReplayedZero
<1> QED BY <1>1, <1>4 DEF LoadsAs, Baseline

\* append_delta_with_semantics: rows that load as the base of a delta load as
\* its target afterwards.
LEMMA AppendedLoads ==
    ASSUME NEW d \in Rows, NEW c \in Contexts, NEW t \in Transitions, LoadsAs(d, c),
           c.ver = t.from, c.ir = t.base, t.to > t.from
    PROVE  LoadsAs(Appended(d, t), [ver |-> t.to, ir |-> Ir[t.target], src |-> t.target])
<1> DEFINE e == Appended(d, t)
           r == [ver |-> t.to, ir |-> Ir[t.target], src |-> t.target]
           n == Len(d.chain)
<1>1. d.chain \in Seq(Transitions) /\ n \in Nat
  BY DEF Rows
<1>2. e.chain = Append(d.chain, t) /\ e.hash = t.target /\ e.ver = d.ver /\ e.ir = d.ir
  BY DEF Appended, Rows
<1>3. t.to \in DOMAIN e.snaps /\ e.snaps[t.to] = t.target
  BY DEF Appended, Rows
<1>4. Len(e.chain) = n + 1 /\ e.chain[n + 1] = t /\ \A k \in 1..n : e.chain[k] = d.chain[k]
  BY <1>1, <1>2, AppendProperties
<1>5. Alike(BaselineOutcome(d), BaselineOutcome(e))
  <2> DEFINE b == [ver |-> d.ver, ir |-> d.ir, src |-> d.hash]
             a == [ver |-> d.ver, ir |-> d.ir, src |-> t.target]
  <2>1. a \in Contexts /\ b \in Contexts
    BY DEF Contexts, Rows, Transitions
  <2>2. a # None /\ b # None
    BY <2>1, NoneIsNoContext
  <2>3. \A u : ApplySequence(a, u) = ApplySequence(b, u)
    BY DEF ApplySequence
  <2>4. BaselineOutcome(e) = {a} /\ BaselineOutcome(d) = {b}
    BY <1>2 DEF BaselineOutcome
  <2> HIDE DEF a, b
  <2> QED BY <2>2, <2>3, <2>4 DEF Extended, Alike
<1> HIDE DEF e, n
<1>6. Replayed(e, n + 1) = Extended(Replayed(d, n), t)
  BY <1>1, <1>4, <1>5, ReplayedNext
<1>7. Extended({c}, t) = ApplySequence(c, t)
  BY NoneIsNoContext DEF Extended
<1>8. ApplySequence(c, t) = {r}
  BY DEF ApplySequence, Transitions
<1>9. Replayed(d, n) = {c}
  BY DEF LoadsAs, n
<1> QED BY <1>2, <1>3, <1>4, <1>6, <1>7, <1>8, <1>9 DEF LoadsAs, e

\* The rows load as the live instructions, and as what was last accepted.
RowsLoad ==
    /\ durable # NoRow =>
          \E c \in Contexts :
              LoadsAs(durable, c) /\ (live # None => c.ver = live.ver /\ c.ir = live.ir)
    /\ accepted # None => durable # NoRow /\ LoadsAs(durable, accepted)

\* A context is persisted before it is live, so no baseline is ever missing.
RowsFirst ==
    /\ live # None => durable # NoRow
    /\ \A w \in Workers : pc[w] = "publish" => durable = Baseline(cand[w])
    /\ \A w \in Workers : pc[w] # "ensurePersist"

RowsInv == RowsLoad /\ RowsFirst

USE DEF RowsInv, RowsLoad, RowsFirst

\* The steps that leave the rows, the live context and the last answer alone,
\* and enter neither a publication nor a missing baseline.
LEMMA RowsQuiet ==
    ASSUME IInv, RowsInv, UNCHANGED <<durable, live, accepted>>,
           \A v \in Workers : pc'[v] # "ensurePersist",
           \A v \in Workers : pc'[v] = "publish" => pc[v] = "publish" /\ cand'[v] = cand[v]
    PROVE  RowsInv'
BY DEF LoadsAs

\* With auto_save and a live context, a baseline is never missing.
LEMMA NeverMissing ==
    ASSUME IInv, DInv, RowsInv, NEW w \in Workers
    PROVE  ~EnsureMissing(w) /\ ~EnsurePersist(w)
<1>1. ASSUME EnsureMissing(w) PROVE FALSE
  <2>1. prev[w] \in Contexts /\ durable = NoRow
    BY <1>1 DEF EnsureMissing
  <2>2. prev[w] # None
    BY <2>1, NoneIsNoContext
  <2>3. live # None
    BY <2>2
  <2>4. live # None => durable # NoRow
    BY DEF RowsInv, RowsFirst
  <2> HIDE DEF IInv, DInv, RowsInv
  <2> QED BY <2>1, <2>3, <2>4
<1>2. ASSUME EnsurePersist(w) PROVE FALSE
  BY <1>2 DEF EnsurePersist
<1> HIDE DEF IInv, DInv, RowsInv
<1> QED BY <1>1, <1>2

\* Generating a delta, up to its commit.
LEMMA RowsCompileInv ==
    ASSUME IInv, DeltaSession, AutoSave, DInv, RowsInv, NEW w \in Workers
    PROVE  /\ \A o \in mix.handlers : Begin(w, o) => RowsInv'
           /\ AnswerCached(w) => RowsInv'
           /\ Capture(w) => RowsInv'
           /\ Compile(w) => RowsInv'
           /\ CommitRefused(w) => RowsInv'
           /\ EnterCommit(w) => RowsInv'
           /\ AuthorityMoved(w) => RowsInv'
<1>0. ASSUME NEW o \in mix.handlers, Begin(w, o) PROVE RowsInv'
  <2>1. o \in {"delta", "apply", "refresh"}
    BY DEF DeltaSession
  <2> QED BY <1>0, <2>1, RowsQuiet DEF Begin, FirstStep
<1>1. ASSUME AnswerCached(w) PROVE RowsInv'
  BY <1>1, RowsQuiet DEF AnswerCached
<1>2. ASSUME Capture(w) PROVE RowsInv'
  BY <1>2, RowsQuiet DEF Capture
<1>3. ASSUME Compile(w) PROVE RowsInv'
  BY <1>3, RowsQuiet DEF Compile
<1>4. ASSUME CommitRefused(w) PROVE RowsInv'
  BY <1>4, RowsQuiet DEF CommitRefused
<1>5. ASSUME EnterCommit(w) PROVE RowsInv'
  BY <1>5, RowsQuiet DEF EnterCommit
<1>6. ASSUME AuthorityMoved(w) PROVE RowsInv'
  BY <1>6, RowsQuiet DEF AuthorityMoved
<1> QED BY <1>0, <1>1, <1>2, <1>3, <1>4, <1>5, <1>6

\* The first context is persisted, then published; later ones only compare.
LEMMA RowsCommitInv ==
    ASSUME IInv, DeltaSession, AutoSave, DInv, RowsInv, NEW w \in Workers
    PROVE  /\ PersistBaseline(w) => RowsInv'
           /\ Publish(w) => RowsInv'
           /\ EnsureMatches(w) => RowsInv'
           /\ EnsureRefuses(w) => RowsInv'
           /\ Remember(w) => RowsInv'
<1>1. ASSUME PersistBaseline(w) PROVE RowsInv'
  <2>1. cand[w] \in Contexts /\ live' = None /\ accepted' = None /\ durable' = Baseline(cand[w])
    BY <1>1 DEF PersistBaseline
  <2>2. LoadsAs(durable', cand[w])
    BY <2>1, BaselineLoads
  <2>3. \A v \in Workers : pc'[v] = "publish" => v = w
    BY <1>1 DEF PersistBaseline
  <2>4. cand' = cand /\ \A v \in Workers : pc'[v] # "ensurePersist"
    BY <1>1 DEF PersistBaseline
  <2>5. RowsLoad'
    BY <2>1, <2>2
  <2>6. RowsFirst'
    BY <2>1, <2>3, <2>4
  <2> QED BY <2>5, <2>6
<1>2. ASSUME Publish(w) PROVE RowsInv'
  <2>1. cand[w] \in Contexts /\ live' = cand[w] /\ accepted' = None /\ durable' = Baseline(cand[w])
    BY <1>2 DEF Publish
  <2>2. LoadsAs(durable', cand[w])
    BY <2>1, BaselineLoads
  <2>3. \A v \in Workers : pc'[v] # "publish" /\ pc'[v] # "ensurePersist"
    BY <1>2 DEF Publish
  <2>4. durable' # NoRow
    BY <2>1, BaselineType, NoRowIsNoRow
  <2> QED BY <2>1, <2>2, <2>3, <2>4
<1>3. ASSUME EnsureMatches(w) PROVE RowsInv'
  BY <1>3, RowsQuiet DEF EnsureMatches
<1>4. ASSUME EnsureRefuses(w) PROVE RowsInv'
  BY <1>4, RowsQuiet DEF EnsureRefuses
<1>5. ASSUME Remember(w) PROVE RowsInv'
  <2>1. CASE cand[w].ir # prev[w].ir
    BY <1>5, <2>1, RowsQuiet DEF Remember
  <2>2. CASE cand[w].ir = prev[w].ir
    <3>1. live \in Contexts /\ live # None
      BY <1>5, NoneIsNoContext DEF Remember
    <3>2. live' = [live EXCEPT !.src = cand[w].src] /\ accepted' = None /\ durable' = durable
      BY <1>5, <2>2 DEF Remember
    <3>3. live'.ver = live.ver /\ live'.ir = live.ir
      BY <3>1, <3>2 DEF Contexts
    <3>4. \A v \in Workers : pc'[v] # "publish" /\ pc'[v] # "ensurePersist"
      <4>1. pc' = [pc EXCEPT ![w] = "idle"] /\ pc[w] = "remember"
        BY <1>5 DEF Remember
      <4>2. \A v \in Workers : pc[v] = "publish" => v = w
        BY <4>1
      <4>3. pc \in [Workers -> Steps] /\ \A v \in Workers : pc[v] # "ensurePersist"
        OBVIOUS
      <4> HIDE DEF IInv, DInv, RowsInv
      <4> QED BY <4>1, <4>2, <4>3
    <3> QED BY <3>1, <3>2, <3>3, <3>4
  <2> QED BY <2>1, <2>2
<1> QED BY <1>1, <1>2, <1>3, <1>4, <1>5

\* apply_delta moves the rows and the live context together.
LEMMA RowsApplyInv ==
    ASSUME IInv, DeltaSession, DInv, RowsInv, NEW w \in Workers
    PROVE  /\ Lookup(w) => RowsInv'
           /\ LookupFails(w) => RowsInv'
           /\ ApplyBase(w) => RowsInv'
           /\ ContextId(w) => RowsInv'
           /\ Apply(w) => RowsInv'
           /\ ApplyFails(w) => RowsInv'
<1>1. ASSUME Lookup(w) PROVE RowsInv'
  BY <1>1, RowsQuiet DEF Lookup
<1>2. ASSUME LookupFails(w) PROVE RowsInv'
  BY <1>2, RowsQuiet DEF LookupFails
<1>3. ASSUME ApplyBase(w) PROVE RowsInv'
  BY <1>3, RowsQuiet DEF ApplyBase
<1>4. ASSUME ContextId(w) PROVE RowsInv'
  BY <1>4, RowsQuiet DEF ContextId
<1>5. ASSUME Apply(w) PROVE RowsInv'
  <2> DEFINE t == Transition(w)
  <2>1. live # None /\ durable # NoRow /\ durable \in Rows /\ durable' = Appended(durable, t)
    BY <1>5 DEF Apply
  <2>2. /\ live \in Contexts /\ t \in Transitions /\ live.ver = t.from /\ live.ir = t.base
        /\ t.to > live.ver
        /\ live' = [ver |-> t.to, ir |-> Ir[t.target], src |-> t.target]
        /\ accepted' = live'
    BY <1>5, AppliedToItsBase
  <2>3. PICK c \in Contexts : LoadsAs(durable, c) /\ c.ver = live.ver /\ c.ir = live.ir
    BY <2>1
  <2>4. LoadsAs(durable', live')
    BY <2>1, <2>2, <2>3, AppendedLoads
  <2>5. live' \in Contexts
    BY <2>2 DEF Contexts, Irs, Transitions
  <2>6. durable' # NoRow
    BY <2>1, <2>2, AppendedType, NoRowIsNoRow
  <2>7. \A v \in Workers : pc'[v] # "publish" /\ pc'[v] # "ensurePersist"
    <3>1. pc' = [pc EXCEPT ![w] = "idle"] /\ clock = None
      BY <1>5 DEF Apply
    <3>2. \A v \in Workers : pc[v] # "publish"
      BY <3>1
    <3>3. pc \in [Workers -> Steps] /\ \A v \in Workers : pc[v] # "ensurePersist"
      OBVIOUS
    <3> HIDE DEF IInv, DInv, RowsInv
    <3> QED BY <3>1, <3>2, <3>3
  <2> HIDE DEF t
  <2> QED BY <2>2, <2>4, <2>5, <2>6, <2>7
<1>6. ASSUME ApplyFails(w) PROVE RowsInv'
  BY <1>6, RowsQuiet DEF ApplyFails
<1> QED BY <1>1, <1>2, <1>3, <1>4, <1>5, <1>6

\* Refreshes, failures, outside writes and crashes.
LEMMA RowsOtherInv ==
    ASSUME IInv, DeltaSession, DInv, RowsInv
    PROVE  /\ \A w \in Workers : ListPending(w) \/ Retire(w) \/ RefreshDone(w) => RowsInv'
           /\ \A w \in Workers : StoreFails(w) => RowsInv'
           /\ OutsideWrite => RowsInv'
           /\ Crash => RowsInv'
           /\ UNCHANGED vars => RowsInv'
<1>1. ASSUME NEW w \in Workers, ListPending(w) PROVE RowsInv'
  BY <1>1, RowsQuiet DEF ListPending
<1>2. ASSUME NEW w \in Workers, Retire(w) PROVE RowsInv'
  BY <1>2, RowsQuiet DEF Retire
<1>3. ASSUME NEW w \in Workers, RefreshDone(w) PROVE RowsInv'
  BY <1>3, RowsQuiet DEF RefreshDone
<1>4. ASSUME NEW w \in Workers, StoreFails(w) PROVE RowsInv'
  BY <1>4, RowsQuiet DEF StoreFails, TransactionFails
<1>5. ASSUME OutsideWrite PROVE RowsInv'
  BY <1>5, RowsQuiet DEF OutsideWrite
<1>6. ASSUME Crash PROVE RowsInv'
  <2>1. durable' = durable /\ accepted' = accepted /\ live' = None
        /\ \A v \in Workers : pc'[v] = "idle"
    BY <1>6 DEF Crash
  <2> QED BY <2>1
<1>7. ASSUME UNCHANGED vars PROVE RowsInv'
  BY <1>7, RowsQuiet DEF vars
<1> QED BY <1>1, <1>2, <1>3, <1>4, <1>5, <1>6, <1>7

ChainInv == DeltaSession /\ AutoSave => RowsInv

\* Every step of such a session.
LEMMA RowsNext ==
    ASSUME IInv, [Next]_vars, DeltaSession, AutoSave, DInv, RowsInv
    PROVE  RowsInv'
<1> HIDE DEF IInv, DInv, RowsInv
<1>1. ASSUME NEW w \in Workers, Step(w) PROVE RowsInv'
  BY <1>1, NeverMissing, RowsCompileInv, RowsCommitInv, RowsApplyInv, RowsOtherInv,
     NotInDeltaSession DEF Step
<1> QED BY <1>1, RowsOtherInv DEF Next

\* With auto_save, the rows of a session of deltas load as the live
\* instructions and as what was last acknowledged.
THEOREM ChainInvariance == Spec => []ChainInv
<1>1. Init => ChainInv
  <2> SUFFICES ASSUME Init PROVE RowsInv
    BY DEF ChainInv
  <2>1. CASE durable = NoRow
    BY <2>1 DEF Init
  <2>2. CASE durable # NoRow
    <3>1. durable = Baseline(Compiled(1, disk)) /\ Compiled(1, disk) \in Contexts
      BY <2>2, CompiledType DEF Init
    <3>2. LoadsAs(durable, Compiled(1, disk))
      BY <3>1, BaselineLoads
    <3> QED BY <3>1, <3>2 DEF Init
  <2> QED BY <2>1, <2>2
<1>2. IInv /\ DeltaInv /\ ChainInv /\ [Next]_vars => ChainInv'
  <2> SUFFICES ASSUME IInv, DeltaInv, ChainInv, [Next]_vars, DeltaSession', AutoSave PROVE RowsInv'
    BY DEF ChainInv
  <2>1. DeltaSession
    BY MixKept DEF DeltaSession
  <2> HIDE DEF IInv, DInv, RowsInv
  <2> QED BY <2>1, RowsNext DEF DeltaInv, ChainInv
<1> QED BY <1>1, <1>2, Invariance, DeltaInvariance, PTL DEF Spec

\* With auto_save, the rows that such sessions leave can always be loaded: no
\* delta is appended to a base it was not computed from, and every version
\* of the chain has its snapshot (semantic_state.rs).
THEOREM ChainsLoad ==
    ASSUME AutoSave
    PROVE  Spec => []DeltaChainLoads
<1>1. IInv /\ ChainInv => DeltaChainLoads
  <2> SUFFICES ASSUME IInv, ChainInv, DeltaSession, durable # NoRow
               PROVE  None \notin LoadDurable(durable)
    BY DEF DeltaChainLoads, ChainLoads
  <2>1. PICK c \in Contexts : LoadsAs(durable, c)
    BY DEF ChainInv
  <2>2. LoadDurable(durable) = {c}
    BY <2>1, LoadsAsLoads
  <2> QED BY <2>2, NoneIsNoContext
<1> QED BY <1>1, Invariance, ChainInvariance, PTL

\* What apply_delta acknowledged is what the rows load as, through crashes,
\* outside writes and concurrent handlers, until the live context is replaced
\* (append_delta_with_semantics, load_durable_context).
THEOREM AcceptedStaysDurable ==
    ASSUME AutoSave
    PROVE  Spec => []DeltaAcceptedDurable
<1>1. IInv /\ ChainInv => DeltaAcceptedDurable
  <2> SUFFICES ASSUME IInv, ChainInv, DeltaSession, accepted # None
               PROVE durable # NoRow /\ LoadDurable(durable) = {accepted}
    BY DEF DeltaAcceptedDurable, AcceptedDurable
  <2>1. durable # NoRow /\ durable \in Rows /\ accepted \in Contexts /\ LoadsAs(durable, accepted)
    BY DEF ChainInv
  <2> QED BY <2>1, LoadsAsLoads
<1> QED BY <1>1, Invariance, ChainInvariance, PTL
=============================================================================
