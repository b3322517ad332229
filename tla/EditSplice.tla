----------------------------- MODULE EditSplice -----------------------------
(***************************************************************************)
(* The in-memory half of apply_edit (src/src/edit): one batch of           *)
(* structural operations is resolved against the unit table, verified      *)
(* against the text the caller last saw, checked for overlap and spliced   *)
(* into the source.  The source is a sequence of tokens; a line ending is  *)
(* a token of its own, "lf" or "crlf".  Offsets are the code's, from 0: a  *)
(* span <<s, e>> covers Source[s + 1] to Source[e].                        *)
(***************************************************************************)
EXTENDS Naturals, Sequences, SequencesExt

CONSTANTS
    Source,         \* the file apply_edit read
    Units,          \* UnitTable.units: [qualified, id, name, body, declaration]
    Operations,     \* the operations callers send: [kind, target, expected, text]
    MaxOps          \* bound on the batch (MAX_OPERATIONS_PER_CALL in the code)

VARIABLES
    batch,          \* the operations of the call, in request order
    report          \* ApplyReport, or Refused

spliceVars == <<batch, report>>

Refused == [ok |-> FALSE, source |-> <<>>, operations |-> <<>>]

-----------------------------------------------------------------------------
(* Locating the unit. *)

Indexed(field, target) == {i \in DOMAIN Units : Units[i][field] = target}

\* A later unit with the same qualified name replaces the earlier one in
\* by_qualified.  0 stands for NotFound and Ambiguous.
Resolve(target) ==
    LET exact == IF Indexed("qualified", target) # {}
                 THEN Indexed("qualified", target) ELSE Indexed("id", target)
        bare == Indexed("name", target)
    IN  IF exact # {} THEN CHOOSE i \in exact : \A j \in exact : j <= i
        ELSE IF Cardinality(bare) = 1 THEN CHOOSE i \in bare : TRUE
        ELSE 0

UnitText(unit) == SubSeq(Source, unit.body[1] + 1, unit.body[2])

-----------------------------------------------------------------------------
(* Line endings. *)

WithEol(text, eol) ==
    [i \in DOMAIN text |-> IF text[i] \in {"lf", "crlf"} THEN eol ELSE text[i]]

Normalized(text) == WithEol(text, "lf")

\* A unit without a line ending takes the file's.
UnitEol(unit) ==
    IF "crlf" \in Range(UnitText(unit)) THEN "crlf"
    ELSE IF "lf" \in Range(UnitText(unit)) THEN "lf"
    ELSE IF "crlf" \in Range(Source) THEN "crlf" ELSE "lf"

-----------------------------------------------------------------------------
(* Planning, the overlap check and the splice. *)

Verified(op) ==
    LET unit == Units[Resolve(op.target)]
    IN  /\ Resolve(op.target) # 0
        /\ op.kind \in {"replace_body", "delete"} =>
               Normalized(UnitText(unit)) = Normalized(op.expected)
        /\ op.kind = "delete" => unit.declaration # <<>>

Planned(op) ==
    LET unit == Units[Resolve(op.target)]
        span == CASE op.kind = "replace_body" -> unit.body
                  [] op.kind = "delete" -> unit.declaration
                  [] op.kind = "insert_after" -> <<unit.body[2], unit.body[2]>>
                  [] op.kind = "insert_before" -> <<unit.body[1], unit.body[1]>>
    IN  [start |-> span[1], end |-> span[2], text |-> WithEol(op.text, UnitEol(unit))]

Plan(ops) == [i \in DOMAIN ops |-> Planned(ops[i])]

IsRange(edit) == edit.start < edit.end

Conflicts(a, b) ==
    IF IsRange(a) /\ IsRange(b) THEN b.start < a.end /\ a.start < b.end
    ELSE IsRange(a) # IsRange(b) /\ b.start > a.start /\ b.start < a.end

\* Only neighbours of the request are compared (planned.windows(2)).
ValidateDisjoint(plan) == \A i \in 1..(Len(plan) - 1) : ~Conflicts(plan[i], plan[i + 1])

\* The stable sort: descending start, then descending end, then request order.
SortedBefore(plan, i, j) ==
    \/ plan[i].start > plan[j].start
    \/ plan[i].start = plan[j].start /\ plan[i].end > plan[j].end
    \/ plan[i].start = plan[j].start /\ plan[i].end = plan[j].end /\ i < j

\* Mutant: the splice works in request order instead of back to front.
SpliceOrder_request(plan) == [k \in DOMAIN plan |-> k]

SpliceOrder(plan) ==
    [k \in DOMAIN plan |->
        CHOOSE i \in DOMAIN plan :
            Cardinality({j \in DOMAIN plan : SortedBefore(plan, j, i)}) = k - 1]

\* A span past the end of what earlier splices left is refused.
SpliceOne(out, edit) ==
    IF ~out.ok \/ edit.end > Len(out.source) THEN [out EXCEPT !.ok = FALSE]
    ELSE [out EXCEPT !.source = SubSeq(@, 1, edit.start) \o edit.text
                                \o SubSeq(@, edit.end + 1, Len(@))]

Splice(plan) ==
    LET order == SpliceOrder(plan)
        spliced == FoldLeft(LAMBDA out, i : SpliceOne(out, plan[i]),
                            [ok |-> TRUE, source |-> Source], order)
    IN  IF spliced.ok
        THEN [ok |-> TRUE, source |-> spliced.source, operations |-> Reverse(order)]
        ELSE Refused

Apply(ops) ==
    IF (\A i \in DOMAIN ops : Verified(ops[i])) /\ ValidateDisjoint(Plan(ops))
    THEN Splice(Plan(ops)) ELSE Refused

-----------------------------------------------------------------------------
SpliceInit == batch = <<>> /\ report = Refused

\* One call; the syntax gate may refuse whatever apply() accepted.
ApplyEdit(ops) ==
    /\ ops # <<>>
    /\ batch' = ops
    /\ \E parses \in BOOLEAN : report' = IF parses THEN Apply(ops) ELSE Refused

SpliceNext == batch = <<>> /\ \E ops \in BoundedSeq(Operations, MaxOps) : ApplyEdit(ops)

-----------------------------------------------------------------------------
(* Properties. *)

Touches(a, b) ==
    IF IsRange(a) /\ IsRange(b) THEN a.start < b.end /\ b.start < a.end
    ELSE \/ IsRange(a) /\ a.start < b.start /\ b.start < a.end
         \/ IsRange(b) /\ b.start < a.start /\ a.start < b.end

PairwiseDisjoint(plan) ==
    \A i, j \in DOMAIN plan : i # j => ~Touches(plan[i], plan[j])

\* What position p of the source becomes: the insertions at p in the given order
\* of the batch, then the replacement that starts at p or the token itself.
SubstitutedAt(plan, order, p) ==
    LET FromRequest(i) == WithEol(plan[i].text, IF "crlf" \in Range(Source) THEN "crlf" ELSE "lf")
        here == {i \in DOMAIN plan : plan[i].start = p}
        inserted == SelectSeq(order, LAMBDA i : i \in here /\ ~IsRange(plan[i]))
        replacing == {i \in here : IsRange(plan[i])}
        covered == \E i \in DOMAIN plan : plan[i].start <= p /\ p < plan[i].end
    IN  FlattenSeq([k \in DOMAIN inserted |-> FromRequest(inserted[k])])
        \o (IF replacing # {} THEN FromRequest(CHOOSE i \in replacing : TRUE) ELSE <<>>)
        \o (IF covered \/ p = Len(Source) THEN <<>> ELSE <<Source[p + 1]>>)

Substituted(plan, order) ==
    FlattenSeq([k \in 1..(Len(Source) + 1) |-> SubstitutedAt(plan, order, k - 1)])

RequestOrder(plan) == [k \in DOMAIN plan |-> k]

\* An accepted batch of disjoint edits yields the simultaneous substitution of
\* all of them in the file's own line ending: no splice moves what another one
\* still has to replace, and none is lost (splice, apply.rs:269).  Which of
\* several insertions at one position comes first is left open here.
SpliceExact ==
    LET plan == Plan(batch)
    IN  report.ok /\ PairwiseDisjoint(plan) =>
            \E order \in SetToSeqs(DOMAIN plan) : report.source = Substituted(plan, order)

\* "equal-position empty edits are applied in caller order by the stable splice"
\* (apply.rs:245): each one is spliced in before the ones applied earlier, so
\* the last of the request ends up first.
CallerOrderAtAnchors ==
    LET plan == Plan(batch)
    IN  report.ok /\ PairwiseDisjoint(plan) => report.source = Substituted(plan, RequestOrder(plan))

\* "Reject any batch whose non-empty ranges intersect" (apply.rs:244), which
\* the check of request neighbours does not.
OverlapsRejected ==
    report.ok => \A i, j \in DOMAIN batch :
        i # j /\ IsRange(Planned(batch[i])) /\ IsRange(Planned(batch[j]))
            => ~Touches(Planned(batch[i]), Planned(batch[j]))

\* "Per-operation outcomes in original request order" (apply.rs:313); the
\* report is in ascending order of position.
ReportInOrder == report.ok => report.operations = [i \in DOMAIN batch |-> i]

=============================================================================
