------------------------- MODULE HierarchicalCodec --------------------------
(***************************************************************************)
(* The identity contract of an instruction stream (src/src/ir/identity/)   *)
(* and its projection to the class tree and back (src/src/ir/hierarchical/ *)
(* encode.rs, decode.rs, reduce.rs).  A compiler emits instructions in any *)
(* order; try_ir_to_hierarchical validates the stream and groups it by     *)
(* owner, the tree travels whole or reduced, and the receiver flattens it. *)
(*                                                                         *)
(* An instruction is [op, on, id, arg]: its opcode, the identity it is     *)
(* about (the owner of a member, the target of a fact), the identity it    *)
(* introduces (NoId if none), and the rest of its operands as one value.   *)
(* A payload that breaks a shape rule (empty list, a typed value among     *)
(* flags, a vocabulary, a body span, a pattern's arity) is Malformed.      *)
(* Serde writes and reads the tree field by field and leaves out empty     *)
(* ones, so the JSON text is not represented; nor are the upgrades of      *)
(* older schema revisions, whose writers are not in the repository.        *)
(***************************************************************************)
EXTENDS Naturals, Sequences, SequencesExt

CONSTANTS
    Vocabularies,   \* the sets of instructions a stream draws from
    NoId, Malformed,
    MaxStream       \* bound: instructions of a stream

VARIABLES
    stream,         \* CompiledIR.instructions
    projection,     \* the outcome of try_ir_to_hierarchical
    received        \* what a client decoded: [form, instructions]

codecVars == <<stream, projection, received>>

Pending == [status |-> "pending"]
Rejected == [status |-> "rejected"]
NotReceived == [form |-> "none"]

-----------------------------------------------------------------------------
(* The opcodes *)

ClassFacts == <<"MOD_C", "FLAGS_C", "EXT", "BASE_REF", "IMPL", "INJECTS">>
InterfaceFacts == <<"MOD_I", "EXT_I">>
MethodFacts == <<"SIG", "RET", "MOD_M", "CTRL_SUM", "PAT_FACT", "FLAGS", "BODY", "CTRL",
                 "DATAFLOW", "EFFECT", "CTX", "PAT">>

Owners == {"DEF_C", "DEF_I"}
Members == {"DEF_M", "DEF_F", "DEF_IM", "DEF_IF"}
Definitions == Owners \union Members

\* The patterns whose second argument is a method of the class in the first.
MethodPatterns == {"CTOR", "EMPTY_CTOR", "OBSERVABLE", "PROMISE", "GETTER", "SETTER", "OVERRIDE"}

OfMethod(x) == x.op = "PAT" /\ x.arg \in MethodPatterns

\* The definitions that may introduce the identity an instruction is about.
TargetDefinitions(op) ==
    CASE op \in {"DEF_M", "DEF_F", "PAT"} \union ToSet(ClassFacts) -> {"DEF_C"}
      [] op \in {"DEF_IM", "DEF_IF"} \union ToSet(InterfaceFacts) -> {"DEF_I"}
      [] op = "FIELD_T" -> {"DEF_F", "DEF_IF"}
      [] op \in {"CALL"} \union (ToSet(MethodFacts) \ {"PAT"}) -> {"DEF_M", "DEF_IM"}
      [] OTHER -> {}

-----------------------------------------------------------------------------
(* identity::contracts::validate *)

Introduces(x) == x.op \in Definitions \union {"SIG", "IMP", "TYPE"}

\* What may be said once: SingularFacts, with the key each map uses.
SingularKey(x) ==
    CASE x.op = "SIG" -> <<"SIG", x.on, x.id>>
      [] x.op \in {"EXT", "BASE_REF"} -> <<"EXT", x.on>>
      [] x.op \in {"RET", "FIELD_T", "BODY"} -> <<x.op, x.on>>
      [] x.op = "IMP" -> <<"IMP", x.id>>
      [] x.op \in Definitions -> <<"DEF", x.id>>
      [] OTHER -> <<>>

Resolves(s, id, ops) == \E k \in DOMAIN s : s[k].op \in ops /\ s[k].id = id

ValidPattern(s, x) ==
    OfMethod(x) => \E k \in DOMAIN s : s[k].op = "DEF_M" /\ s[k].id = x.id /\ s[k].on = x.on

SaidOnce(s) ==
    \A k, l \in DOMAIN s :
        (k # l /\ SingularKey(s[k]) # <<>>) => SingularKey(s[k]) # SingularKey(s[l])

WellShaped(x) == x.arg # Malformed

\* The whole stream is looked at before anything is resolved, so a target may
\* be defined after its use.  One identity has one definition of one kind.
Valid(s) ==
    /\ \A k \in DOMAIN s :
          /\ Introduces(s[k]) => s[k].id # NoId
          /\ TargetDefinitions(s[k].op) # {} => Resolves(s, s[k].on, TargetDefinitions(s[k].op))
          /\ ValidPattern(s, s[k])
          /\ WellShaped(s[k])
    /\ SaidOnce(s)

-----------------------------------------------------------------------------
(* try_ir_to_hierarchical: place the definitions, then attach the facts *)

NewNode(x, families) ==
    [id |-> x.id, name |-> x.arg, facts |-> [f \in families |-> <<>>]]
NewMethod(x) == NewNode(x, ToSet(MethodFacts))
NewField(x) == NewNode(x, {"FIELD_T"})

IsMethod(x) == x.op \in {"DEF_M", "DEF_IM"}
OwnerOp(x) == IF x.op \in {"DEF_M", "DEF_F"} THEN "DEF_C" ELSE "DEF_I"

PushMember(owner, x) ==
    IF IsMethod(x) THEN [owner EXCEPT !.methods = Append(@, NewMethod(x))]
                   ELSE [owner EXCEPT !.fields = Append(@, NewField(x))]

\* Mutant: members that came before their owner are not placed.
Claimed_dropped(x, waiting) == <<>>

\* The pending members an owner's definition takes out of the pending maps.
Claimed(x, waiting) == SelectSeq(waiting, LAMBDA m : OwnerOp(m) = x.op /\ m.on = x.id)

NewOwner(x, waiting) ==
    LET families == IF x.op = "DEF_C" THEN ToSet(ClassFacts) \union {"PAT"}
                                      ELSE ToSet(InterfaceFacts)
        empty == [id |-> x.id, name |-> x.arg, methods |-> <<>>, fields |-> <<>>,
                  facts |-> [f \in families |-> <<>>]]
    IN  FoldLeft(PushMember, empty, Claimed(x, waiting))

TableOf(op) == CASE op \in {"DEF_C", "DEF_M", "DEF_F"} -> "classes"
                 [] op \in {"DEF_I", "DEF_IM", "DEF_IF"} -> "interfaces"
                 [] op = "IMP" -> "imports" [] op = "TYPE" -> "aliases" [] op = "CALL" -> "calls"
                 [] OTHER -> "none"

Place(acc, x) ==
    LET table == TableOf(x.op)
        tree == acc.tree
    IN  CASE x.op \in Owners ->
               [acc EXCEPT !.tree[table] = Append(@, NewOwner(x, acc.waiting)),
                           !.waiting = SelectSeq(@, LAMBDA m : ~(OwnerOp(m) = x.op /\ m.on = x.id))]
          [] x.op \in Members /\ \E o \in ToSet(tree[table]) : o.id = x.on ->
               [acc EXCEPT !.tree[table] =
                   [k \in DOMAIN @ |-> IF @[k].id = x.on THEN PushMember(@[k], x) ELSE @[k]]]
          [] x.op \in Members -> [acc EXCEPT !.waiting = Append(@, x)]
          [] x.op \in {"IMP", "TYPE", "CALL"} -> [acc EXCEPT !.tree[table] = Append(@, x)]
          [] OTHER -> acc

\* Fields of type Option are assigned, Vec fields are pushed to.
Scalar == {"RET", "FIELD_T", "EXT", "BODY"}
AddFact(node, x) ==
    [node EXCEPT !.facts[x.op] = IF x.op \in Scalar THEN <<x>> ELSE Append(@, x)]

AddFactIn(nodes, id, x) ==
    [k \in DOMAIN nodes |-> IF nodes[k].id = id THEN AddFact(nodes[k], x) ELSE nodes[k]]
AddMemberFactIn(owners, id, x) ==
    [k \in DOMAIN owners |-> [owners[k] EXCEPT
        !.methods = IF x.op = "FIELD_T" THEN @ ELSE AddFactIn(@, id, x),
        !.fields = IF x.op = "FIELD_T" THEN AddFactIn(@, id, x) ELSE @]]

\* The second pass finds the node by identity, wherever its definition was.
Attach(tree, x) ==
    CASE x.op \in ToSet(ClassFacts) \/ (x.op = "PAT" /\ ~OfMethod(x)) ->
            [tree EXCEPT !.classes = AddFactIn(@, x.on, x)]
      [] x.op \in ToSet(InterfaceFacts) -> [tree EXCEPT !.interfaces = AddFactIn(@, x.on, x)]
      [] x.op \in ToSet(MethodFacts) \union {"FIELD_T"} ->
            LET id == IF x.op = "PAT" THEN x.id ELSE x.on
            IN  [tree EXCEPT !.classes = AddMemberFactIn(@, id, x),
                             !.interfaces = AddMemberFactIn(@, id, x)]
      [] OTHER -> tree

EmptyTree == [classes |-> <<>>, interfaces |-> <<>>, imports |-> <<>>, aliases |-> <<>>,
              calls |-> <<>>]
Encode(s) ==
    IF ~Valid(s) THEN Rejected
    ELSE LET placed == FoldLeft(Place, [tree |-> EmptyTree, waiting |-> <<>>], s)
         IN  [status |-> "accepted", tree |-> FoldLeft(Attach, placed.tree, s)]

-----------------------------------------------------------------------------
(* hierarchical_to_ir *)

\* A node carries no owner: its instructions name the node they are listed under.
Emit(node, families) ==
    FlattenSeq([k \in DOMAIN families |-> [j \in DOMAIN node.facts[families[k]] |->
        LET x == node.facts[families[k]][j]
        IN  IF x.op = "PAT" THEN x ELSE [x EXCEPT !.on = node.id]]])

Define(op, on, node) == [op |-> op, on |-> on, id |-> node.id, arg |-> node.name]

EmitMembers(nodes, op, owner, families) ==
    FlattenSeq([k \in DOMAIN nodes |->
        <<Define(op, owner.id, nodes[k])>> \o Emit(nodes[k], families)])

EmitClass(c) ==
    <<Define("DEF_C", NoId, c)>> \o Emit(c, ClassFacts)
    \o EmitMembers(c.fields, "DEF_F", c, <<"FIELD_T">>)
    \o EmitMembers(c.methods, "DEF_M", c, MethodFacts)
    \o Emit(c, <<"PAT">>)

EmitInterface(i) ==
    <<Define("DEF_I", NoId, i)>> \o Emit(i, InterfaceFacts)
    \o EmitMembers(i.fields, "DEF_IF", i, <<"FIELD_T">>)
    \o EmitMembers(i.methods, "DEF_IM", i, MethodFacts)

Decode(tree) ==
    FlattenSeq([k \in DOMAIN tree.classes |-> EmitClass(tree.classes[k])])
    \o FlattenSeq([k \in DOMAIN tree.interfaces |-> EmitInterface(tree.interfaces[k])])
    \o tree.imports \o tree.aliases \o tree.calls

-----------------------------------------------------------------------------
(* hierarchy_to_wire_reduced *)

DroppedOfOwner == {"INJECTS", "PAT"}
DroppedOfMethod == {"CTRL_SUM", "PAT_FACT", "FLAGS", "PAT", "CTRL", "DATAFLOW", "EFFECT", "CTX"}

Strip(node, dropped) ==
    [node EXCEPT !.facts = [f \in DOMAIN @ |-> IF f \in dropped THEN <<>> ELSE @[f]]]
StripOwners(owners) ==
    [k \in DOMAIN owners |->
        [Strip(owners[k], DroppedOfOwner) EXCEPT
            !.methods = [j \in DOMAIN @ |-> Strip(@[j], DroppedOfMethod)]]]

Reduce(tree) ==
    [tree EXCEPT !.classes = StripOwners(@), !.interfaces = StripOwners(@), !.calls = <<>>]

-----------------------------------------------------------------------------
CodecInit == stream = <<>> /\ projection = Pending /\ received = NotReceived

\* A compiler layer emits an instruction; what repeats differs in its operands.
EmitInstruction(x) ==
    /\ projection = Pending /\ Len(stream) < MaxStream
    /\ x \notin ToSet(stream)
    /\ stream' = Append(stream, x)
    /\ UNCHANGED <<projection, received>>

Project ==
    /\ projection = Pending
    /\ projection' = Encode(stream)
    /\ UNCHANGED <<stream, received>>

\* wire_to_ir of the full or of the reduced envelope.
Receive(form) ==
    /\ projection.status = "accepted" /\ received = NotReceived
    /\ LET tree == IF form = "full" THEN projection.tree ELSE Reduce(projection.tree)
       IN  received' = [form |-> form, instructions |-> Decode(tree)]
    /\ UNCHANGED <<stream, projection>>

CodecNext ==
    \/ \E v \in Vocabularies : ToSet(stream) \subseteq v /\ \E x \in v : EmitInstruction(x)
    \/ Project
    \/ \E form \in {"full", "reduced"} : Receive(form)

CodecSpec == CodecInit /\ [][CodecNext]_codecVars

-----------------------------------------------------------------------------
(* Properties *)

\* The facts whose relative order means something: those one list of one node
\* holds, the members of one owner, the owners, the file's own tables.
Scope(x) ==
    CASE x.op \in Owners \union {"IMP", "TYPE", "CALL"} -> <<x.op>>
      [] OfMethod(x) -> <<"PAT", x.on, x.id>>
      [] OTHER -> <<x.op, x.on>>

InScope(s, scope) == SelectSeq(s, LAMBDA x : Scope(x) = scope)

QueryServed(x) == x.op \in DroppedOfOwner \union DroppedOfMethod \union {"CALL"}

\* What the receiver of a tree decodes is what was compiled (encode.rs, decode.rs):
\* every instruction, about the identity it named, in the order of its scope,
\* wherever the stream had put it; projecting it again gives the same tree.  The
\* reduced envelope loses exactly the families the workspace queries serve.
HierarchyExact ==
    received # NotReceived =>
        LET sent == IF received.form = "full" THEN stream
                    ELSE SelectSeq(stream, LAMBDA x : ~QueryServed(x))
            got == received.instructions
        IN  /\ Len(got) = Len(sent)
            /\ \A k \in DOMAIN sent : InScope(got, Scope(sent[k])) = InScope(sent, Scope(sent[k]))
            /\ Encode(got).status = "accepted"
            /\ received.form = "full" => Encode(got).tree = projection.tree
=============================================================================
