-------------------------- MODULE OrderedAuthority --------------------------
(***************************************************************************)
(* What the publication clock promises of one file's live authority,       *)
(* whichever handlers run: it is replaced only by an operation that drew   *)
(* its ticket after every operation already committed, or moved forward    *)
(* from its own version by an accepted delta, or forgotten.                *)
(***************************************************************************)
EXTENDS Naturals

CONSTANTS Sources, Irs, None

VARIABLES
    published,  \* the live context, or None
    stamp,      \* the generation of the newest committed operation
    ordered     \* every publishing handler of the session draws a ticket

States == [ver: Nat, ir: Irs, src: Sources]

Init == published = None /\ stamp = 0 /\ ordered \in BOOLEAN

\* A ticketed operation commits, and may replace the context.
Establish ==
    /\ stamp' \in Nat /\ stamp' > stamp
    /\ published' \in States \union {published}

\* An accepted delta replaces the context it was applied to by a later version.
Advance ==
    /\ published # None
    /\ published' \in States /\ published'.ver > published.ver
    /\ UNCHANGED stamp

Forget == published' = None /\ UNCHANGED stamp

Restart == published' = None /\ stamp' = 0

\* compress_code_context draws no ticket.
Overwrite == ~ordered /\ published' \in States /\ UNCHANGED stamp

Next ==
    /\ Establish \/ Advance \/ Forget \/ Restart \/ Overwrite
    /\ UNCHANGED ordered

Spec == Init /\ [][Next]_<<published, stamp, ordered>>
=============================================================================
