----------------------------- MODULE ArchiveLog -----------------------------
(***************************************************************************)
(* What the archive of Internet Identity promises, without buffers,        *)
(* sequence numbers, fetches or acknowledgements: every anchor operation   *)
(* that commits is archived exactly once, in commit order.                 *)
(*                                                                         *)
(* ArchivePipeline implements this specification.                          *)
(***************************************************************************)
EXTENDS Integers, Sequences

CONSTANT
    Anchors     \* the identities whose operations are archived

VARIABLES
    history,    \* the committed operations (their anchors) in commit order
    archived    \* how many of them, from the front, are in the archive

vars == <<history, archived>>

TypeOK == /\ history \in Seq(Anchors)
          /\ archived \in 0..Len(history)

Init == history = <<>> /\ archived = 0

\* An anchor operation commits.
Commit(a) == /\ history' = Append(history, a)
             /\ UNCHANGED archived

\* The archive takes over the next operations, however many.
Archive == /\ archived' \in (archived + 1)..Len(history)
           /\ UNCHANGED history

Next == (\E a \in Anchors : Commit(a)) \/ Archive

Safety == Init /\ [][Next]_vars

\* As long as something is not archived, archiving goes on.
Spec == Safety /\ WF_vars(Archive)

=============================================================================
