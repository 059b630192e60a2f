-------------------------- MODULE ReplicatedTable --------------------------
(***************************************************************************)
(* What the pipeline promises a reader of the analytical table: the row of *)
(* each primary key is the row some committed change of that key left in   *)
(* the source, and it only ever moves forward along the source's history.  *)
(***************************************************************************)
EXTENDS TableRows, Sequences

CONSTANTS
    Keys,  \* primary keys of the source table
    Ops    \* kinds of change the source makes, see CdcPipeline

VARIABLES
    source,  \* the committed changes of the source, in LSN order
    view     \* Keys -> the row a query of the destination shows

Init ==
    /\ source = <<>>
    /\ view = [k \in Keys |-> NoRow]

\* The source commits a change.
Commit(k, op) ==
    /\ source' = Append(source, [key |-> k, op |-> op])
    /\ UNCHANGED view

\* The destination catches up with a later change of one key, skipping any number
\* of the changes in between.
Apply(lsn) ==
    /\ source[lsn].op # "bad"
    /\ view[source[lsn].key].version < lsn
    /\ view' = [view EXCEPT ![source[lsn].key] = RowOf(source[lsn], lsn)]
    /\ UNCHANGED source

Next ==
    \/ \E k \in Keys, op \in Ops : Commit(k, op)
    \/ \E lsn \in 1 .. Len(source) : Apply(lsn)

Spec == Init /\ [][Next]_<<source, view>>
=============================================================================
