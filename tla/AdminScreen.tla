---------------------------- MODULE AdminScreen ----------------------------
(***************************************************************************)
(* One list of the administration console with the form over it:           *)
(* useSyncConfigsAdmin.ts and ConfigurationsView.tsx (workers, sources and  *)
(* destinations have the same hook and view of their own).  The browser    *)
(* shows what it has last read, other administrators write at any time, and *)
(* requests in flight are answered when the user has long moved on.        *)
(*                                                                         *)
(* External, as the hook uses them.  TanStack Query: a query has at most one *)
(* request in flight, invalidateQueries puts a new one in its place, but    *)
(* waits for the one that loads the list for the first time; a mutation's   *)
(* onSuccess runs whatever is on the screen by then.  Mantine: a loading    *)
(* button is disabled; a closed modal unmounts its form a little later.     *)
(***************************************************************************)
EXTENDS Naturals

CONSTANTS
    Ids,       \* uuids of rows
    Fields,    \* fields of a row; one of two values each
    New,       \* the form's key when nothing is being edited
    NoRow, Deleted, \* of an id: not created yet; deleted
    MaxWrites  \* bound: writes to the table

ASSUME MaxWritesAssumption == MaxWrites \in Nat
ASSUME NewAssumption == New \notin Ids
ASSUME NoRowAssumption == {NoRow, Deleted} \cap [Fields -> {0, 1}] = {} /\ NoRow # Deleted

VARIABLES
    rows,             \* the table behind the API: id -> row, NoRow or Deleted
    list,             \* the query: [status, rows]
    fetch,            \* its request in flight: [step, rows]
    beingEdited,      \* configBeingEdited: its id, or New
    isModalOpen,
    form,             \* the mounted form, see Mounted, or Unmounted
    save, deletion,   \* the mutations in flight
    hidden,           \* ids changed without an announcement (history)
    unread,           \* those of them that changed since the list was read (history)
    writes            \* writes to the table

screen == <<beingEdited, isModalOpen, form>>
vars == <<rows, list, fetch, screen, save, deletion, hidden, unread, writes>>

Row == [Fields -> {0, 1}]
Table == [Ids -> Row \cup {NoRow, Deleted}]
Listed(table, id) == table[id] \in Row
Blank == [f \in Fields |-> 0]

Unmounted == [key |-> "unmounted"]
NoFetch == [step |-> "idle"]
NoMutation == [step |-> "idle"]

TypeOK ==
    /\ rows \in Table
    /\ list.status \in {"pending", "success", "error"}
    /\ list.status # "pending" => list.rows \in Table
    /\ fetch.step \in {"idle", "sent", "answered"}
    /\ beingEdited \in Ids \cup {New}
    /\ isModalOpen \in BOOLEAN
    /\ isModalOpen => form # Unmounted
    /\ form # Unmounted => form.key = beingEdited /\ form.values \in Row
    /\ save.step \in {"idle", "sent", "succeeded"}
    /\ deletion.step \in {"idle", "sent", "succeeded"}
    /\ unread \subseteq hidden /\ hidden \subseteq Ids
    /\ writes \in 0 .. MaxWrites

Init ==
    /\ rows \in {t \in Table : \A id \in Ids : t[id] \in {NoRow, Blank}}
    /\ list = [status |-> "pending"]
    /\ fetch = [step |-> "sent"]
    /\ beingEdited = New
    /\ isModalOpen = FALSE
    /\ form = Unmounted
    /\ save = NoMutation
    /\ deletion = NoMutation
    /\ hidden = {}
    /\ unread = {}
    /\ writes = 0

-----------------------------------------------------------------------------
(* The list. *)

\* A change of id that nobody tells the list of.
Unannounced(id) == hidden' = hidden \cup {id} /\ unread' = unread \cup {id}

FetchRead ==
    /\ fetch.step = "sent"
    /\ fetch' = [step |-> "answered", rows |-> rows]
    /\ unread' = {}
    /\ UNCHANGED <<rows, list, screen, save, deletion, hidden, writes>>

FetchSucceeds ==
    /\ fetch.step = "answered"
    /\ list' = [status |-> "success", rows |-> fetch.rows]
    /\ fetch' = NoFetch
    /\ UNCHANGED <<rows, screen, save, deletion, hidden, unread, writes>>

\* The view shows the error in place of the list, which the query keeps; of a list
\* that never loaded it keeps nothing.
FetchFails ==
    /\ fetch # NoFetch
    /\ list.status # "pending"
    /\ list' = [list EXCEPT !.status = "error"]
    /\ fetch' = NoFetch
    /\ UNCHANGED <<rows, screen, save, deletion, hidden, unread, writes>>

\* onRetry.
Refetch ==
    /\ list.status = "error" /\ fetch = NoFetch
    /\ fetch' = [step |-> "sent"]
    /\ UNCHANGED <<rows, list, screen, save, deletion, hidden, unread, writes>>

\* Mutant: a request that is in flight is good enough.
InvalidateQueriesJoins(id) ==
    /\ fetch' = IF fetch = NoFetch THEN [step |-> "sent"] ELSE fetch
    /\ IF list.status = "pending" THEN Unannounced(id) ELSE UNCHANGED <<hidden, unread>>

\* invalidateQueries after a change of id.
InvalidateQueries(id) ==
    IF list.status = "pending"
      THEN Unannounced(id) /\ UNCHANGED fetch
      ELSE fetch' = [step |-> "sent"] /\ UNCHANGED <<hidden, unread>>

-----------------------------------------------------------------------------
(* The form.  It starts from the row that was clicked in the list. *)

Mounted(id) ==
    [key |-> id, origin |-> id, touched |-> {}, settled |-> fetch = NoFetch,
     values |-> IF id = New THEN Blank ELSE list.rows[id]]

\* Mutant: the form has no key and stays mounted when another row is edited.
RenderedKeyless(open, id) ==
    IF form = Unmounted
      THEN IF open THEN Mounted(id) ELSE Unmounted
      ELSE [form EXCEPT !.key = id]

\* React mounts another form when the key changes.
Rendered(open, id) ==
    IF form = Unmounted /\ ~open THEN Unmounted
    ELSE IF form = Unmounted \/ form.key # id THEN Mounted(id)
    ELSE form

Show(open, id) ==
    /\ isModalOpen' = open
    /\ beingEdited' = id
    /\ form' = Rendered(open, id)

OpenCreateModal ==
    /\ ~isModalOpen
    /\ Show(TRUE, New)
    /\ UNCHANGED <<rows, list, fetch, save, deletion, hidden, unread, writes>>

\* Mutant: a row is edited whether the list has it or not.
OpenEditModalUnlisted(id) ==
    /\ ~isModalOpen
    /\ list.status = "success"
    /\ Show(TRUE, id)
    /\ UNCHANGED <<rows, list, fetch, save, deletion, hidden, unread, writes>>

OpenEditModal(id) ==
    /\ ~isModalOpen
    /\ list.status = "success" /\ Listed(list.rows, id)
    /\ Show(TRUE, id)
    /\ UNCHANGED <<rows, list, fetch, save, deletion, hidden, unread, writes>>

\* Cancel is possible while a save is in flight.
CloseModal ==
    /\ isModalOpen
    /\ Show(FALSE, New)
    /\ UNCHANGED <<rows, list, fetch, save, deletion, hidden, unread, writes>>

\* The transition of the closed modal ends.
Unmount ==
    /\ ~isModalOpen /\ form # Unmounted
    /\ form' = Unmounted
    /\ UNCHANGED <<rows, list, fetch, beingEdited, isModalOpen,
                   save, deletion, hidden, unread, writes>>

Type(f) ==
    /\ isModalOpen
    /\ form' = [form EXCEPT !.values[f] = 1 - @, !.touched = @ \cup {f}]
    /\ UNCHANGED <<rows, list, fetch, beingEdited, isModalOpen,
                   save, deletion, hidden, unread, writes>>

\* handleSubmit, unless isSaving.
HandleSubmit ==
    /\ isModalOpen
    /\ save = NoMutation
    /\ save' = [step |-> "sent", id |-> beingEdited, form |-> form]
    /\ UNCHANGED <<rows, list, fetch, screen, deletion, hidden, unread, writes>>

-----------------------------------------------------------------------------
(* Mutations. *)

Write(id, row) ==
    /\ writes < MaxWrites
    /\ rows' = [rows EXCEPT ![id] = row]
    /\ writes' = writes + 1

\* The API saves the row; a created one gets a new id.
SaveApplied ==
    /\ save.step = "sent"
    /\ \E id \in Ids :
         /\ IF save.id = New THEN rows[id] = NoRow ELSE id = save.id /\ Listed(rows, id)
         /\ Write(id, save.form.values)
         /\ \/ save' = [step |-> "succeeded", id |-> id] /\ UNCHANGED <<hidden, unread>>
            \/ save' = NoMutation /\ Unannounced(id)  \* the answer is lost: onError
    /\ UNCHANGED <<list, fetch, screen, deletion>>

\* 404, 409, 422 or no connection: onError notifies, and the form stays.
SaveRefused ==
    /\ save.step = "sent"
    /\ save' = NoMutation
    /\ UNCHANGED <<rows, list, fetch, screen, deletion, hidden, unread, writes>>

\* Mutant: the form is closed and nothing more.
SaveOnSuccessForgetful ==
    /\ save.step = "succeeded"
    /\ Show(FALSE, New)
    /\ save' = NoMutation
    /\ UNCHANGED <<rows, list, fetch, deletion, hidden, unread, writes>>

\* onSuccess closes whatever form is open.
SaveOnSuccess ==
    /\ save.step = "succeeded"
    /\ Show(FALSE, New)
    /\ InvalidateQueries(save.id)
    /\ save' = NoMutation
    /\ UNCHANGED <<rows, list, deletion, writes>>

\* Confirmed in the dialog of openDeleteConfirmation, unless isDeleting.
ConfirmDelete(id) ==
    /\ ~isModalOpen
    /\ list.status = "success" /\ Listed(list.rows, id)
    /\ deletion = NoMutation
    /\ deletion' = [step |-> "sent", id |-> id]
    /\ UNCHANGED <<rows, list, fetch, screen, save, hidden, unread, writes>>

DeleteApplied ==
    /\ deletion.step = "sent"
    /\ Listed(rows, deletion.id)
    /\ Write(deletion.id, Deleted)
    /\ \/ deletion' = [deletion EXCEPT !.step = "succeeded"] /\ UNCHANGED <<hidden, unread>>
       \/ deletion' = NoMutation /\ Unannounced(deletion.id)
    /\ UNCHANGED <<list, fetch, screen, save>>

DeleteRefused ==
    /\ deletion.step = "sent"
    /\ deletion' = NoMutation
    /\ UNCHANGED <<rows, list, fetch, screen, save, hidden, unread, writes>>

DeleteOnSuccess ==
    /\ deletion.step = "succeeded"
    /\ InvalidateQueries(deletion.id)
    /\ deletion' = NoMutation
    /\ UNCHANGED <<rows, list, screen, save, writes>>

\* Another administrator.
OtherWrites(id) ==
    /\ \E row \in Row \cup {Deleted} : rows[id] # Deleted /\ Write(id, row)
    /\ Unannounced(id)
    /\ UNCHANGED <<list, fetch, screen, save, deletion>>

Next ==
    \/ FetchRead \/ FetchSucceeds \/ FetchFails \/ Refetch
    \/ OpenCreateModal \/ CloseModal \/ Unmount \/ HandleSubmit
    \/ SaveApplied \/ SaveRefused \/ SaveOnSuccess
    \/ DeleteApplied \/ DeleteRefused \/ DeleteOnSuccess
    \/ \E f \in Fields : Type(f)
    \/ \E id \in Ids : OpenEditModal(id) \/ ConfirmDelete(id) \/ OtherWrites(id)

Spec == Init /\ [][Next]_vars

-----------------------------------------------------------------------------
(* Properties. *)

\* Applied by the API, not answered yet.
Unanswered == {m.id : m \in {n \in {save, deletion} : n.step = "succeeded"}}

\* A list at rest shows every row as the table has it, in whatever order saves, deletions
\* and reads of the list were answered, but for what changed unannounced since it was
\* read.  (So may a change the console makes while the list is loading for the first
\* time: invalidateQueries does not read it again.)
ListShowsAnnounced ==
    list.status = "success" /\ fetch = NoFetch =>
        \A id \in Ids \ (unread \cup Unanswered) : list.rows[id] = rows[id]

\* What a form sends belongs to the row it was opened for, although the row being
\* edited changes under a mounted form when a late answer closes the modal.
SavesComeFromOwnForm ==
    save.step = "sent" => save.form.origin = save.id

\* A save leaves the fields alone that were not touched in the form, if the list was at
\* rest when the form was opened and nobody else has written the row: the form holds a
\* copy of the whole row, and PUT replaces it.
SavesKeepTheRest ==
    [][\A id \in Ids :
         /\ save.step = "sent" /\ save'.step # "sent" /\ save.id = id
         /\ save.form.settled /\ id \notin hidden /\ rows'[id] # rows[id]
         => \A f \in Fields \ save.form.touched : rows'[id][f] = rows[id][f]]_vars
=============================================================================
