------------------------- MODULE AdminScreen_proofs -------------------------
(***************************************************************************)
(* For every number of rows, fields and writes: what the list shows, which *)
(* row a form saves and which fields of it a save may change.              *)
(***************************************************************************)
EXTENDS AdminScreen, TLAPS

-----------------------------------------------------------------------------
(* The inductive invariant. *)

Forms == [key : Ids \cup {New}, origin : Ids \cup {New}, touched : SUBSET Fields,
          settled : BOOLEAN, values : Row]

\* The shapes of the records the screen keeps.
Shapes ==
    /\ rows \in Table
    /\ list \in [status : {"pending"}] \cup [status : {"success", "error"}, rows : Table]
    /\ fetch \in [step : {"idle", "sent"}] \cup [step : {"answered"}, rows : Table]
    /\ beingEdited \in Ids \cup {New}
    /\ isModalOpen \in BOOLEAN
    /\ form \in Forms \cup {Unmounted}
    /\ save \in {NoMutation} \cup [step : {"sent"}, id : Ids \cup {New}, form : Forms]
                             \cup [step : {"succeeded"}, id : Ids]
    /\ deletion \in {NoMutation} \cup [step : {"sent", "succeeded"}, id : Ids]
    /\ unread \subseteq hidden /\ hidden \subseteq Ids
    /\ writes \in 0 .. MaxWrites

\* A mounted form was opened for the row it has the key of; none belongs to a closed
\* modal but the one for a new row.
FormsMatch ==
    /\ isModalOpen => form # Unmounted
    /\ ~isModalOpen => beingEdited = New
    /\ form # Unmounted => form.key = beingEdited /\ form.origin = form.key
    /\ save.step = "sent" => save.form.origin = save.id

\* A read of the list that has been answered agrees with the table just as the list at
\* rest does.
ReadsAgree ==
    \A id \in Ids \ (unread \cup Unanswered) :
        /\ list.status = "success" /\ fetch.step = "idle" => list.rows[id] = rows[id]
        /\ fetch.step = "answered" => fetch.rows[id] = rows[id]

DeletionsStay == deletion.step = "succeeded" => rows[deletion.id] = Deleted

\* What was not touched in a form is what the row has.
Agrees(f, id) == \A field \in Fields \ f.touched : f.values[field] = rows[id][field]

FormFresh ==
    form # Unmounted /\ form.origin \in Ids \ hidden /\ form.settled =>
        \/ rows[form.origin] = Deleted
        \/ Agrees(form, form.origin)
        \/ save.step = "succeeded" /\ save.id = form.origin

SaveFresh ==
    save.step = "sent" /\ save.id \in Ids \ hidden /\ save.form.settled =>
        rows[save.id] = Deleted \/ Agrees(save.form, save.id)

Inv == Shapes /\ FormsMatch /\ ReadsAgree /\ DeletionsStay /\ FormFresh /\ SaveFresh

-----------------------------------------------------------------------------
(* Lemmas on the operators. *)

LEMMA BlankIsRow == Blank \in Row
BY DEF Blank, Row

LEMMA UnansweredIs ==
    ASSUME NEW id
    PROVE  id \in Unanswered <=> \/ save.step = "succeeded" /\ save.id = id
                                 \/ deletion.step = "succeeded" /\ deletion.id = id
BY DEF Unanswered

\* Idle requests, and mutations that have something to say.
LEMMA Steps ==
    ASSUME Shapes
    PROVE  /\ fetch = NoFetch <=> fetch.step = "idle"
           /\ save = NoMutation <=> save.step = "idle"
           /\ save.step = "sent" => save.id \in Ids \cup {New} /\ save.form \in Forms
           /\ save.step = "succeeded" => save.id \in Ids
           /\ deletion # NoMutation => deletion.id \in Ids
           /\ list.status # "pending" => list.rows \in Table
           /\ fetch.step = "answered" => fetch.rows \in Table
BY DEF Shapes, NoFetch, NoMutation

\* A form just mounted holds the row of the list, all of it untouched.
LEMMA MountedResult ==
    ASSUME Shapes, NEW id \in Ids \cup {New}, id # New => Listed(list.rows, id)
    PROVE  /\ Mounted(id) \in Forms /\ Mounted(id) # Unmounted
           /\ Mounted(id).key = id /\ Mounted(id).origin = id
           /\ Mounted(id).touched = {}
           /\ Mounted(id).settled <=> fetch = NoFetch
           /\ id # New => Mounted(id).values = list.rows[id]
<1> DEFINE m == Mounted(id)
           values == IF id = New THEN Blank ELSE list.rows[id]
           atRest == fetch = NoFetch
<1>1. m = [key |-> id, origin |-> id, touched |-> {}, settled |-> atRest, values |-> values]
  BY DEF Mounted
<1>2. values \in Row
  BY BlankIsRow DEF Listed
<1>3. atRest \in BOOLEAN
  OBVIOUS
<1> HIDE DEF values, atRest, m
<1>4. m \in Forms
  BY <1>1, <1>2, <1>3 DEF Forms
<1>5. m # Unmounted
  BY <1>1 DEF Unmounted
<1>6. /\ m.key = id /\ m.origin = id /\ m.touched = {} /\ m.values = values
      /\ m.settled = atRest
  BY <1>1
<1> QED
  BY <1>4, <1>5, <1>6 DEF values, atRest, m

LEMMA ShowResult ==
    ASSUME Shapes, FormsMatch, NEW open \in BOOLEAN, NEW id \in Ids \cup {New},
           id # New => Listed(list.rows, id), Show(open, id)
    PROVE  /\ isModalOpen' = open /\ beingEdited' = id
           /\ form' \in Forms \cup {Unmounted}
           /\ open => form' # Unmounted
           /\ form' # Unmounted =>
                 /\ form'.key = id /\ form'.origin = id
                 /\ form' = Mounted(id) \/ form' = form
<1>1. /\ Mounted(id) \in Forms /\ Mounted(id) # Unmounted
      /\ Mounted(id).key = id /\ Mounted(id).origin = id
  BY MountedResult
<1>2. isModalOpen' = open /\ beingEdited' = id /\ form' = Rendered(open, id)
  BY DEF Show
<1>3. form \in Forms \cup {Unmounted} /\ (form # Unmounted => form.origin = form.key)
  BY DEF Shapes, FormsMatch
<1> QED
  BY <1>1, <1>2, <1>3 DEF Rendered

-----------------------------------------------------------------------------
(* Every step preserves the invariant. *)

LEMMA InitInv == Init => Inv
<1> SUFFICES ASSUME Init PROVE Inv
  OBVIOUS
<1>1. Shapes
  <2>1. rows \in Table
    BY DEF Init
  <2>2. 0 \in 0 .. MaxWrites
    BY MaxWritesAssumption
  <2> QED
    BY <2>1, <2>2 DEF Init, Shapes
<1>2. FormsMatch
  BY DEF Init, FormsMatch, NoMutation
<1>3. ReadsAgree /\ DeletionsStay /\ FormFresh /\ SaveFresh
  BY DEF Init, ReadsAgree, DeletionsStay, FormFresh, SaveFresh, NoMutation
<1> QED
  BY <1>1, <1>2, <1>3 DEF Inv

\* Steps of the list's query.
LEMMA FetchInv ==
    ASSUME Inv, FetchRead \/ FetchSucceeds \/ FetchFails \/ Refetch
    PROVE  Inv'
<1>1. /\ UNCHANGED <<rows, beingEdited, isModalOpen, form, save, deletion, hidden, writes>>
      /\ unread' \in {unread, {}}
  BY DEF FetchRead, FetchSucceeds, FetchFails, Refetch, screen
<1>2. Shapes /\ ReadsAgree
  BY DEF Inv
<1>3. list' \in [status : {"pending"}] \cup [status : {"success", "error"}, rows : Table]
  <2>1. CASE list' = list
    BY <1>2, <2>1 DEF Shapes
  <2>2. CASE FetchSucceeds
    BY <1>2, <2>2, Steps DEF FetchSucceeds
  <2>3. CASE FetchFails
    BY <1>2, <2>3 DEF FetchFails, Shapes
  <2> QED
    BY <2>1, <2>2, <2>3 DEF FetchRead, FetchSucceeds, FetchFails, Refetch
<1>4. fetch' \in [step : {"idle", "sent"}] \cup [step : {"answered"}, rows : Table]
  BY <1>2 DEF FetchRead, FetchSucceeds, FetchFails, Refetch, Shapes, NoFetch
<1>5. Shapes'
  BY <1>1, <1>2, <1>3, <1>4 DEF Shapes
<1>6. ReadsAgree'
  <2>1. Unanswered' = Unanswered
    BY <1>1 DEF Unanswered
  <2>2. CASE FetchRead
    BY <1>1, <2>1, <2>2 DEF FetchRead, ReadsAgree
  <2>3. CASE FetchSucceeds
    BY <1>1, <1>2, <2>1, <2>3 DEF FetchSucceeds, ReadsAgree, NoFetch
  <2>4. CASE FetchFails
    <3>1. fetch'.step = "idle" /\ list'.status = "error"
      BY <1>2, <2>4 DEF FetchFails, NoFetch, Shapes
    <3> QED
      BY <3>1 DEF ReadsAgree
  <2>5. CASE Refetch
    BY <2>5 DEF Refetch, ReadsAgree
  <2> QED
    BY <2>2, <2>3, <2>4, <2>5
<1>7. FormsMatch' /\ DeletionsStay' /\ FormFresh' /\ SaveFresh'
  BY <1>1 DEF Inv, FormsMatch, DeletionsStay, FormFresh, SaveFresh, Agrees
<1> QED
  BY <1>5, <1>6, <1>7 DEF Inv

\* A form that was just opened while the list was at rest is fresh.
LEMMA MountedFresh ==
    ASSUME Inv, NEW id \in Ids, list.status = "success", Listed(list.rows, id),
           id \notin hidden, Mounted(id).settled
    PROVE  \/ rows[id] = Deleted
           \/ Agrees(Mounted(id), id)
           \/ save.step = "succeeded" /\ save.id = id
<1>1. fetch.step = "idle" /\ Mounted(id).values = list.rows[id]
  BY NewAssumption, MountedResult, Steps DEF Inv
<1>2. CASE id \in Unanswered
  BY <1>2, UnansweredIs DEF Inv, DeletionsStay
<1>3. CASE id \notin Unanswered
  BY <1>1, <1>3 DEF Inv, Shapes, ReadsAgree, Agrees
<1> QED
  BY <1>2, <1>3

\* Opening and closing the form.
LEMMA ModalInv ==
    ASSUME Inv, NEW open \in BOOLEAN, NEW id \in Ids \cup {New}, Show(open, id),
           ~open => id = New,
           id # New => list.status = "success" /\ Listed(list.rows, id),
           UNCHANGED <<rows, list, fetch, save, deletion, hidden, unread, writes>>
    PROVE  Inv'
<1>1. /\ isModalOpen' = open /\ beingEdited' = id
      /\ form' \in Forms \cup {Unmounted}
      /\ open => form' # Unmounted
      /\ form' # Unmounted => /\ form'.key = id /\ form'.origin = id
                              /\ form' = Mounted(id) \/ form' = form
  BY ShowResult DEF Inv
<1>2. Shapes'
  BY <1>1 DEF Inv, Shapes
<1>3. FormsMatch'
  BY <1>1 DEF Inv, FormsMatch
<1>4. ReadsAgree' /\ DeletionsStay' /\ SaveFresh'
  BY DEF Inv, ReadsAgree, DeletionsStay, SaveFresh, Agrees, Unanswered
<1>5. FormFresh'
  <2> SUFFICES ASSUME form' # Unmounted, form'.origin \in Ids \ hidden, form'.settled
               PROVE  \/ rows[form'.origin] = Deleted
                      \/ Agrees(form, form.origin)'
                      \/ save.step = "succeeded" /\ save.id = form'.origin
    BY DEF FormFresh
  <2>1. id \in Ids \ hidden /\ id # New /\ form'.origin = id
    BY <1>1, NewAssumption
  <2>2. CASE form' = Mounted(id)
    <3>1. \/ rows[id] = Deleted
          \/ Agrees(Mounted(id), id)
          \/ save.step = "succeeded" /\ save.id = id
      BY <2>1, <2>2, MountedFresh
    <3> QED
      BY <2>1, <2>2, <3>1 DEF Agrees
  <2>3. CASE form' = form
    BY <2>3 DEF Inv, FormFresh, Agrees
  <2> QED
    BY <1>1, <2>2, <2>3
<1> QED
  BY <1>2, <1>3, <1>4, <1>5 DEF Inv

LEMMA UnmountInv ==
    ASSUME Inv, Unmount
    PROVE  Inv'
<1>1. /\ form' = Unmounted /\ ~isModalOpen
      /\ UNCHANGED <<rows, list, fetch, beingEdited, isModalOpen, save, deletion,
                     hidden, unread, writes>>
  BY DEF Unmount
<1>2. Shapes' /\ FormsMatch' /\ FormFresh'
  BY <1>1 DEF Inv, Shapes, FormsMatch, FormFresh
<1>3. ReadsAgree' /\ DeletionsStay' /\ SaveFresh'
  BY <1>1 DEF Inv, ReadsAgree, DeletionsStay, SaveFresh, Agrees, Unanswered
<1> QED
  BY <1>2, <1>3 DEF Inv

LEMMA TypeInv ==
    ASSUME Inv, NEW f \in Fields, Type(f)
    PROVE  Inv'
<1>1. /\ form' = [form EXCEPT !.values[f] = 1 - form.values[f],
                              !.touched = form.touched \cup {f}]
      /\ isModalOpen
      /\ UNCHANGED <<rows, list, fetch, beingEdited, isModalOpen, save, deletion,
                     hidden, unread, writes>>
  BY DEF Type
<1>2. form \in Forms /\ form.values \in Row /\ form.touched \in SUBSET Fields
  BY <1>1 DEF Inv, FormsMatch, Shapes, Forms
<1> DEFINE typed == [form.values EXCEPT ![f] = 1 - form.values[f]]
<1>3. form' = [form EXCEPT !.values = typed, !.touched = form.touched \cup {f}]
  BY <1>1
<1>4. /\ typed \in Row
      /\ \A field \in Fields \ {f} : typed[field] = form.values[field]
  BY <1>2 DEF Row
<1> HIDE DEF typed
<1>5. /\ form' \in Forms
      /\ form'.key = form.key /\ form'.origin = form.origin /\ form'.settled = form.settled
      /\ form'.values = typed /\ form'.touched = form.touched \cup {f}
  BY <1>2, <1>3, <1>4 DEF Forms
<1>6. form # Unmounted
  BY <1>1 DEF Inv, FormsMatch
<1>7. form' # Unmounted
  BY <1>5 DEF Forms, Unmounted
<1>8. Shapes' /\ FormsMatch'
  BY <1>1, <1>5, <1>6, <1>7 DEF Inv, Shapes, FormsMatch
<1>9. ReadsAgree' /\ DeletionsStay' /\ SaveFresh'
  BY <1>1 DEF Inv, ReadsAgree, DeletionsStay, SaveFresh, Agrees, Unanswered
<1>10. FormFresh'
  BY <1>1, <1>4, <1>5, <1>6 DEF Inv, FormFresh, Agrees
<1> QED
  BY <1>8, <1>9, <1>10 DEF Inv

\* A submit takes the form as it is.
LEMMA SubmitInv ==
    ASSUME Inv, HandleSubmit
    PROVE  Inv'
<1>1. /\ isModalOpen /\ save = NoMutation
      /\ save' = [step |-> "sent", id |-> beingEdited, form |-> form]
      /\ UNCHANGED <<rows, list, fetch, beingEdited, isModalOpen, form, deletion, hidden, unread, writes>>
  BY DEF HandleSubmit, screen
<1>2. /\ form \in Forms /\ form # Unmounted
      /\ form.key = beingEdited /\ form.origin = beingEdited
      /\ beingEdited \in Ids \cup {New}
  BY <1>1 DEF Inv, FormsMatch, Shapes
<1>3. /\ save'.step = "sent" /\ save'.id = beingEdited /\ save'.form = form
      /\ save.step = "idle"
  BY <1>1 DEF NoMutation
<1>4. Shapes' /\ FormsMatch'
  <2>1. save' \in [step : {"sent"}, id : Ids \cup {New}, form : Forms]
    BY <1>1, <1>2
  <2>2. Shapes'
    BY <1>1, <2>1 DEF Inv, Shapes
  <2>3. FormsMatch'
    BY <1>1, <1>2, <1>3 DEF Inv, FormsMatch
  <2> QED
    BY <2>2, <2>3
<1>5. \A id : id \in Unanswered <=> id \in Unanswered'
  BY <1>1, <1>3 DEF Unanswered
<1>6. ReadsAgree' /\ DeletionsStay'
  BY <1>1, <1>5 DEF Inv, ReadsAgree, DeletionsStay
<1>7. FormFresh' /\ SaveFresh'
  BY <1>1, <1>2, <1>3 DEF Inv, FormFresh, SaveFresh, Agrees
<1> QED
  BY <1>4, <1>6, <1>7 DEF Inv

\* A write of another administrator, a save or a deletion: the row that changes is one
\* the console will have to read again, or one that it cannot know of.
LEMMA WriteInv ==
    ASSUME Inv, NEW id \in Ids, NEW row \in Row \cup {Deleted}, Write(id, row),
           UNCHANGED <<list, fetch, beingEdited, isModalOpen, form>>,
           hidden \subseteq hidden', hidden' \subseteq Ids,
           unread \subseteq unread', unread' \subseteq hidden',
           id \in unread' \cup Unanswered', Unanswered \subseteq Unanswered',
           save' \in {NoMutation, save} \cup [step : {"succeeded"}, id : {id}],
           deletion' \in {NoMutation, deletion} \cup [step : {"succeeded"}, id : {id}],
           row # Deleted => rows[id] # Deleted,
           deletion'.step = "succeeded" /\ deletion' # deletion => row = Deleted,
           save' = save => id \in hidden' \/ row = Deleted,
           save' # save => id \in hidden' \/ save'.step = "succeeded"
    PROVE  Inv'
<1>1. /\ rows' = [rows EXCEPT ![id] = row] /\ writes' \in 0 .. MaxWrites
  BY MaxWritesAssumption DEF Write, Inv, Shapes
<1>2. /\ rows' \in Table
      /\ \A i \in Ids : rows'[i] = IF i = id THEN row ELSE rows[i]
      /\ \A i \in Ids : rows[i] = Deleted => rows'[i] = Deleted
  BY <1>1 DEF Inv, Shapes, Table
<1>3. Shapes'
  BY <1>1, <1>2 DEF Inv, Shapes
<1>4. FormsMatch'
  BY DEF Inv, FormsMatch, NoMutation
<1>5. ReadsAgree'
  BY <1>2 DEF Inv, ReadsAgree
<1>6. DeletionsStay'
  BY <1>2, Steps DEF Inv, DeletionsStay, NoMutation
<1>7. FormFresh'
  <2> SUFFICES ASSUME form # Unmounted, form.origin \in Ids \ hidden', form.settled
               PROVE  \/ rows'[form.origin] = Deleted
                      \/ Agrees(form, form.origin)'
                      \/ save'.step = "succeeded" /\ save'.id = form.origin
    BY DEF FormFresh
  <2>1. CASE form.origin = id
    BY <1>2, <2>1 DEF NoMutation
  <2>2. CASE form.origin # id
    <3>1. rows'[form.origin] = rows[form.origin]
      BY <1>2, <2>2
    <3>2. CASE save.step = "succeeded" /\ save.id = form.origin
      <4>1. form.origin \in Unanswered'
        BY <3>2, UnansweredIs
      <4>2. \/ save'.step = "succeeded" /\ save'.id = form.origin
            \/ deletion'.step = "succeeded" /\ deletion'.id = form.origin
        BY <4>1 DEF Unanswered
      <4> QED
        BY <1>6, <4>2 DEF DeletionsStay
    <3> QED
      BY <3>1, <3>2 DEF Inv, FormFresh, Agrees
  <2> QED
    BY <2>1, <2>2
<1>8. SaveFresh'
  BY <1>2 DEF Inv, SaveFresh, Agrees, NoMutation
<1> QED
  BY <1>3, <1>4, <1>5, <1>6, <1>7, <1>8 DEF Inv

LEMMA OtherWritesInv ==
    ASSUME Inv, NEW id \in Ids, OtherWrites(id)
    PROVE  Inv'
<1>1. PICK row \in Row \cup {Deleted} : rows[id] # Deleted /\ Write(id, row)
  BY DEF OtherWrites
<1>2. /\ hidden' = hidden \cup {id} /\ hidden' \subseteq Ids
      /\ unread' = unread \cup {id} /\ unread' \subseteq hidden'
      /\ UNCHANGED <<list, fetch, beingEdited, isModalOpen, form, save, deletion>>
  BY DEF OtherWrites, Unannounced, screen, Inv, Shapes
<1>3. Unanswered' = Unanswered
  BY <1>2 DEF Unanswered
<1> QED
  BY <1>1, <1>2, <1>3, WriteInv

LEMMA SaveAppliedInv ==
    ASSUME Inv, SaveApplied
    PROVE  Inv'
<1>1. PICK id \in Ids :
         /\ IF save.id = New THEN rows[id] = NoRow ELSE id = save.id /\ Listed(rows, id)
         /\ Write(id, save.form.values)
         /\ \/ save' = [step |-> "succeeded", id |-> id] /\ UNCHANGED <<hidden, unread>>
            \/ save' = NoMutation /\ Unannounced(id)
  BY DEF SaveApplied
<1>2. /\ save.step = "sent"
      /\ UNCHANGED <<list, fetch, beingEdited, isModalOpen, form, deletion>>
  BY DEF SaveApplied, screen
<1>3. save.form.values \in Row
  BY <1>2, Steps DEF Inv, Forms
<1>4. rows[id] # Deleted
  BY <1>1, NoRowAssumption DEF Listed, Row
<1>5. /\ save' \in {NoMutation} \cup [step : {"succeeded"}, id : {id}]
      /\ save' # save
      /\ id \in unread' \/ save'.step = "succeeded"
      /\ hidden \subseteq hidden' /\ hidden' \subseteq Ids
      /\ unread \subseteq unread' /\ unread' \subseteq hidden'
  BY <1>1, <1>2 DEF Unannounced, NoMutation, Inv, Shapes
<1>6. id \in unread' \cup Unanswered' /\ Unanswered \subseteq Unanswered'
  <2>1. \A i : i \in Unanswered' <=> \/ save'.step = "succeeded" /\ save'.id = i
                                     \/ deletion'.step = "succeeded" /\ deletion'.id = i
    BY DEF Unanswered
  <2>2. \A i : i \in Unanswered <=> \/ save.step = "succeeded" /\ save.id = i
                                    \/ deletion.step = "succeeded" /\ deletion.id = i
    BY UnansweredIs
  <2>3. save'.step = "succeeded" => save'.id = id
    BY <1>5 DEF NoMutation
  <2> QED
    BY <1>2, <1>5, <2>1, <2>2, <2>3
<1> QED
  BY <1>1, <1>2, <1>3, <1>4, <1>5, <1>6, WriteInv

LEMMA DeleteAppliedInv ==
    ASSUME Inv, DeleteApplied
    PROVE  Inv'
<1> DEFINE id == deletion.id
<1>1. /\ deletion.step = "sent" /\ Write(id, Deleted)
      /\ \/ deletion' = [deletion EXCEPT !.step = "succeeded"] /\ UNCHANGED <<hidden, unread>>
         \/ deletion' = NoMutation /\ Unannounced(id)
      /\ UNCHANGED <<list, fetch, beingEdited, isModalOpen, form, save>>
  BY DEF DeleteApplied, screen
<1>2. deletion \in [step : {"sent"}, id : {id}] /\ id \in Ids
  BY <1>1 DEF Inv, Shapes, NoMutation
<1>2a. [deletion EXCEPT !.step = "succeeded"] \in [step : {"succeeded"}, id : {id}]
  BY <1>2
<1> HIDE DEF id
<1>3. /\ deletion' \in {NoMutation} \cup [step : {"succeeded"}, id : {id}]
      /\ \/ id \in unread'
         \/ deletion'.step = "succeeded" /\ deletion'.id = id
      /\ hidden \subseteq hidden' /\ hidden' \subseteq Ids
      /\ unread \subseteq unread' /\ unread' \subseteq hidden'
  BY <1>1, <1>2, <1>2a DEF Unannounced, NoMutation, Inv, Shapes
<1>4. id \in unread' \cup Unanswered' /\ Unanswered \subseteq Unanswered'
  <2>1. \A i : i \in Unanswered' <=> \/ save'.step = "succeeded" /\ save'.id = i
                                     \/ deletion'.step = "succeeded" /\ deletion'.id = i
    BY DEF Unanswered
  <2>2. \A i : i \in Unanswered <=> \/ save.step = "succeeded" /\ save.id = i
                                    \/ deletion.step = "succeeded" /\ deletion.id = i
    BY UnansweredIs
  <2> QED
    BY <1>1, <1>3, <2>1, <2>2
<1> QED
  BY <1>1, <1>2, <1>3, <1>4, WriteInv

\* A mutation is sent, or refused: nothing is written.
LEMMA RequestInv ==
    ASSUME Inv, SaveRefused \/ DeleteRefused \/ \E id \in Ids : ConfirmDelete(id)
    PROVE  Inv'
<1>0. UNCHANGED <<rows, list, fetch, beingEdited, isModalOpen, form, hidden, unread, writes>>
  BY DEF SaveRefused, DeleteRefused, ConfirmDelete, screen
<1>1. /\ \/ save' = save
         \/ save.step = "sent" /\ save' = NoMutation
      /\ \/ deletion' = deletion
         \/ deletion.step = "sent" /\ deletion' = NoMutation
         \/ deletion = NoMutation /\ \E id \in Ids : deletion' = [step |-> "sent", id |-> id]
  BY DEF SaveRefused, DeleteRefused, ConfirmDelete
<1>2. /\ save'.step = "succeeded" <=> save.step = "succeeded"
      /\ save.step = "succeeded" => save' = save
      /\ save'.step = "sent" => save' = save
  BY <1>1 DEF NoMutation
<1>3. /\ deletion'.step = "succeeded" <=> deletion.step = "succeeded"
      /\ deletion.step = "succeeded" => deletion' = deletion
  BY <1>1 DEF NoMutation
<1>4. save' \in {NoMutation, save} /\ deletion' \in {NoMutation, deletion} \cup [step : {"sent"}, id : Ids]
  BY <1>1
<1>5. Shapes'
  BY <1>0, <1>4 DEF Inv, Shapes
<1>6. FormsMatch' /\ SaveFresh' /\ FormFresh'
  BY <1>0, <1>2 DEF Inv, FormsMatch, SaveFresh, FormFresh, Agrees
<1>7. ReadsAgree' /\ DeletionsStay'
  <2>1. \A i : i \in Unanswered' <=> \/ save'.step = "succeeded" /\ save'.id = i
                                     \/ deletion'.step = "succeeded" /\ deletion'.id = i
    BY DEF Unanswered
  <2>2. \A i : i \in Unanswered <=> i \in Unanswered'
    BY <1>2, <1>3, <2>1, UnansweredIs
  <2> QED
    BY <1>0, <1>3, <2>2 DEF Inv, ReadsAgree, DeletionsStay
<1> QED
  BY <1>5, <1>6, <1>7 DEF Inv

\* Announcing a change has the list read again, or cannot.
LEMMA InvalidateResult ==
    ASSUME Inv, NEW id \in Ids, InvalidateQueries(id), UNCHANGED <<rows, list>>,
           Unanswered \subseteq Unanswered' \cup {id}
    PROVE  /\ fetch' \in [step : {"idle", "sent"}] \cup [step : {"answered"}, rows : Table]
           /\ hidden' \subseteq Ids /\ hidden \subseteq hidden' /\ unread' \subseteq hidden'
           /\ ReadsAgree'
<1>1. CASE list.status = "pending"
  <2>1. hidden' = hidden \cup {id} /\ unread' = unread \cup {id} /\ fetch' = fetch
    BY <1>1 DEF InvalidateQueries, Unannounced
  <2> QED
    BY <1>1, <2>1 DEF Inv, Shapes, ReadsAgree
<1>2. CASE list.status # "pending"
  <2>1. hidden' = hidden /\ unread' = unread /\ fetch' = [step |-> "sent"]
    BY <1>2 DEF InvalidateQueries
  <2> QED
    BY <2>1 DEF Inv, Shapes, ReadsAgree
<1> QED
  BY <1>1, <1>2

LEMMA SaveOnSuccessInv ==
    ASSUME Inv, SaveOnSuccess
    PROVE  Inv'
<1>1. /\ save.step = "succeeded" /\ save.id \in Ids
      /\ Show(FALSE, New) /\ InvalidateQueries(save.id)
      /\ save' = NoMutation /\ UNCHANGED <<rows, list, deletion, writes>>
  BY Steps DEF SaveOnSuccess, Inv
<1>2. /\ isModalOpen' = FALSE /\ beingEdited' = New
      /\ form' \in Forms \cup {Unmounted}
      /\ form' # Unmounted => form'.key = New /\ form'.origin = New
  BY <1>1, ShowResult DEF Inv
<1>3. Unanswered \subseteq Unanswered' \cup {save.id}
  BY <1>1 DEF Unanswered
<1>4. /\ fetch' \in [step : {"idle", "sent"}] \cup [step : {"answered"}, rows : Table]
      /\ hidden' \subseteq Ids /\ unread' \subseteq hidden'
      /\ ReadsAgree'
  BY <1>1, <1>3, InvalidateResult
<1>5. save'.step = "idle"
  BY <1>1 DEF NoMutation
<1>6. Shapes'
  BY <1>1, <1>2, <1>4 DEF Inv, Shapes
<1>7. FormsMatch' /\ DeletionsStay' /\ FormFresh' /\ SaveFresh'
  BY <1>1, <1>2, <1>5, NewAssumption
     DEF Inv, FormsMatch, DeletionsStay, FormFresh, SaveFresh
<1> QED
  BY <1>4, <1>6, <1>7 DEF Inv

LEMMA DeleteOnSuccessInv ==
    ASSUME Inv, DeleteOnSuccess
    PROVE  Inv'
<1>1. /\ deletion.step = "succeeded" /\ deletion.id \in Ids
      /\ InvalidateQueries(deletion.id)
      /\ deletion' = NoMutation
      /\ UNCHANGED <<rows, list, beingEdited, isModalOpen, form, save, writes>>
  BY Steps DEF DeleteOnSuccess, screen, Inv, NoMutation
<1>2. Unanswered \subseteq Unanswered' \cup {deletion.id}
  BY <1>1 DEF Unanswered
<1>3. /\ fetch' \in [step : {"idle", "sent"}] \cup [step : {"answered"}, rows : Table]
      /\ hidden' \subseteq Ids /\ hidden \subseteq hidden' /\ unread' \subseteq hidden'
      /\ ReadsAgree'
  BY <1>1, <1>2, InvalidateResult
<1>4. Shapes'
  BY <1>1, <1>3 DEF Inv, Shapes
<1>5. FormsMatch' /\ DeletionsStay'
  BY <1>1 DEF Inv, FormsMatch, DeletionsStay, NoMutation
<1>6. FormFresh' /\ SaveFresh'
  BY <1>1, <1>3 DEF Inv, FormFresh, SaveFresh, Agrees
<1> QED
  BY <1>3, <1>4, <1>5, <1>6 DEF Inv

LEMMA NextInv == Inv /\ [Next]_vars => Inv'
<1> SUFFICES ASSUME Inv, [Next]_vars PROVE Inv'
  OBVIOUS
<1>1. CASE FetchRead \/ FetchSucceeds \/ FetchFails \/ Refetch
  BY <1>1, FetchInv
<1>2. CASE OpenCreateModal
  BY <1>2, ModalInv DEF OpenCreateModal
<1>3. CASE CloseModal
  BY <1>3, ModalInv DEF CloseModal
<1>4. ASSUME NEW id \in Ids, OpenEditModal(id) PROVE Inv'
  BY <1>4, ModalInv DEF OpenEditModal
<1>5. CASE Unmount
  BY <1>5, UnmountInv
<1>6. ASSUME NEW f \in Fields, Type(f) PROVE Inv'
  BY <1>6, TypeInv
<1>7. CASE HandleSubmit
  BY <1>7, SubmitInv
<1>8. CASE SaveApplied
  BY <1>8, SaveAppliedInv
<1>9. CASE SaveOnSuccess
  BY <1>9, SaveOnSuccessInv
<1>10. CASE DeleteApplied
  BY <1>10, DeleteAppliedInv
<1>11. CASE DeleteOnSuccess
  BY <1>11, DeleteOnSuccessInv
<1>12. CASE SaveRefused \/ DeleteRefused \/ \E id \in Ids : ConfirmDelete(id)
  BY <1>12, RequestInv
<1>13. ASSUME NEW id \in Ids, OtherWrites(id) PROVE Inv'
  BY <1>13, OtherWritesInv
<1>14. CASE UNCHANGED vars
  <2>1. Unanswered' = Unanswered
    BY <1>14 DEF vars, Unanswered
  <2> QED
    BY <1>14, <2>1 DEF vars, screen, Inv, Shapes, FormsMatch, ReadsAgree, DeletionsStay,
                       FormFresh, SaveFresh, Agrees
<1> QED
  BY <1>1, <1>2, <1>3, <1>4, <1>5, <1>6, <1>7, <1>8, <1>9, <1>10, <1>11, <1>12, <1>13, <1>14
     DEF Next

-----------------------------------------------------------------------------
\* The invariant holds in every reachable state.
THEOREM ScreenInvariant == Spec => []Inv
BY InitInv, NextInv, PTL DEF Spec

\* Every variable keeps its type, an open modal has a form, and a mounted form is the
\* one of the row that is being edited.
THEOREM ScreenTypeOK == Spec => []TypeOK
<1>1. Inv => TypeOK
  <2> SUFFICES ASSUME Inv PROVE TypeOK
    OBVIOUS
  <2>1. Shapes /\ FormsMatch
    BY DEF Inv
  <2>2. list.status \in {"pending", "success", "error"} /\ fetch.step \in {"idle", "sent", "answered"}
    BY <2>1 DEF Shapes
  <2>3. save.step \in {"idle", "sent", "succeeded"} /\ deletion.step \in {"idle", "sent", "succeeded"}
    BY <2>1 DEF Shapes, NoMutation
  <2>4. form # Unmounted => form.values \in Row
    BY <2>1 DEF Shapes, Forms
  <2> QED
    BY <2>1, <2>2, <2>3, <2>4, Steps DEF TypeOK, Shapes, FormsMatch
<1> QED
  BY <1>1, ScreenInvariant, PTL

\* A list at rest shows every row as the table has it, however saves, deletions and reads
\* of the list overlap, but for what changed unannounced since it was read.
THEOREM ScreenListShowsAnnounced == Spec => []ListShowsAnnounced
<1>1. Inv => ListShowsAnnounced
  BY Steps DEF Inv, ReadsAgree, ListShowsAnnounced
<1> QED
  BY <1>1, ScreenInvariant, PTL

\* What a form sends belongs to the row it was opened for, whatever a late answer does
\* to the modal in between.
THEOREM ScreenSavesComeFromOwnForm == Spec => []SavesComeFromOwnForm
<1>1. Inv => SavesComeFromOwnForm
  BY DEF Inv, FormsMatch, SavesComeFromOwnForm
<1> QED
  BY <1>1, ScreenInvariant, PTL

\* A save of a form that was opened over a list at rest leaves the fields alone that
\* were not touched, unless somebody else has written the row.
THEOREM ScreenSavesKeepTheRest == Spec => SavesKeepTheRest
<1> DEFINE Kept(id) ==
             /\ save.step = "sent" /\ save'.step # "sent" /\ save.id = id
             /\ save.form.settled /\ id \notin hidden /\ rows'[id] # rows[id]
             => \A f \in Fields \ save.form.touched : rows'[id][f] = rows[id][f]
<1>1. Inv /\ [Next]_vars => [\A id \in Ids : Kept(id)]_vars
  <2> SUFFICES ASSUME Inv, [Next]_vars, NEW id \in Ids,
                      save.step = "sent", save'.step # "sent", save.id = id,
                      save.form.settled, id \notin hidden, rows'[id] # rows[id],
                      NEW f \in Fields \ save.form.touched
               PROVE  rows'[id][f] = rows[id][f]
    OBVIOUS
  <2>1. SaveApplied
    BY DEF Next, vars, screen, FetchRead, FetchSucceeds, FetchFails, Refetch, OpenCreateModal,
           OpenEditModal, CloseModal, Unmount, Type, HandleSubmit, SaveRefused, SaveOnSuccess,
           ConfirmDelete, DeleteApplied, DeleteRefused, DeleteOnSuccess, OtherWrites
  <2>2. PICK i \in Ids : /\ IF save.id = New THEN rows[i] = NoRow
                                             ELSE i = save.id /\ Listed(rows, i)
                         /\ Write(i, save.form.values)
    BY <2>1 DEF SaveApplied
  <2>3. i = id /\ Listed(rows, id) /\ rows' = [rows EXCEPT ![id] = save.form.values]
    BY <2>2, NewAssumption DEF Write
  <2>4. rows'[id] = save.form.values /\ rows[id] # Deleted
    BY <2>3, NoRowAssumption DEF Listed, Row, Inv, Shapes, Table
  <2>5. Agrees(save.form, id)
    BY <2>4 DEF Inv, SaveFresh
  <2> QED
    BY <2>4, <2>5 DEF Agrees
<1> QED
  BY <1>1, ScreenInvariant, PTL DEF Spec, SavesKeepTheRest
=============================================================================
