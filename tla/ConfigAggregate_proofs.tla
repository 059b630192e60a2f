----------------------- MODULE ConfigAggregate_proofs -----------------------
(***************************************************************************)
(* What is stored of a configuration, and what every reader of it can rely *)
(* on, for any number of concurrent requests and of tables.  Two arguments: *)
(*                                                                         *)
(* One transaction at a time has written the row of configs (LockOK), so   *)
(* what it has deleted is still all there is when it commits; and it       *)
(* commits between two tables (WriteOK), never within one.                 *)
(*                                                                         *)
(* Rows of one aggregate carry ids no other aggregate uses, and what is    *)
(* written never changes (written only grows).  So the tables a reader has *)
(* chosen fix the aggregate, and the keys and columns found under their    *)
(* ids are its own.                                                        *)
(***************************************************************************)
EXTENDS ConfigAggregate, SequenceTheorems, TLAPS

\* TableRowsOf, in any history w.
RowsIn(w, version) ==
    {[id |-> TableId(version, name), version |-> version] : name \in w[version]}

Complete(row, version) ==
    [id |-> row.id, version |-> version, keys |-> {version}, columns |-> {version}]

\* A read in progress is confined to the tables of one aggregate: each of them is
\* still pending, at hand, or built complete.
ReadsFrom(q, w, version) ==
    /\ q.pending \subseteq RowsIn(w, version)
    /\ q.step = "keys" =>
         q.built = {Complete(row, version) : row \in RowsIn(w, version) \ q.pending}
    /\ q.step = "columns" =>
         /\ q.table \in RowsIn(w, version) \ q.pending
         /\ q.keys \subseteq {version}
         /\ q.built = {Complete(row, version) :
                          row \in RowsIn(w, version) \ (q.pending \cup {q.table})}

SaveSteps == {"delete", "insert", "insert keys", "insert columns"}

\* A transaction inserts tables of its aggregate, each one with its keys and its columns
\* before the next.
WriteOK(q, w) ==
    /\ q.version \in 1 .. Len(w)
    /\ q.tables \subseteq RowsIn(w, q.version)
    /\ q.step = "delete" => q.tables = {}
    /\ q.step \in {"delete", "insert"} => q.keys = q.tables /\ q.columns = q.tables
    /\ q.step = "insert keys" =>
         /\ q.table \in q.tables
         /\ q.keys = q.tables \ {q.table} /\ q.columns = q.tables \ {q.table}
    /\ q.step = "insert columns" =>
         /\ q.table \in q.tables
         /\ q.keys = q.tables /\ q.columns = q.tables \ {q.table}

RequestOK(q, w) ==
    /\ q \in ReadRequest \cup SaveRequest \cup {Idle, Updating}
    /\ q.step \in {"config", "tables"} => q.built = {}
    /\ q.step \in {"keys", "columns"} => \E version \in 1 .. Len(w) : ReadsFrom(q, w, version)
    /\ q.step \in SaveSteps => WriteOK(q, w)

AnswerOK(a, w) ==
    /\ a \in FoundAnswer \cup {Done, NotFound, Invalid, NoAnswer}
    /\ a.status = 200 => \E version \in 1 .. Len(w) :
         a.tables = {Complete(row, version) : row \in RowsIn(w, version)}

StoreOK ==
    /\ written \in Seq(SUBSET Names \ {{}}) /\ Len(written) <= MaxVersions
    /\ configs \in 1 .. Len(written) \cup {None}
    /\ PersistedIsWhole
    /\ lock \in Requests \cup {None}

RequestsOK ==
    /\ request \in [Requests -> ReadRequest \cup SaveRequest \cup {Idle, Updating}]
    /\ answer \in [Requests -> FoundAnswer \cup {Done, NotFound, Invalid, NoAnswer}]
    /\ \A r \in Requests : RequestOK(request[r], written) /\ AnswerOK(answer[r], written)

\* Only the transaction that has the lock writes, and what it has deleted is what is
\* stored.
WritesAlone(r, q) ==
    q.step \in SaveSteps =>
        /\ lock = r
        /\ q.step # "delete" => q.deleted = config_tables

LockOK == \A r \in Requests : WritesAlone(r, request[r])

Inv == StoreOK /\ RequestsOK /\ LockOK

-----------------------------------------------------------------------------
\* The rows of an aggregate are rows of its tables.
LEMMA RowsType ==
    ASSUME NEW w \in Seq(SUBSET Names \ {{}}), NEW version \in 1 .. Len(w), Len(w) <= MaxVersions
    PROVE  RowsIn(w, version) \in SUBSET TableRow
<1>1. w[version] \subseteq Names
  OBVIOUS
<1>2. version \in Versions
  BY MaxVersionsAssumption DEF Versions
<1> QED BY <1>1, <1>2 DEF RowsIn, TableRow, TableId

\* A row of one aggregate never has the id of a row of another one.
LEMMA IdsTellAggregatesApart ==
    ASSUME NEW w, NEW version, NEW other, NEW row \in RowsIn(w, version),
           NEW found \in RowsIn(w, other), found.id = row.id
    PROVE  found.version = version
BY DEF RowsIn, TableId

\* What was true of a request or an answer stays true when another aggregate is written.
LEMMA WrittenOnlyGrows ==
    ASSUME NEW w \in Seq(SUBSET Names \ {{}}), NEW names \in SUBSET Names \ {{}}
    PROVE  /\ \A q : RequestOK(q, w) => RequestOK(q, Append(w, names))
           /\ \A a : AnswerOK(a, w) => AnswerOK(a, Append(w, names))
<1> DEFINE grown == Append(w, names)
<1>1. /\ Len(grown) = Len(w) + 1 /\ Len(w) \in Nat
      /\ \A version \in 1 .. Len(w) : grown[version] = w[version]
  OBVIOUS
<1>2. \A version \in 1 .. Len(w) : RowsIn(grown, version) = RowsIn(w, version)
  BY <1>1 DEF RowsIn
<1>3. 1 .. Len(w) \subseteq 1 .. Len(grown)
  BY <1>1
<1> HIDE DEF grown
<1>4. ASSUME NEW q, RequestOK(q, w) PROVE RequestOK(q, grown)
  <2>1. \A version \in 1 .. Len(w) : ReadsFrom(q, w, version) => ReadsFrom(q, grown, version)
    BY <1>2 DEF ReadsFrom
  <2>2. WriteOK(q, w) => WriteOK(q, grown)
    BY <1>2, <1>3 DEF WriteOK
  <2> QED BY <1>3, <1>4, <2>1, <2>2 DEF RequestOK
<1>5. ASSUME NEW a, AnswerOK(a, w) PROVE AnswerOK(a, grown)
  BY <1>2, <1>3, <1>5 DEF AnswerOK
<1> QED BY <1>4, <1>5 DEF grown

\* A step that writes no aggregate and moves one request keeps the invariant if the
\* request and its answer are fine afterwards.
LEMMA OneRequestMoves ==
    ASSUME Inv, NEW r \in Requests, NEW q, NEW a, RequestOK(q, written), AnswerOK(a, written),
           request' = [request EXCEPT ![r] = q], answer' = [answer EXCEPT ![r] = a],
           UNCHANGED written
    PROVE  RequestsOK'
<1>1. /\ request' \in [Requests -> ReadRequest \cup SaveRequest \cup {Idle, Updating}]
      /\ answer' \in [Requests -> FoundAnswer \cup {Done, NotFound, Invalid, NoAnswer}]
  BY DEF Inv, RequestsOK, RequestOK, AnswerOK
<1>2. ASSUME NEW s \in Requests
      PROVE  RequestOK(request'[s], written') /\ AnswerOK(answer'[s], written')
  BY DEF Inv, RequestsOK
<1> QED BY <1>1, <1>2 DEF RequestsOK

\* Requests that do not write leave the lock to the one that does.
LEMMA LockKept ==
    ASSUME Inv, NEW r \in Requests, NEW q, request' = [request EXCEPT ![r] = q],
           WritesAlone(r, q),
           UNCHANGED <<config_tables, lock>>
    PROVE  LockOK'
<1>1. ASSUME NEW s \in Requests
      PROVE  WritesAlone(s, request'[s])
  BY DEF Inv, RequestsOK, LockOK
<1> QED BY <1>1 DEF LockOK, WritesAlone

LEMMA ContinueKeeps ==
    ASSUME Inv, NEW r \in Requests, NEW q, RequestOK(q, written), Continue(r, q),
           WritesAlone(r, q),
           UNCHANGED <<written, stored, lock>>
    PROVE  Inv'
<1>1. StoreOK'
  BY DEF Inv, StoreOK, stored, PersistedIsWhole, TableRowsOf
<1>2. AnswerOK(answer[r], written) /\ answer' = [answer EXCEPT ![r] = answer[r]]
  BY DEF Continue, Inv, RequestsOK
<1>3. RequestsOK'
  BY <1>2, OneRequestMoves DEF Continue
<1>4. LockOK'
  BY LockKept DEF Continue, stored
<1> QED BY <1>1, <1>3, <1>4 DEF Inv

LEMMA AnswerKeeps ==
    ASSUME Inv, NEW r \in Requests, NEW a, AnswerOK(a, written), Answer(r, a),
           UNCHANGED <<written, stored, lock>>
    PROVE  Inv'
<1>1. StoreOK'
  BY DEF Inv, StoreOK, stored, PersistedIsWhole, TableRowsOf
<1>2. RequestOK(Idle, written)
  BY DEF RequestOK, Idle, SaveSteps
<1>3. RequestsOK'
  BY <1>2, OneRequestMoves DEF Answer
<1>4. LockOK'
  BY LockKept DEF Answer, stored, Idle, SaveSteps, WritesAlone
<1> QED BY <1>1, <1>3, <1>4 DEF Inv

\* Answers without an aggregate are fine in every state.
LEMMA PlainAnswers ==
    ASSUME NEW w, NEW a \in {Done, NotFound, Invalid, NoAnswer}
    PROVE  AnswerOK(a, w)
BY DEF AnswerOK, Done, NotFound, Invalid, NoAnswer

-----------------------------------------------------------------------------
LEMMA InitOK == Init => Inv
<1> SUFFICES ASSUME Init PROVE Inv
  OBVIOUS
<1>1. StoreOK
  BY MaxVersionsAssumption DEF Init, StoreOK, PersistedIsWhole
<1>2. RequestOK(Idle, written) /\ AnswerOK(NoAnswer, written)
  BY PlainAnswers DEF RequestOK, Idle, SaveSteps
<1>3. RequestsOK
  BY <1>2 DEF Init, RequestsOK
<1>4. LockOK
  BY DEF Init, LockOK, WritesAlone, Idle, SaveSteps
<1> QED BY <1>1, <1>3, <1>4 DEF Inv

\* A read in progress; what it goes on to do is no transaction that writes.
ReadSteps == {"config", "tables", "keys", "columns"}

LEMMA StepsOf ==
    /\ \A q \in ReadRequest : q.step \in ReadSteps /\ q.step \notin SaveSteps
    /\ \A q \in SaveRequest : q.step \in SaveSteps /\ q.step \notin ReadSteps
    /\ Idle.step \notin ReadSteps \cup SaveSteps
    /\ Updating.step \notin ReadSteps \cup SaveSteps
<1>1. \A q \in ReadRequest : q.step \in ReadSteps
  BY DEF ReadRequest, ReadSteps
<1>2. \A q \in SaveRequest : q.step \in SaveSteps
  BY DEF SaveRequest, SaveSteps
<1>3. ReadSteps \cap SaveSteps = {}
  BY DEF ReadSteps, SaveSteps
<1>4. Idle.step \notin ReadSteps \cup SaveSteps
  BY DEF Idle, ReadSteps, SaveSteps
<1>5. Updating.step \notin ReadSteps \cup SaveSteps
  BY DEF Updating, ReadSteps, SaveSteps
<1> QED BY <1>1, <1>2, <1>3, <1>4, <1>5

LEMMA Reader ==
    ASSUME Inv, NEW r \in Requests, request[r].step \in ReadSteps
    PROVE  request[r] \in ReadRequest /\ RequestOK(request[r], written)
<1>1. request[r] \notin SaveRequest /\ request[r] # Idle /\ request[r] # Updating
  BY StepsOf
<1> QED BY <1>1 DEF Inv, RequestsOK

LEMMA ReadOK ==
    ASSUME NEW q, NEW r, q.step \in ReadSteps \cup {"idle", "update"}
    PROVE  q.step \notin SaveSteps /\ WritesAlone(r, q)
BY DEF ReadSteps, SaveSteps, WritesAlone

LEMMA SelectConfigOK ==
    ASSUME Inv, NEW r \in Requests, SelectConfig(r)
    PROVE  Inv'
<1>1. CASE configs = None
  BY <1>1, AnswerKeeps, PlainAnswers DEF SelectConfig
<1>2. CASE configs # None
  <2> DEFINE q == [request[r] EXCEPT !.step = "tables", !.header = configs]
  <2>1. configs \in Versions
    BY <1>2, MaxVersionsAssumption DEF Inv, StoreOK, Versions
  <2>2. request[r] \in ReadRequest
    BY Reader DEF SelectConfig, ReadSteps
  <2>3. q \in ReadRequest /\ q.step = "tables" /\ q.built = request[r].built
    BY <2>1, <2>2 DEF ReadRequest
  <2>4. request[r].built = {}
    BY DEF SelectConfig, Inv, RequestsOK, RequestOK
  <2>5. Continue(r, q) /\ UNCHANGED <<written, stored, lock>>
    BY <1>2 DEF SelectConfig
  <2> HIDE DEF q
  <2>6. q.step \notin SaveSteps /\ WritesAlone(r, q)
    BY <2>3, ReadOK DEF ReadSteps
  <2>7. RequestOK(q, written)
    BY <2>3, <2>4, <2>6 DEF RequestOK
  <2> QED BY <2>5, <2>6, <2>7, ContinueKeeps
<1> QED BY <1>1, <1>2

LEMMA SelectTablesOK ==
    ASSUME Inv, NEW r \in Requests, SelectTables(r)
    PROVE  Inv'
<1>1. CASE config_tables = {}
  BY <1>1, AnswerKeeps, PlainAnswers DEF SelectTables
<1>2. CASE config_tables # {}
  <2> DEFINE q == [request[r] EXCEPT !.step = "keys", !.pending = config_tables]
  <2>1. request[r] \in ReadRequest
    BY Reader DEF SelectTables, ReadSteps
  <2>2. configs \in 1 .. Len(written) /\ config_tables = RowsIn(written, configs)
    BY <1>2 DEF Inv, StoreOK, PersistedIsWhole, TableRowsOf, RowsIn
  <2>3. config_tables \in SUBSET TableRow
    BY <2>2, RowsType DEF Inv, StoreOK
  <2>4. /\ q \in ReadRequest /\ q.step = "keys" /\ q.pending = config_tables
        /\ q.built = request[r].built
    BY <2>1, <2>3 DEF ReadRequest
  <2>5. request[r].built = {}
    BY DEF SelectTables, Inv, RequestsOK, RequestOK
  <2>6. ReadsFrom(q, written, configs)
    BY <2>2, <2>4, <2>5 DEF ReadsFrom
  <2>7. Continue(r, q) /\ UNCHANGED <<written, stored, lock>>
    BY <1>2 DEF SelectTables
  <2> HIDE DEF q
  <2>8. q.step \notin SaveSteps /\ WritesAlone(r, q)
    BY <2>4, ReadOK DEF ReadSteps
  <2>9. RequestOK(q, written)
    BY <2>2, <2>4, <2>6, <2>8 DEF RequestOK
  <2> QED BY <2>7, <2>8, <2>9, ContinueKeeps
<1> QED BY <1>1, <1>2

\* Whatever is stored when keys or columns are selected, those found under the id of a
\* table of an aggregate are of that aggregate.
LEMMA FoundAreItsOwn ==
    ASSUME Inv, NEW version, NEW row \in RowsIn(written, version), NEW rows,
           rows = primary_keys \/ rows = destination_columns
    PROVE  {k.version : k \in {found \in rows : found.id = row.id}} \subseteq {version}
<1>1. rows = {} \/ rows = RowsIn(written, configs)
  BY DEF Inv, StoreOK, PersistedIsWhole, TableRowsOf, RowsIn
<1>2. row.version = version
  BY DEF RowsIn
<1> QED BY <1>1, <1>2, IdsTellAggregatesApart

LEMMA SelectPrimaryKeysOK ==
    ASSUME Inv, NEW r \in Requests, SelectPrimaryKeys(r)
    PROVE  Inv'
<1> DEFINE found(table) == {row.version : row \in {k \in primary_keys : k.id = table.id}}
           next(table) == [request[r] EXCEPT !.step = "columns", !.pending = @ \ {table},
                                             !.table = table, !.keys = found(table)]
<1>1. PICK table \in request[r].pending : Continue(r, next(table))
  BY DEF SelectPrimaryKeys
<1>2. request[r] \in ReadRequest /\ request[r].step = "keys"
  BY Reader DEF SelectPrimaryKeys, ReadSteps
<1>3. PICK version \in 1 .. Len(written) : ReadsFrom(request[r], written, version)
  BY <1>2 DEF Inv, RequestsOK, RequestOK
<1>4. table \in RowsIn(written, version) /\ table \in TableRow
  BY <1>1, <1>2, <1>3 DEF ReadsFrom, ReadRequest
<1>5. found(table) \subseteq {version}
  BY <1>4, FoundAreItsOwn
<1>6. version \in Versions
  BY <1>3, MaxVersionsAssumption DEF Inv, StoreOK, Versions
<1> HIDE DEF found
<1>7. /\ next(table) \in ReadRequest
      /\ next(table).step = "columns"
      /\ next(table).pending = request[r].pending \ {table}
      /\ next(table).table = table
      /\ next(table).keys = found(table)
      /\ next(table).built = request[r].built
  BY <1>2, <1>4, <1>5, <1>6 DEF ReadRequest
<1> HIDE DEF next
<1>8. ReadsFrom(next(table), written, version)
  <2>1. RowsIn(written, version) \ request[r].pending
          = RowsIn(written, version) \ (next(table).pending \cup {next(table).table})
    BY <1>1, <1>7
  <2> QED BY <1>2, <1>3, <1>4, <1>5, <1>7, <2>1 DEF ReadsFrom
<1>9. next(table).step \notin SaveSteps /\ WritesAlone(r, next(table))
  BY <1>7, ReadOK DEF ReadSteps
<1>10. RequestOK(next(table), written)
  BY <1>3, <1>7, <1>8, <1>9 DEF RequestOK
<1> QED BY <1>1, <1>9, <1>10, ContinueKeeps DEF SelectPrimaryKeys

LEMMA SelectDestinationColumnsOK ==
    ASSUME Inv, NEW r \in Requests, SelectDestinationColumns(r)
    PROVE  Inv'
<1> DEFINE read == request[r]
           columns == {row.version : row \in {c \in destination_columns : c.id = read.table.id}}
           last == [id |-> read.table.id, version |-> read.table.version,
                    keys |-> read.keys, columns |-> columns]
           built == read.built \cup {last}
           next == [read EXCEPT !.step = "keys", !.built = built]
<1>1. read \in ReadRequest /\ read.step = "columns"
  BY Reader DEF SelectDestinationColumns, ReadSteps
<1>2. PICK version \in 1 .. Len(written) : ReadsFrom(read, written, version)
  BY <1>1 DEF Inv, RequestsOK, RequestOK
<1>3. read.table \in RowsIn(written, version) \ read.pending /\ read.keys \subseteq {version}
  BY <1>1, <1>2 DEF ReadsFrom
<1>4. columns \subseteq {version}
  BY <1>3, FoundAreItsOwn
<1>5. UNCHANGED <<written, stored, lock>>
  BY DEF SelectDestinationColumns
<1>6. CASE read.keys = {} \/ columns = {}
  <2>1. Answer(r, Invalid)
    BY <1>6 DEF SelectDestinationColumns
  <2> QED BY <1>5, <2>1, AnswerKeeps, PlainAnswers
<1>7. CASE ~(read.keys = {} \/ columns = {})
  <2>1. last = Complete(read.table, version)
    <3>1. read.keys = {version} /\ columns = {version}
      BY <1>3, <1>4, <1>7
    <3>2. read.table.version = version
      BY <1>3 DEF RowsIn
    <3> QED BY <3>1, <3>2 DEF Complete
  <2>2. built = {Complete(row, version) : row \in RowsIn(written, version) \ read.pending}
    <3>1. read.built = {Complete(row, version) :
                          row \in RowsIn(written, version) \ (read.pending \cup {read.table})}
      BY <1>1, <1>2 DEF ReadsFrom
    <3> HIDE DEF last
    <3> QED BY <1>3, <2>1, <3>1
  <2>3. version \in Versions
    BY <1>2, MaxVersionsAssumption DEF Inv, StoreOK, Versions
  <2>4. read.table \in TableRow
    BY <1>2, <1>3, RowsType DEF Inv, StoreOK
  <2>5. last \in BuiltTable
    BY <1>3, <1>4, <2>3, <2>4 DEF BuiltTable, TableRow
  <2>6. built \in SUBSET BuiltTable
    <3> HIDE DEF last
    <3> QED BY <1>1, <2>5 DEF ReadRequest
  <2>7. CASE read.pending # {}
    <3>1. Continue(r, next)
      BY <1>7, <2>7 DEF SelectDestinationColumns
    <3> HIDE DEF built
    <3>2. /\ next \in ReadRequest /\ next.step = "keys" /\ next.built = built
          /\ next.pending = read.pending
      BY <1>1, <2>6 DEF ReadRequest
    <3> HIDE DEF next
    <3>3. ReadsFrom(next, written, version)
      BY <1>2, <2>2, <3>2 DEF ReadsFrom
    <3>4. next.step \notin SaveSteps /\ WritesAlone(r, next)
      BY <3>2, ReadOK DEF ReadSteps
    <3>5. RequestOK(next, written)
      BY <1>2, <3>2, <3>3, <3>4 DEF RequestOK
    <3> QED BY <1>5, <3>1, <3>4, <3>5, ContinueKeeps
  <2>8. CASE read.pending = {} /\ read.then = "get"
    <3>1. Answer(r, Found(read.header, built))
      BY <1>7, <2>8 DEF SelectDestinationColumns
    <3>2. built = {Complete(row, version) : row \in RowsIn(written, version)}
      BY <2>2, <2>8
    <3> HIDE DEF built
    <3>3. Found(read.header, built) \in FoundAnswer
      BY <1>1, <2>6 DEF Found, FoundAnswer, ReadRequest
    <3>4. AnswerOK(Found(read.header, built), written)
      BY <1>2, <3>2, <3>3 DEF AnswerOK, Found
    <3> QED BY <1>5, <3>1, <3>4, AnswerKeeps
  <2>9. CASE read.pending = {} /\ read.then # "get"
    <3>1. Continue(r, Updating)
      BY <1>7, <2>9 DEF SelectDestinationColumns
    <3>2. RequestOK(Updating, written) /\ WritesAlone(r, Updating)
      BY ReadOK DEF RequestOK, Updating, SaveSteps, WritesAlone
    <3> QED BY <1>5, <3>1, <3>2, ContinueKeeps
  <2> QED BY <2>7, <2>8, <2>9
<1> QED BY <1>6, <1>7

LEMMA GetConfigOK ==
    ASSUME Inv, NEW r \in Requests, NEW then \in {"get", "update"}, get_config(r, then)
    PROVE  Inv'
<1>1. StoreOK'
  BY DEF get_config, Inv, StoreOK, stored, PersistedIsWhole, TableRowsOf
<1>2. Reading(then) \in ReadRequest
  BY DEF Reading, ReadRequest
<1>3. RequestOK(Reading(then), written)
  BY <1>2 DEF RequestOK, Reading, SaveSteps
<1>4. RequestsOK'
  BY <1>3, PlainAnswers, OneRequestMoves DEF get_config
<1>5. LockOK'
  BY LockKept DEF get_config, stored, Reading, SaveSteps, WritesAlone
<1> QED BY <1>1, <1>4, <1>5 DEF Inv

\* A transaction begins: nobody else has the lock, and another aggregate is written.
LEMMA BeginOK ==
    ASSUME Inv, NEW r \in Requests, NEW names \in SUBSET Names \ {{}},
           NEW step \in {"delete", "insert"},
           step = "insert" => config_tables = {},
           \A s \in Requests : request[s].step \notin SaveSteps,
           Len(written) < MaxVersions,
           written' = Append(written, names), lock' = r, UNCHANGED stored,
           request' = [request EXCEPT ![r] = Saving(step, Len(written) + 1)],
           answer' = answer \/ answer' = [answer EXCEPT ![r] = NoAnswer]
    PROVE  Inv'
<1> DEFINE saving == Saving(step, Len(written) + 1)
<1>1. written \in Seq(SUBSET Names \ {{}}) /\ Len(written) \in Nat
  BY DEF Inv, StoreOK
<1>2. /\ written' \in Seq(SUBSET Names \ {{}}) /\ Len(written') = Len(written) + 1
      /\ Len(written') <= MaxVersions /\ Len(written') \in Versions
      /\ \A version \in 1 .. Len(written) : written'[version] = written[version]
  BY <1>1, MaxVersionsAssumption DEF Versions
<1>3. StoreOK'
  <2>1. configs # None => TableRowsOf(configs)' = TableRowsOf(configs)
    BY <1>2 DEF Inv, StoreOK, stored, TableRowsOf
  <2>2. PersistedIsWhole'
    BY <2>1 DEF Inv, StoreOK, PersistedIsWhole, stored
  <2>3. configs' \in 1 .. Len(written') \cup {None}
    BY <1>1, <1>2 DEF Inv, StoreOK, stored
  <2> QED BY <1>2, <2>2, <2>3 DEF StoreOK
<1>4. /\ saving.step = step /\ saving.version = Len(written) + 1 /\ saving.deleted = {}
      /\ saving.tables = {} /\ saving.keys = {} /\ saving.columns = {}
      /\ saving \in SaveRequest
  BY <1>2 DEF Saving, SaveRequest
<1> HIDE DEF saving
<1>5. RequestOK(saving, written')
  <2>1. WriteOK(saving, written')
    <3>1. saving.version \in 1 .. Len(written')
      BY <1>1, <1>2, <1>4
    <3>2. saving.step # "insert keys" /\ saving.step # "insert columns"
      BY <1>4
    <3> QED BY <1>4, <3>1, <3>2, Zenon DEF WriteOK
  <2>2. saving.step \notin {"config", "tables", "keys", "columns"}
    BY <1>4
  <2> QED BY <1>4, <2>1, <2>2 DEF RequestOK
<1>6. /\ AnswerOK(NoAnswer, written')
      /\ \A s \in Requests : RequestOK(request[s], written') /\ AnswerOK(answer[s], written')
  BY <1>1, WrittenOnlyGrows, PlainAnswers DEF Inv, RequestsOK
<1>7. /\ request' \in [Requests -> ReadRequest \cup SaveRequest \cup {Idle, Updating}]
      /\ answer' \in [Requests -> FoundAnswer \cup {Done, NotFound, Invalid, NoAnswer}]
  BY <1>4 DEF saving, Inv, RequestsOK
<1>8. \A s \in Requests : RequestOK(request'[s], written') /\ AnswerOK(answer'[s], written')
  BY <1>5, <1>6 DEF saving, Inv, RequestsOK
<1>9. RequestsOK'
  BY <1>7, <1>8 DEF RequestsOK
<1>10. LockOK'
  <2>1. ASSUME NEW s \in Requests, request'[s].step \in SaveSteps
        PROVE  s = r /\ request'[s] = saving
    BY <2>1 DEF saving, Inv, RequestsOK
  <2>2. config_tables' = config_tables
    BY DEF stored
  <2> QED BY <1>4, <2>1, <2>2 DEF LockOK, WritesAlone
<1> QED BY <1>3, <1>9, <1>10 DEF Inv

LEMMA InsertConfigRowOK ==
    ASSUME Inv, NEW r \in Requests, NEW names \in SUBSET Names \ {{}}, InsertConfigRow(r, names)
    PROVE  Inv'
<1>1. Len(written) = 0 /\ 0 < MaxVersions /\ written' = Append(written, names)
  BY MaxVersionsAssumption DEF InsertConfigRow
<1>2. \A s \in Requests : request[s].step \notin SaveSteps
  BY <1>1 DEF Inv, RequestsOK, RequestOK, WriteOK
<1>3. config_tables = {}
  BY <1>1 DEF Inv, StoreOK, PersistedIsWhole
<1>4. Len(written) + 1 = 1
  BY <1>1
<1> QED BY <1>1, <1>2, <1>3, <1>4, BeginOK DEF InsertConfigRow

LEMMA UpdateConfigRowOK ==
    ASSUME Inv, NEW r \in Requests, NEW names \in SUBSET Names \ {{}}, UpdateConfigRow(r, names)
    PROVE  Inv'
<1>1. \A s \in Requests : request[s].step \notin SaveSteps
  BY NoneAssumption DEF UpdateConfigRow, Inv, LockOK, WritesAlone
<1> QED BY <1>1, BeginOK DEF UpdateConfigRow, Continue

\* A transaction in progress has the lock, and what it has done is as it should be.
LEMMA Transaction ==
    ASSUME Inv, NEW r \in Requests, request[r].step \in SaveSteps
    PROVE  /\ request[r] \in SaveRequest /\ WriteOK(request[r], written)
           /\ lock = r
           /\ request[r].step # "delete" => request[r].deleted = config_tables
           /\ RowsIn(written, request[r].version) \in SUBSET TableRow
<1>1. request[r] \in SaveRequest
  BY StepsOf DEF Inv, RequestsOK
<1>2. WriteOK(request[r], written)
  BY DEF Inv, RequestsOK, RequestOK
<1>3. RowsIn(written, request[r].version) \in SUBSET TableRow
  BY <1>2, RowsType DEF Inv, StoreOK, WriteOK
<1> QED BY <1>1, <1>2, <1>3 DEF Inv, LockOK, WritesAlone

LEMMA DeleteTablesOK ==
    ASSUME Inv, NEW r \in Requests, DeleteTables(r)
    PROVE  Inv'
<1> DEFINE q == [request[r] EXCEPT !.step = "insert", !.deleted = config_tables]
<1>1. /\ request[r] \in SaveRequest /\ WriteOK(request[r], written) /\ lock = r
      /\ request[r].step = "delete"
  BY Transaction DEF DeleteTables, SaveSteps
<1>2. config_tables \in SUBSET TableRow
  <2>1. CASE configs = None
    BY <2>1 DEF Inv, StoreOK, PersistedIsWhole
  <2>2. CASE configs # None
    <3>1. config_tables = RowsIn(written, configs) /\ configs \in 1 .. Len(written)
      BY <2>2 DEF Inv, StoreOK, PersistedIsWhole, TableRowsOf, RowsIn
    <3> QED BY <3>1, RowsType DEF Inv, StoreOK
  <2> QED BY <2>1, <2>2
<1>3. /\ q \in SaveRequest /\ q.step = "insert" /\ q.deleted = config_tables
      /\ q.version = request[r].version /\ q.tables = request[r].tables
      /\ q.keys = request[r].keys /\ q.columns = request[r].columns
  BY <1>1, <1>2 DEF SaveRequest
<1>4. Continue(r, q) /\ UNCHANGED <<written, stored, lock>>
  BY DEF DeleteTables
<1> HIDE DEF q
<1>5. RequestOK(q, written)
  BY <1>1, <1>3 DEF RequestOK, WriteOK, SaveSteps
<1> QED BY <1>1, <1>3, <1>4, <1>5, ContinueKeeps DEF WritesAlone

LEMMA InsertTableOK ==
    ASSUME Inv, NEW r \in Requests, InsertTable(r)
    PROVE  Inv'
<1> DEFINE next(row) == [request[r] EXCEPT !.step = "insert keys", !.table = row,
                                           !.tables = @ \cup {row}]
<1>1. /\ request[r] \in SaveRequest /\ WriteOK(request[r], written) /\ lock = r
      /\ request[r].step = "insert" /\ request[r].deleted = config_tables
      /\ RowsIn(written, request[r].version) \in SUBSET TableRow
  BY Transaction DEF InsertTable, SaveSteps
<1>2. PICK row \in RowsIn(written, request[r].version) \ request[r].tables :
        Continue(r, next(row))
  BY DEF InsertTable, TableRowsOf, RowsIn
<1> DEFINE q == next(row)
<1>3. /\ q \in SaveRequest /\ q.step = "insert keys" /\ q.deleted = config_tables
      /\ q.table = row /\ q.version = request[r].version
      /\ q.tables = request[r].tables \cup {row}
      /\ q.keys = request[r].keys /\ q.columns = request[r].columns
  BY <1>1, <1>2 DEF SaveRequest
<1>4. UNCHANGED <<written, stored, lock>>
  BY DEF InsertTable
<1> HIDE DEF next
<1>5. RequestOK(q, written)
  BY <1>1, <1>2, <1>3 DEF RequestOK, WriteOK, SaveSteps
<1> QED BY <1>1, <1>2, <1>3, <1>4, <1>5, ContinueKeeps DEF WritesAlone

LEMMA InsertPrimaryKeysOK ==
    ASSUME Inv, NEW r \in Requests, InsertPrimaryKeys(r)
    PROVE  Inv'
<1> DEFINE q == [request[r] EXCEPT !.step = "insert columns",
                                   !.keys = @ \cup {request[r].table}]
<1>1. /\ request[r] \in SaveRequest /\ WriteOK(request[r], written) /\ lock = r
      /\ request[r].step = "insert keys" /\ request[r].deleted = config_tables
      /\ RowsIn(written, request[r].version) \in SUBSET TableRow
  BY Transaction DEF InsertPrimaryKeys, SaveSteps
<1>2. request[r].table \in request[r].tables /\ request[r].table \in TableRow
  BY <1>1 DEF WriteOK
<1>3. /\ q \in SaveRequest /\ q.step = "insert columns" /\ q.deleted = config_tables
      /\ q.table = request[r].table /\ q.version = request[r].version
      /\ q.tables = request[r].tables /\ q.columns = request[r].columns
      /\ q.keys = request[r].keys \cup {request[r].table}
  BY <1>1, <1>2 DEF SaveRequest
<1>4. Continue(r, q) /\ UNCHANGED <<written, stored, lock>>
  BY DEF InsertPrimaryKeys
<1> HIDE DEF q
<1>5. RequestOK(q, written)
  BY <1>1, <1>2, <1>3 DEF RequestOK, WriteOK, SaveSteps
<1> QED BY <1>1, <1>3, <1>4, <1>5, ContinueKeeps DEF WritesAlone

LEMMA InsertDestinationColumnsOK ==
    ASSUME Inv, NEW r \in Requests, InsertDestinationColumns(r)
    PROVE  Inv'
<1> DEFINE q == [request[r] EXCEPT !.step = "insert",
                                   !.columns = @ \cup {request[r].table}]
<1>1. /\ request[r] \in SaveRequest /\ WriteOK(request[r], written) /\ lock = r
      /\ request[r].step = "insert columns" /\ request[r].deleted = config_tables
      /\ RowsIn(written, request[r].version) \in SUBSET TableRow
  BY Transaction DEF InsertDestinationColumns, SaveSteps
<1>2. request[r].table \in request[r].tables /\ request[r].table \in TableRow
  BY <1>1 DEF WriteOK
<1>3. /\ q \in SaveRequest /\ q.step = "insert" /\ q.deleted = config_tables
      /\ q.version = request[r].version
      /\ q.tables = request[r].tables /\ q.keys = request[r].keys
      /\ q.columns = request[r].columns \cup {request[r].table}
  BY <1>1, <1>2 DEF SaveRequest
<1>4. Continue(r, q) /\ UNCHANGED <<written, stored, lock>>
  BY DEF InsertDestinationColumns
<1> HIDE DEF q
<1>5. RequestOK(q, written)
  BY <1>1, <1>2, <1>3 DEF RequestOK, WriteOK, SaveSteps
<1> QED BY <1>1, <1>3, <1>4, <1>5, ContinueKeeps DEF WritesAlone

\* The transaction ends, and nobody else is writing.
LEMMA LockReleased ==
    ASSUME Inv, NEW r \in Requests, NEW a, request[r].step \in SaveSteps, Answer(r, a)
    PROVE  LockOK'
<1>1. \A s \in Requests \ {r} : request[s].step \notin SaveSteps
  BY DEF Inv, LockOK, WritesAlone
<1>2. \A s \in Requests : request'[s] = IF s = r THEN Idle ELSE request[s]
  BY DEF Answer, Inv, RequestsOK
<1>3. Idle.step \notin SaveSteps
  BY DEF Idle, SaveSteps
<1> QED BY <1>1, <1>2, <1>3 DEF LockOK, WritesAlone

\* All that was stored has been deleted when a transaction commits, and all of its own
\* aggregate has been inserted.
LEMMA CommitOK ==
    ASSUME Inv, NEW r \in Requests, Commit(r)
    PROVE  Inv'
<1>1. /\ WriteOK(request[r], written) /\ request[r].step = "insert"
      /\ request[r].deleted = config_tables /\ request[r].step \in SaveSteps
  BY Transaction DEF Commit, SaveSteps
<1>2. /\ request[r].version \in 1 .. Len(written)
      /\ request[r].keys = request[r].tables /\ request[r].columns = request[r].tables
  BY <1>1 DEF WriteOK
<1>3. Without(config_tables, config_tables) = {}
  BY DEF Without
<1>4. primary_keys = config_tables /\ destination_columns = config_tables
  BY DEF Inv, StoreOK, PersistedIsWhole
<1> DEFINE rows == TableRowsOf(request[r].version)
<1>5. config_tables' = rows /\ primary_keys' = rows /\ destination_columns' = rows
  BY <1>1, <1>2, <1>3, <1>4 DEF Commit
<1>6. configs' = request[r].version /\ configs' # None /\ written' = written
  BY <1>2, NoneAssumption DEF Commit
<1>7. TableRowsOf(configs)' = rows
  BY <1>6 DEF TableRowsOf
<1> HIDE DEF rows
<1>8. StoreOK'
  BY <1>2, <1>5, <1>6, <1>7 DEF Commit, Inv, StoreOK, PersistedIsWhole
<1>9. RequestOK(Idle, written)
  BY DEF RequestOK, Idle, SaveSteps
<1>10. RequestsOK'
  BY <1>9, PlainAnswers, OneRequestMoves DEF Commit, Answer
<1>11. LockOK'
  BY <1>1, LockReleased DEF Commit
<1> QED BY <1>8, <1>10, <1>11 DEF Inv

LEMMA RollbackOK ==
    ASSUME Inv, NEW r \in Requests, Rollback(r)
    PROVE  Inv'
<1>1. StoreOK'
  BY DEF Rollback, Inv, StoreOK, stored, PersistedIsWhole, TableRowsOf
<1>2. RequestOK(Idle, written)
  BY DEF RequestOK, Idle, SaveSteps
<1>3. RequestsOK'
  BY <1>2, PlainAnswers, OneRequestMoves DEF Rollback, Answer
<1>4. request[r].step \in SaveSteps
  BY DEF Rollback, SaveSteps
<1>5. LockOK'
  BY <1>4, LockReleased DEF Rollback
<1> QED BY <1>1, <1>3, <1>5 DEF Inv

LEMMA DeleteConfigOK ==
    ASSUME Inv, delete_config
    PROVE  Inv'
<1>1. primary_keys = config_tables /\ destination_columns = config_tables
  BY DEF Inv, StoreOK, PersistedIsWhole
<1>2. Without(config_tables, config_tables) = {}
  BY DEF Without
<1>3. StoreOK'
  BY <1>1, <1>2 DEF delete_config, Inv, StoreOK, PersistedIsWhole
<1>4. RequestsOK'
  BY DEF delete_config, Inv, RequestsOK
<1>5. LockOK'
  BY NoneAssumption DEF delete_config, Inv, LockOK, WritesAlone
<1> QED BY <1>3, <1>4, <1>5 DEF Inv

LEMMA NextOK == Inv /\ [Next]_vars => Inv'
<1> SUFFICES ASSUME Inv, [Next]_vars PROVE Inv'
  OBVIOUS
<1>1. ASSUME NEW r \in Requests, Read(r) PROVE Inv'
  BY <1>1, SelectConfigOK, SelectTablesOK, SelectPrimaryKeysOK, SelectDestinationColumnsOK
     DEF Read
<1>2. ASSUME NEW r \in Requests, ReferenceMissing(r) \/ UpdateMissing(r) PROVE Inv'
  BY <1>2, AnswerKeeps, PlainAnswers DEF ReferenceMissing, UpdateMissing
<1>3. ASSUME NEW r \in Requests, Write(r) PROVE Inv'
  BY <1>2, <1>3, InsertConfigRowOK, UpdateConfigRowOK, DeleteTablesOK, InsertTableOK,
     InsertPrimaryKeysOK, InsertDestinationColumnsOK, CommitOK, RollbackOK DEF Write
<1>4. CASE UNCHANGED vars
  <2>1. StoreOK'
    BY <1>4 DEF vars, Inv, StoreOK, PersistedIsWhole, TableRowsOf
  <2>2. RequestsOK' /\ LockOK'
    BY <1>4 DEF vars, Inv, RequestsOK, LockOK, WritesAlone
  <2> QED BY <2>1, <2>2 DEF Inv
<1> QED BY <1>1, <1>3, <1>4, GetConfigOK, DeleteConfigOK DEF Next

-----------------------------------------------------------------------------
\* The invariant holds in every state of the configuration's life.
THEOREM AggregateInvariant == Spec => []Inv
BY InitOK, NextOK, PTL DEF Spec

LEMMA InvImpliesTypeOK == Inv => TypeOK
<1> SUFFICES ASSUME Inv PROVE TypeOK
  OBVIOUS
<1>1. configs # None => TableRowsOf(configs) \in SUBSET TableRow
  <2> SUFFICES ASSUME configs # None PROVE RowsIn(written, configs) \in SUBSET TableRow
    BY DEF TableRowsOf, RowsIn
  <2> QED BY RowsType DEF Inv, StoreOK
<1>2. /\ config_tables \in SUBSET TableRow
      /\ primary_keys \in SUBSET TableRow
      /\ destination_columns \in SUBSET TableRow
  BY <1>1 DEF Inv, StoreOK, PersistedIsWhole
<1> QED BY <1>2 DEF TypeOK, Inv, StoreOK, RequestsOK

\* The state of a configuration and of the requests on it keeps its type.
THEOREM AggregateTypeOK == Spec => []TypeOK
BY AggregateInvariant, InvImpliesTypeOK, PTL

\* Whatever creations, updates, deletions and failures interleave, statement by statement,
\* the four tables hold one aggregate as a request wrote it, or none.
THEOREM StoredAggregateIsWhole == Spec => []PersistedIsWhole
<1>1. Inv => PersistedIsWhole
  BY DEF Inv, StoreOK
<1> QED BY <1>1, AggregateInvariant, PTL

\* A read that succeeds never mixes the tables, keys or columns of two aggregates,
\* although each SELECT of it sees another state of the database.
THEOREM ReadNeverMixesTables == Spec => []ReadTablesBelongTogether
<1>1. Inv => ReadTablesBelongTogether
  BY DEF Inv, RequestsOK, AnswerOK, ReadTablesBelongTogether, RowsIn, TableRowsOf, Complete
<1> QED BY <1>1, AggregateInvariant, PTL
=============================================================================
