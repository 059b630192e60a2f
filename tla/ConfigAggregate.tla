-------------------------- MODULE ConfigAggregate --------------------------
(***************************************************************************)
(* One configuration of the control plane and the requests that create,    *)
(* read, replace and delete it (control_plane_config_repository.py).  It   *)
(* is spread over four tables: a row of configs, its rows of config_tables, *)
(* and for each of those its primary key and its destination columns.  A   *)
(* request reads and writes them with one statement after the other, and   *)
(* any of them may fail.  PostgreSQL runs READ COMMITTED: a statement sees  *)
(* what is committed when it starts, and what its own transaction did.     *)
(*                                                                         *)
(* External, as the repository uses it: the row lock of an UPDATE or a     *)
(* DELETE, COMMIT, and ROLLBACK.  What a transaction has deleted and       *)
(* inserted stays with its request until COMMIT merges it into the tables,  *)
(* whatever they hold by then.                                             *)
(*                                                                         *)
(* The contents of a row are the number of the aggregate that wrote it.    *)
(***************************************************************************)
EXTENDS Naturals, Sequences

CONSTANTS
    Requests,    \* requests that may be in progress at the same time
    Names,       \* logical names of configured tables
    None,        \* no row; no holder of the row lock; nothing read
    MaxVersions  \* bound: aggregates written

ASSUME NoneAssumption == None \notin Nat /\ None \notin Requests
ASSUME MaxVersionsAssumption == MaxVersions \in Nat \ {0}

VARIABLES
    written,              \* history: the table names of each aggregate, in lock order
    configs,              \* the row: the aggregate it belongs to, or None
    config_tables,        \* rows [id, version]
    primary_keys,         \* rows [id, version]: the keys of table id
    destination_columns,  \* rows [id, version]: the columns of table id
    lock,                 \* the request whose transaction has written the configs row
    request,              \* Requests -> what the request is doing
    answer                \* Requests -> its last answer

stored == <<configs, config_tables, primary_keys, destination_columns>>
vars == <<written, configs, config_tables, primary_keys, destination_columns,
          lock, request, answer>>

-----------------------------------------------------------------------------
\* Mutant: a table keeps its id when the aggregate is replaced.
TableIdByName(version, name) == <<0, name>>

\* _build_configured_table gives every table of a request a fresh uuid4.
TableId(version, name) == <<version, name>>

TableRowsOf(version) ==
    {[id |-> TableId(version, name), version |-> version] : name \in written[version]}

\* What a reader has so far: the row of configs, the tables still to be read, the table
\* at hand with its keys, and the tables built.  then says what the read is for.
Reading(then) == [step |-> "config", then |-> then, header |-> None,
                  pending |-> {}, table |-> None, keys |-> {}, built |-> {}]
Idle == [step |-> "idle"]
Updating == [step |-> "update"]

\* What a transaction has done so far: the config_tables it has deleted, the table at
\* hand, and the rows it has inserted.
Saving(step, version) ==
    [step |-> step, version |-> version, deleted |-> {}, table |-> None,
     tables |-> {}, keys |-> {}, columns |-> {}]

\* Answers: 200 with an aggregate, 204, 404, 422.
Found(header, tables) == [status |-> 200, header |-> header, tables |-> tables]
Done == [status |-> 204]
NotFound == [status |-> 404]
Invalid == [status |-> 422]
NoAnswer == [status |-> 0]

Versions == 1 .. MaxVersions
TableRow == [id : Versions \X Names, version : Versions]
BuiltTable == [id : Versions \X Names, version : Versions,
               keys : SUBSET Versions, columns : SUBSET Versions]
ReadRequest == [step : {"config", "tables", "keys", "columns"}, then : {"get", "update"},
                header : Versions \cup {None}, pending : SUBSET TableRow,
                table : TableRow \cup {None}, keys : SUBSET Versions,
                built : SUBSET BuiltTable]
SaveRequest == [step : {"delete", "insert", "insert keys", "insert columns"},
                version : Versions, deleted : SUBSET TableRow, table : TableRow \cup {None},
                tables : SUBSET TableRow, keys : SUBSET TableRow, columns : SUBSET TableRow]
FoundAnswer == [status : {200}, header : Versions \cup {None}, tables : SUBSET BuiltTable]

TypeOK ==
    /\ written \in Seq(SUBSET Names \ {{}}) /\ Len(written) <= MaxVersions
    /\ configs \in 1 .. Len(written) \cup {None}
    /\ config_tables \in SUBSET TableRow
    /\ primary_keys \in SUBSET TableRow
    /\ destination_columns \in SUBSET TableRow
    /\ lock \in Requests \cup {None}
    /\ request \in [Requests -> ReadRequest \cup SaveRequest \cup {Idle, Updating}]
    /\ answer \in [Requests -> FoundAnswer \cup {Done, NotFound, Invalid, NoAnswer}]

Init ==
    /\ written = <<>>
    /\ configs = None
    /\ config_tables = {}
    /\ primary_keys = {}
    /\ destination_columns = {}
    /\ lock = None
    /\ request = [r \in Requests |-> Idle]
    /\ answer = [r \in Requests |-> NoAnswer]

Continue(r, next) == request' = [request EXCEPT ![r] = next] /\ UNCHANGED answer

Answer(r, a) == request' = [request EXCEPT ![r] = Idle] /\ answer' = [answer EXCEPT ![r] = a]

-----------------------------------------------------------------------------
(* Reading: get_config of the repository, for a client ("get") or at the   *)
(* start of update_config ("update").                                      *)

get_config(r, then) ==
    /\ request[r] = Idle
    /\ request' = [request EXCEPT ![r] = Reading(then)]
    /\ answer' = [answer EXCEPT ![r] = NoAnswer]
    /\ UNCHANGED <<written, stored, lock>>

SelectConfig(r) ==
    /\ request[r].step = "config"
    /\ IF configs = None
         THEN Answer(r, NotFound)
         ELSE Continue(r, [request[r] EXCEPT !.step = "tables", !.header = configs])
    /\ UNCHANGED <<written, stored, lock>>

\* A SyncConfig without tables raises ControlPlaneValidationError.
SelectTables(r) ==
    /\ request[r].step = "tables"
    /\ IF config_tables = {}
         THEN Answer(r, Invalid)
         ELSE Continue(r, [request[r] EXCEPT !.step = "keys", !.pending = config_tables])
    /\ UNCHANGED <<written, stored, lock>>

\* One table after the other, in the order of their positions, which are arbitrary.
SelectPrimaryKeys(r) ==
    /\ request[r].step = "keys"
    /\ \E table \in request[r].pending :
         Continue(r, [request[r] EXCEPT
                        !.step = "columns",
                        !.pending = @ \ {table},
                        !.table = table,
                        !.keys = {row.version : row \in {k \in primary_keys : k.id = table.id}}])
    /\ UNCHANGED <<written, stored, lock>>

\* A ConfiguredTable without keys or columns raises ControlPlaneValidationError; after
\* the last table the read is complete.
SelectDestinationColumns(r) ==
    /\ request[r].step = "columns"
    /\ LET read == request[r]
           columns == {row.version : row \in
                         {c \in destination_columns : c.id = read.table.id}}
           built == read.built \cup {[id |-> read.table.id, version |-> read.table.version,
                                      keys |-> read.keys, columns |-> columns]}
       IN  CASE read.keys = {} \/ columns = {} -> Answer(r, Invalid)
             [] OTHER ->
                  CASE read.pending # {} ->
                         Continue(r, [read EXCEPT !.step = "keys", !.built = built])
                    [] read.pending = {} /\ read.then = "get" ->
                         Answer(r, Found(read.header, built))
                    [] OTHER -> Continue(r, Updating)
    /\ UNCHANGED <<written, stored, lock>>

-----------------------------------------------------------------------------
(* Writing: save_config, update_config and delete_config of the repository. *)

\* create_config gives the configuration an id of its own, so this happens once.  The
\* row that is inserted is not visible, and nobody waits for it.
InsertConfigRow(r, names) ==
    /\ request[r] = Idle
    /\ written = <<>>
    /\ written' = <<names>>
    /\ lock' = r
    /\ request' = [request EXCEPT ![r] = Saving("insert", 1)]
    /\ answer' = [answer EXCEPT ![r] = NoAnswer]
    /\ UNCHANGED stored

\* The UPDATE of the configs row: it waits until nobody else has it locked.
UpdateConfigRow(r, names) ==
    /\ request[r].step = "update"
    /\ Len(written) < MaxVersions
    /\ lock = None
    /\ configs # None
    /\ written' = Append(written, names)
    /\ lock' = r
    /\ Continue(r, Saving("delete", Len(written) + 1))
    /\ UNCHANGED stored

\* _ensure_config_references_exist: a connection the new aggregate names does not exist.
ReferenceMissing(r) ==
    /\ request[r].step = "update"
    /\ Answer(r, NotFound)
    /\ UNCHANGED <<written, stored, lock>>

\* rowcount is 0: the configuration has been deleted.
UpdateMissing(r) ==
    /\ request[r].step = "update"
    /\ configs = None
    /\ Answer(r, NotFound)
    /\ UNCHANGED <<written, stored, lock>>

\* Mutant: only the tables that the new aggregate names again are deleted.
DeleteReplacedTables(r) ==
    /\ request[r].step = "delete"
    /\ Continue(r, [request[r] EXCEPT
                      !.step = "insert",
                      !.deleted = {row \in config_tables :
                                     row.id[2] \in written[request[r].version]}])
    /\ UNCHANGED <<written, stored, lock>>

\* The config_tables of the configuration.
DeleteTables(r) ==
    /\ request[r].step = "delete"
    /\ Continue(r, [request[r] EXCEPT !.step = "insert", !.deleted = config_tables])
    /\ UNCHANGED <<written, stored, lock>>

\* _save_config_tables: a table, its keys and its columns, and then the next table.
InsertTable(r) ==
    /\ request[r].step = "insert"
    /\ \E row \in TableRowsOf(request[r].version) \ request[r].tables :
         Continue(r, [request[r] EXCEPT !.step = "insert keys", !.table = row,
                                        !.tables = @ \cup {row}])
    /\ UNCHANGED <<written, stored, lock>>

InsertPrimaryKeys(r) ==
    /\ request[r].step = "insert keys"
    /\ Continue(r, [request[r] EXCEPT !.step = "insert columns",
                                      !.keys = @ \cup {request[r].table}])
    /\ UNCHANGED <<written, stored, lock>>

InsertDestinationColumns(r) ==
    /\ request[r].step = "insert columns"
    /\ Continue(r, [request[r] EXCEPT !.step = "insert",
                                      !.columns = @ \cup {request[r].table}])
    /\ UNCHANGED <<written, stored, lock>>

\* Keys and columns go with their table (ON DELETE CASCADE).
Without(rows, tables) == {row \in rows : \A table \in tables : table.id # row.id}

\* The end of engine.begin(), after the last table.
Commit(r) ==
    /\ request[r].step = "insert"
    /\ request[r].tables = TableRowsOf(request[r].version)
    /\ configs' = request[r].version
    /\ config_tables' = Without(config_tables, request[r].deleted) \cup request[r].tables
    /\ primary_keys' = Without(primary_keys, request[r].deleted) \cup request[r].keys
    /\ destination_columns' =
         Without(destination_columns, request[r].deleted) \cup request[r].columns
    /\ lock' = None
    /\ Answer(r, Done)
    /\ UNCHANGED written

\* A statement or the COMMIT fails, constraints included (409), or the connection is
\* lost: engine.begin() rolls the transaction back.
Rollback(r) ==
    /\ request[r].step \in {"delete", "insert", "insert keys", "insert columns"}
    /\ lock' = None
    /\ Answer(r, NoAnswer)
    /\ UNCHANGED <<written, stored>>

\* delete_config of a configuration that is not assigned: one DELETE, which waits for
\* the lock, and the cascade over what is stored by then.
delete_config ==
    /\ lock = None
    /\ configs # None
    /\ configs' = None
    /\ config_tables' = {}
    /\ primary_keys' = Without(primary_keys, config_tables)
    /\ destination_columns' = Without(destination_columns, config_tables)
    /\ UNCHANGED <<written, lock, request, answer>>

Read(r) ==
    \/ SelectConfig(r)
    \/ SelectTables(r)
    \/ SelectPrimaryKeys(r)
    \/ SelectDestinationColumns(r)

Write(r) ==
    \/ \E names \in SUBSET Names \ {{}} : InsertConfigRow(r, names) \/ UpdateConfigRow(r, names)
    \/ ReferenceMissing(r) \/ UpdateMissing(r)
    \/ DeleteTables(r)
    \/ InsertTable(r) \/ InsertPrimaryKeys(r) \/ InsertDestinationColumns(r)
    \/ Commit(r) \/ Rollback(r)

Next ==
    \/ \E r \in Requests :
         \/ get_config(r, "get") \/ get_config(r, "update")
         \/ Read(r)
         \/ Write(r)
    \/ delete_config

Spec == Init /\ [][Next]_vars

-----------------------------------------------------------------------------
(* Properties. *)

\* What is stored is always one aggregate as a request wrote it, keys and columns
\* included: no failure between two statements leaves a part of one behind, no table of
\* an older aggregate survives, and two updates never merge, because the second one
\* deletes its predecessor's tables after it has got the lock.
PersistedIsWhole ==
    LET rows == IF configs = None THEN {} ELSE TableRowsOf(configs)
    IN  config_tables = rows /\ primary_keys = rows /\ destination_columns = rows

\* A read that succeeds returns all tables of one aggregate, each with the keys and the
\* columns it was written with, although every one of them comes from another snapshot.
\* (A replaced table has another id, so its keys and columns are not found.)
ReadTablesBelongTogether ==
    \A r \in Requests : answer[r].status = 200 =>
        \E version \in 1 .. Len(written) :
            answer[r].tables = {[id |-> row.id, version |-> version,
                                 keys |-> {version}, columns |-> {version}] :
                                    row \in TableRowsOf(version)}

\* A configuration is a complete aggregate and 422 means that it is broken or
\* incompatible (docs/api.md).  Every aggregate written is valid, so a read returns
\* one, tables and connections, or finds that there is none.
ReadsOneAggregate ==
    \A r \in Requests :
        /\ answer[r].status = 200 =>
             \A table \in answer[r].tables : table.version = answer[r].header
        /\ answer[r].status = 422 => configs = None
=============================================================================
