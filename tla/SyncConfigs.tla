---------------------------- MODULE SyncConfigs ----------------------------
(***************************************************************************)
(* The control plane's domain model (api/.../domain/control_plane.py): what *)
(* a request must look like, how it is normalised, and which aggregates    *)
(* are valid.                                                              *)
(***************************************************************************)
EXTENDS Texts

Invalid == [status |-> 422]
Conflict == [status |-> 409]

-----------------------------------------------------------------------------
(* Requests as the pydantic models accept them: texts of length at least   *)
(* one, blanks included; lists that are not empty; ports in range.          *)

MaxPort == 65535

CredentialsRequest(r) == NonEmpty(r.user) /\ NonEmpty(r.password)

DestinationCreateRequest(r) ==
    /\ \A field \in {"destination_type", "host", "database_name"} : NonEmpty(r[field])
    /\ r.port \in 1 .. MaxPort
    /\ CredentialsRequest(r.credentials)

SourceConnectionCreateRequest(r) ==
    /\ \A field \in {"source_type", "host", "database_name"} : NonEmpty(r[field])
    /\ r.port \in 1 .. MaxPort
    /\ CredentialsRequest(r.credentials)

DestinationColumnRequest(r) == NonEmpty(r.name) /\ NonEmpty(r.destination_type)

TableTexts == {"logical_name", "source_schema", "source_table", "cdc_topic",
               "destination_table"}

ConfiguredTableRequest(r) ==
    /\ \A field \in TableTexts : NonEmpty(r[field])
    /\ r.primary_key_fields # <<>> /\ ForAll(r.primary_key_fields, NonEmpty)
    /\ r.destination_columns # <<>>
    /\ ForAll(r.destination_columns, DestinationColumnRequest)

SyncConfigRequest(r) ==
    /\ NonEmpty(r.sync_mode)
    /\ r.tables # <<>> /\ ForAll(r.tables, ConfiguredTableRequest)

-----------------------------------------------------------------------------
(* Domain objects: normalised, then validated (__post_init__).  The domain *)
(* raises ControlPlaneValidationError for what is not valid: 422.           *)

\* _normalize_secret_payload.
SecretReference(credentials) ==
    [user |-> Strip(credentials.user), password |-> Strip(credentials.password)]
ValidSecretReference(s) == NonEmpty(s.user) /\ NonEmpty(s.password)

Destination(r) ==
    [destination_type |-> r.destination_type, host |-> Strip(r.host), port |-> r.port,
     secure |-> r.secure, database_name |-> Strip(r.database_name),
     credentials |-> SecretReference(r.credentials)]
ValidDestination(d) ==
    /\ NonEmpty(d.host) /\ NonEmpty(d.database_name)
    /\ d.port \in 1 .. MaxPort
    /\ d.destination_type = "clickhouse"
    /\ ValidSecretReference(d.credentials)

SourceConnection(r) ==
    [source_type |-> r.source_type, host |-> Strip(r.host), port |-> r.port,
     database_name |-> Strip(r.database_name),
     credentials |-> SecretReference(r.credentials)]
ValidSourceConnection(s) ==
    /\ NonEmpty(s.host) /\ NonEmpty(s.database_name)
    /\ s.port \in 1 .. MaxPort
    /\ s.source_type = "postgresql"
    /\ ValidSecretReference(s.credentials)

TechnicalColumns == {"version", "deleted"}

DestinationColumn(r) ==
    [name |-> Strip(r.name), destination_type |-> Strip(r.destination_type),
     nullable |-> r.nullable]
ValidDestinationColumn(c) ==
    NonEmpty(c.name) /\ NonEmpty(c.destination_type) /\ c.name \notin TechnicalColumns

\* Mutant: names are stored as they were typed.
ConfiguredTableUnstripped(r) ==
    [r EXCEPT !.destination_columns = Map(@, DestinationColumn)]

ConfiguredTable(r) ==
    [logical_name |-> Strip(r.logical_name),
     source_schema |-> Strip(r.source_schema),
     source_table |-> Strip(r.source_table),
     cdc_topic |-> Strip(r.cdc_topic),
     destination_table |-> Strip(r.destination_table),
     primary_key_fields |-> Map(r.primary_key_fields, Strip),
     destination_columns |-> Map(r.destination_columns, DestinationColumn),
     enabled |-> r.enabled]

\* _validate_configured_table: every key is a column, and not a nullable one.
ValidConfiguredTable(t) ==
    /\ \A field \in TableTexts : NonEmpty(t[field])
    /\ ForAll(t.primary_key_fields, NonEmpty)
    /\ ForAll(t.destination_columns, ValidDestinationColumn)
    /\ t.primary_key_fields # <<>>
    /\ t.destination_columns # <<>>
    /\ Distinct(Map(t.destination_columns, LAMBDA c : c.name))
    /\ \A field \in ToSet(t.primary_key_fields) :
         \E c \in ToSet(t.destination_columns) : c.name = field /\ ~c.nullable

SyncConfig(r) ==
    [sync_mode |-> r.sync_mode, tables |-> Map(r.tables, ConfiguredTable),
     enabled |-> r.enabled]

UniqueBy(tables, field) == Distinct(Map(tables, LAMBDA t : t[field]))

ValidSyncConfig(c) ==
    /\ c.sync_mode = "realtime"
    /\ c.tables # <<>> /\ ForAll(c.tables, ValidConfiguredTable)
    /\ UniqueBy(c.tables, "logical_name")
    /\ UniqueBy(c.tables, "cdc_topic")
    /\ UniqueBy(c.tables, "destination_table")

\* The constraints of config_tables, config_table_primary_keys and
\* config_table_destination_columns; the domain does not look for a key named twice.
ConstraintsHold(c) ==
    /\ UniqueBy(c.tables, "logical_name")
    /\ UniqueBy(c.tables, "cdc_topic")
    /\ UniqueBy(c.tables, "destination_table")
    /\ ForAll(c.tables, LAMBDA t :
         /\ Distinct(t.primary_key_fields)
         /\ UniqueBy(t.destination_columns, "name"))

\* Mutant: the aggregate is stored as requested, the database alone checks it.
StoredUnchecked(r) ==
    IF SyncConfigRequest(r) /\ ConstraintsHold(SyncConfig(r))
      THEN [status |-> 200, config |-> SyncConfig(r)]
      ELSE Conflict

\* What create_config or update_config answers, and stores when it is a 200.
Stored(r) ==
    CASE ~SyncConfigRequest(r) -> Invalid
      [] SyncConfigRequest(r) /\ ~ValidSyncConfig(SyncConfig(r)) -> Invalid
      [] ~ConstraintsHold(SyncConfig(r)) -> Conflict
      [] OTHER -> [status |-> 200, config |-> SyncConfig(r)]

-----------------------------------------------------------------------------
(* What the administration API shows of a configuration. *)

DestinationColumnResponse(c) ==
    [name |-> c.name, destination_type |-> c.destination_type, nullable |-> c.nullable]

\* Mutant: the form is not told that a table is disabled (enabled defaults to true).
ConfiguredTableResponseEnabled(t) == [t EXCEPT !.enabled = TRUE]

ConfiguredTableResponse(t) ==
    [logical_name |-> t.logical_name,
     source_schema |-> t.source_schema,
     source_table |-> t.source_table,
     cdc_topic |-> t.cdc_topic,
     destination_table |-> t.destination_table,
     primary_key_fields |-> t.primary_key_fields,
     destination_columns |-> Map(t.destination_columns, DestinationColumnResponse),
     enabled |-> t.enabled]

SyncConfigResponse(c) ==
    [sync_mode |-> c.sync_mode, tables |-> Map(c.tables, ConfiguredTableResponse),
     enabled |-> c.enabled]
=============================================================================
