--------------------------- MODULE SyncConfigForm ---------------------------
(***************************************************************************)
(* The administration console's form for a configuration                   *)
(* (frontend/src/views/admin): from what the API shows to the fields, from *)
(* the fields to the request, and the table it adds from a name.           *)
(*                                                                         *)
(* A table's keys are one text in the form, joined and split at commas.     *)
(* Here that text is the sequence of the names that were joined.  The       *)
(* form's trim is Strip, see Texts.                                        *)
(***************************************************************************)
EXTENDS SyncConfigs

-----------------------------------------------------------------------------
(* payloadMappers.ts *)

ColumnFormValues(c) ==
    [name |-> c.name, destinationType |-> c.destination_type, nullable |-> c.nullable]

TableFormValues(t) ==
    [logicalName |-> t.logical_name, sourceSchema |-> t.source_schema,
     sourceTable |-> t.source_table, cdcTopic |-> t.cdc_topic,
     destinationTable |-> t.destination_table,
     primaryKeyFields |-> t.primary_key_fields,
     destinationColumns |-> Map(t.destination_columns, ColumnFormValues),
     enabled |-> t.enabled]

\* buildSyncConfigFormValues: the form of a configuration, or of a new one.
FormValues(config) ==
    [syncMode |-> config.sync_mode, tables |-> Map(config.tables, TableFormValues),
     enabled |-> config.enabled]

NewFormValues == [syncMode |-> "realtime", tables |-> <<>>, enabled |-> TRUE]

SplitCommaSeparatedText(joined) ==
    LET parts == Map(FlattenSeq(Map(joined, CommaParts)), Strip)
    IN  Keep(parts, ToSet(parts) \ {""})

ColumnPayload(v) ==
    [name |-> Strip(v.name), destination_type |-> Strip(v.destinationType),
     nullable |-> v.nullable]

TablePayload(v) ==
    [logical_name |-> Strip(v.logicalName), source_schema |-> Strip(v.sourceSchema),
     source_table |-> Strip(v.sourceTable), cdc_topic |-> Strip(v.cdcTopic),
     destination_table |-> Strip(v.destinationTable),
     primary_key_fields |-> SplitCommaSeparatedText(v.primaryKeyFields),
     destination_columns |-> Map(v.destinationColumns, ColumnPayload),
     enabled |-> v.enabled]

\* buildSyncConfigPayload
Payload(v) ==
    [sync_mode |-> Strip(v.syncMode), tables |-> Map(v.tables, TablePayload),
     enabled |-> v.enabled]

\* validateSyncConfigForm; the form is not sent while a field has an error.
ValidForm(v) ==
    /\ NotBlank(v.syncMode)
    /\ v.tables # <<>>
    /\ ForAll(v.tables, LAMBDA t :
         /\ \A field \in {"logicalName", "sourceSchema", "sourceTable", "cdcTopic",
                          "destinationTable"} : NotBlank(t[field])
         /\ SplitCommaSeparatedText(t.primaryKeyFields) # <<>>
         /\ t.destinationColumns # <<>>
         /\ ForAll(t.destinationColumns, LAMBDA c :
              NotBlank(c.name) /\ NotBlank(c.destinationType)))

-----------------------------------------------------------------------------
(* syncConfigFormDefaults.ts *)

EndsWith(text, suffix) ==
    /\ Len(text) >= Len(suffix)
    /\ SubSeq(text, Len(text) - Len(suffix) + 1, Len(text)) = suffix
Before(text, suffix) == SubSeq(text, 1, Len(text) - Len(suffix))
WithoutDot(text) == IF EndsWith(text, ".") THEN Before(text, ".") ELSE text

Suffix(schema, table) == schema \o "." \o table
Topic(prefix, schema, table) == prefix \o "." \o Suffix(schema, table)

TopicSuffix(v) == Suffix(Strip(v.sourceSchema), Strip(v.sourceTable))

HasReusablePattern(v) ==
    /\ NotBlank(v.sourceSchema) /\ NotBlank(v.sourceTable)
    /\ EndsWith(v.cdcTopic, TopicSuffix(v))

ReusablePrefix(v) ==
    IF HasReusablePattern(v) THEN WithoutDot(Before(v.cdcTopic, TopicSuffix(v))) ELSE ""

\* Mutant: every new table gets the default prefix.
InferCdcTopicDefault(tables, namespace, name) == Topic("cdc_sync", namespace, name)

\* The prefix of the first table whose topic ends in its name.
InferCdcTopic(tables, namespace, name) ==
    LET reusable == {i \in DOMAIN tables : ReusablePrefix(tables[i]) # ""}
        first == CHOOSE i \in reusable : \A j \in reusable : i <= j
        prefix == IF reusable = {} THEN "cdc_sync" ELSE ReusablePrefix(tables[first])
    IN  IF namespace = "" \/ name = "" THEN "" ELSE Topic(prefix, namespace, name)

CreateConfiguredTableFromName(name, namespace, tables) ==
    [logicalName |-> Strip(name), sourceSchema |-> Strip(namespace),
     sourceTable |-> Strip(name),
     cdcTopic |-> InferCdcTopic(tables, Strip(namespace), Strip(name)),
     destinationTable |-> Strip(name),
     primaryKeyFields |-> <<"id">>,
     destinationColumns |-> <<[name |-> "id", destinationType |-> "", nullable |-> FALSE]>>,
     enabled |-> TRUE]

\* addTableFromName, which adds nothing for a blank name; the administrator has to fill
\* in the types of the columns.
WithTable(v, name, namespace, type) ==
    LET new == CreateConfiguredTableFromName(name, namespace, v.tables)
    IN  IF NotBlank(name) /\ NotBlank(namespace)
          THEN [v EXCEPT !.tables =
                   Append(@, [new EXCEPT !.destinationColumns[1].destinationType = type])]
          ELSE v
=============================================================================
