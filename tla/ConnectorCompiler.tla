------------------------- MODULE ConnectorCompiler -------------------------
(***************************************************************************)
(* From the configurations of a source to its Debezium connector           *)
(* (debezium_postgres_connector_compiler.py), and the topics the connector *)
(* then writes.  A table identifier is <<schema, table>>; a topic prefix is *)
(* the sequence of its parts between dots.                                 *)
(***************************************************************************)
EXTENDS SyncConfigs

\* _enabled_tables: the enabled tables of the enabled configurations.
TablesToCapture(configs) ==
    {t \in UNION {ToSet(c.tables) : c \in {e \in configs : e.enabled}} : t.enabled}

SimpleIdentifier(text) == Len(Parts(text)) = 1 /\ ~Comma(text)

TableIdentifier(t) == <<t.source_schema, t.source_table>>
ValidTableIdentifier(t) ==
    SimpleIdentifier(t.source_schema) /\ SimpleIdentifier(t.source_table)

CapturedTables(tables) == {TableIdentifier(t) : t \in tables}

\* _topic_prefix_for_table: what precedes ".<schema>.<table>" in the topic.
TopicPrefixForTable(t) ==
    LET parts == Parts(t.cdc_topic) IN SubSeq(parts, 1, Len(parts) - 2)

\* Mutant: the topic only has to end in the table's name.
TopicMatchesTableName(t) ==
    LET parts == Parts(t.cdc_topic)
    IN  /\ Len(parts) >= 3
        /\ parts[Len(parts)] = t.source_table
        /\ TopicPrefixForTable(t) # <<"">>

TopicMatches(t) ==
    LET parts == Parts(t.cdc_topic)
    IN  /\ Len(parts) >= 3
        /\ SubSeq(parts, Len(parts) - 1, Len(parts)) = TableIdentifier(t)
        /\ TopicPrefixForTable(t) # <<"">>

TopicPrefixes(tables) == {TopicPrefixForTable(t) : t \in tables}

\* _topic_prefix: a connector has a single topic.prefix.
OneTopicPrefix(tables) == \A p, q \in TopicPrefixes(tables) : p = q

\* compile: the connector's configuration, or 422.
Compile(source, configs) ==
    LET tables == TablesToCapture(configs)
    IN  IF /\ source.source_type = "postgresql"
           /\ ValidSecretReference(source.credentials)
           /\ tables # {}
           /\ \A t \in tables : ValidTableIdentifier(t) /\ TopicMatches(t)
           /\ OneTopicPrefix(tables)
          THEN [status |-> 200,
                connector |-> [topic_prefix |-> CHOOSE p \in TopicPrefixes(tables) : TRUE,
                               captured_tables |-> CapturedTables(tables),
                               database |-> [host |-> source.host, port |-> source.port,
                                             name |-> source.database_name,
                                             credentials |-> source.credentials]]]
          ELSE Invalid

\* Debezium writes the changes of a captured table to <prefix>.<schema>.<table>.
WritesTopic(connector, topic, identifier) ==
    /\ identifier \in connector.captured_tables
    /\ Parts(topic) = connector.topic_prefix \o identifier
=============================================================================
