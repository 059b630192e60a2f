---------------------------- MODULE MCDeployment ----------------------------
(* Two workers on one source with tables public.customers and public.orders. *)
EXTENDS Deployment

\* Blanks in front of a text.
MCStrip(text) ==
    CASE text = " customers" -> "customers"
      [] text = " id" -> "id"
      [] text = " cdc.public.customers" -> "cdc.public.customers"
      [] text = " secret" -> "secret"
      [] text = " sales" -> "sales"
      [] text = " " -> ""
      [] OTHER -> text

MCParts(text) ==
    CASE text = "cdc.public.customers" -> <<"cdc", "public", "customers">>
      [] text = "cdc.public.orders" -> <<"cdc", "public", "orders">>
      [] text = "cdc.sales.orders" -> <<"cdc", "sales", "orders">>
      [] text = "crm.public.orders" -> <<"crm", "public", "orders">>
      [] text = ".public.orders" -> <<"", "public", "orders">>
      [] text = "cdc.sales.invoices" -> <<"cdc", "sales", "invoices">>
      [] text = "crm.sales.invoices" -> <<"crm", "sales", "invoices">>
      [] text = "cdc_sync.sales.invoices" -> <<"cdc_sync", "sales", "invoices">>
      [] OTHER -> <<text>>

MCCommaParts(text) == IF text = "id,line" THEN <<"id", "line">> ELSE <<text>>

MCWorkers == {"w1", "w2"}

Column(name, nullable) ==
    [name |-> name, destination_type |-> "String", nullable |-> nullable]

Table(name, topic) ==
    [logical_name |-> name, source_schema |-> "public", source_table |-> name,
     cdc_topic |-> topic, destination_table |-> name,
     primary_key_fields |-> <<"id">>,
     destination_columns |-> <<Column("id", FALSE), Column("name", TRUE)>>,
     enabled |-> TRUE]

Config(tables) == [sync_mode |-> "realtime", tables |-> tables, enabled |-> TRUE]

Customers == Table("customers", "cdc.public.customers")
Orders == [Table("orders", "cdc.public.orders") EXCEPT
             !.primary_key_fields = <<"id", "line">>,
             !.destination_columns = <<Column("line", FALSE), Column("id", FALSE)>>]

\* What may be wrong, or unusual, with the table of customers ...
CustomersRequests ==
    {Customers,
     [Customers EXCEPT !.logical_name = " customers", !.source_table = " customers",
                       !.cdc_topic = " cdc.public.customers",
                       !.primary_key_fields = <<" id">>],
     [Customers EXCEPT !.logical_name = " "],
     [Customers EXCEPT !.logical_name = "clients"],
     [Customers EXCEPT !.enabled = FALSE],
     [Customers EXCEPT !.primary_key_fields = <<"id", "id">>],
     [Customers EXCEPT !.primary_key_fields = <<"name">>],
     [Customers EXCEPT !.primary_key_fields = <<"id,line">>,
                       !.destination_columns = <<Column("id,line", FALSE)>>],
     [Customers EXCEPT !.destination_columns = <<Column("id", FALSE)>>],
     [Customers EXCEPT !.destination_columns = Append(@, Column("version", FALSE))]}

\* ... and with that of orders.
OrdersRequests ==
    {Orders,
     [Orders EXCEPT !.destination_table = "customers"],
     [Orders EXCEPT !.cdc_topic = "cdc.sales.orders"],
     [Orders EXCEPT !.cdc_topic = "crm.public.orders"],
     [Orders EXCEPT !.cdc_topic = ".public.orders"]}

MCRequests ==
    [w \in MCWorkers |->
       IF w = "w1"
         THEN {Config(<<c, Orders>>) : c \in CustomersRequests}
                \cup {Config(<<Customers, o>>) : o \in OrdersRequests}
                \cup {Config(<<Customers, [Customers EXCEPT !.logical_name = " customers"]>>),
                      Config(<<>>), [Config(<<Customers>>) EXCEPT !.sync_mode = "batch"]}
         ELSE {Config(<<Orders>>), [Config(<<Orders>>) EXCEPT !.enabled = FALSE],
               Config(<<[Orders EXCEPT !.destination_table = "lines"]>>)}]

MCNewTables == {<<"invoices", " sales">>, <<" ", "sales">>}

Endpoint(type, port) ==
    IF type = "postgresql"
      THEN [source_type |-> type, host |-> "postgres", port |-> port,
            database_name |-> "cdc_sync",
            credentials |-> [user |-> "cdc", password |-> " secret"]]
      ELSE [destination_type |-> type, host |-> "clickhouse", port |-> port,
            secure |-> FALSE, database_name |-> "analytics",
            credentials |-> [user |-> "cdc", password |-> " secret"]]

MCConnections ==
    {[source |-> Endpoint("postgresql", 5432),
      destination |-> Endpoint("clickhouse", port),
      settings |-> [bootstrap_servers |-> "kafka:9092", client_id_prefix |-> "cdc",
                    auto_offset_reset |-> "earliest", poll_timeout_ms |-> 1000]] :
        port \in {0, 9000}}

MCSourceTables ==
    {[schema |-> "public", table |-> "customers", key |-> <<"id">>,
      columns |-> ("id" :> FALSE @@ "name" :> TRUE)],
     [schema |-> "public", table |-> "orders", key |-> <<"id", "line">>,
      columns |-> ("id" :> FALSE @@ "line" :> FALSE @@ "note" :> TRUE)],
     [schema |-> "sales", table |-> "invoices", key |-> <<"id">>,
      columns |-> ("id" :> FALSE @@ "note" :> TRUE)]}
=============================================================================
