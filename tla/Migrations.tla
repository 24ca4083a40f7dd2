----------------------------- MODULE Migrations -----------------------------
(***************************************************************************)
(* The migration history of apps/orders/migrations and the commands that   *)
(* apply it: `alembic upgrade` and `alembic downgrade`, several at once,   *)
(* each of them one transaction (env.py) that may be refused or aborted at *)
(* any statement.                                                          *)
(*                                                                         *)
(* The database is a set of objects, each a pair of its owner, a table, a  *)
(* schema or the version table, and a part: a column with its type, a key, *)
(* a check, an index, a row of the version table.  Statements of one kind  *)
(* on one table that follow each other are one statement: what they change *)
(* is invisible, and the table locked, until the commit.  Alembic itself   *)
(* and PostgreSQL are external; the version table exists.                  *)
(***************************************************************************)
EXTENDS Integers, SequencesExt

CONSTANT Commands       \* terminals or jobs that call alembic

VARIABLES
    database,   \* the committed objects
    added,      \* of each command, what its transaction added
    dropped,    \* and what it dropped
    held,       \* tables, schemas and version rows it has locked
    pc,         \* "off", "running" or "refused", the last command having raised
    at,         \* the revision it has reached
    goal,       \* the revision it was asked for
    line,       \* the next statement of the migration it is in
    alone       \* whether no other command ran while it did

vars == <<database, added, dropped, held, pc, at, goal, line, alone>>

-----------------------------------------------------------------------------
(* Objects *)

Part(kind, name, of) == [kind |-> kind, name |-> name, of |-> of]

Columns(type, names) == {Part("column", n, <<type>>) : n \in names}
Check(name, columns) == {Part("check", name, columns)}
Key(name, columns) == {Part("key", name, columns)}
ForeignKey(column, table) == {Part("foreign key", column, <<table>>)}
Index(name, columns) == {Part("index", name, columns)}

\* Partial on "published_at IS NULL", whose column comes last here.
PendingIndex(columns) == Index("pending", Append(columns, "published_at"))

\* What is stated of a table itself: the schema it is in.
In(schema) == {Part("table", "itself", <<schema>>)}

VersionTable == "orders_alembic_version"
Revisions == <<"20260817_0001", "20260818_0002", "20260819_0003">>
Latest == Len(Revisions)

VersionRow(v) == <<VersionTable, Part("row", Revisions[v], <<>>)>>

Owned(db, owner) == {o \in db : o[1] = owner}

Parts(db, owner) == {o[2] : o \in Owned(db, owner)}

\* The columns a part needs: dropping one drops the part.
Uses(p) ==
    CASE p.kind \in {"index", "check", "key"} -> ToSet(p.of)
      [] p.kind = "foreign key" -> {p.name}
      [] OTHER -> {}

\* The tables and schemas a part refers to.
RefersTo(p) == IF p.kind \in {"table", "foreign key"} THEN ToSet(p.of) ELSE {}

-----------------------------------------------------------------------------
(* Statements *)

Statement(op, owner, parts) == <<[op |-> op, on |-> owner, parts |-> parts]>>

CreateSchema(s) == Statement("create schema", s, {Part("schema", "itself", <<>>)})
DropSchema(s) == Statement("drop schema", s, {})
CreateTable(t, parts) == Statement("create table", t, parts)
DropTable(t) == Statement("drop table", t, {})
Add(t, parts) == Statement("add", t, parts)
Drop(t, kind, names) == Statement("drop", t, {Part(kind, n, <<>>) : n \in names})

Named(db, owner, p) == {q \in Parts(db, owner) : q.kind = p.kind /\ q.name = p.name}

\* Whether PostgreSQL accepts statement s on db.
Accepted(db, s) ==
    \/ s.op = "create schema"
    \/ /\ s.op = "drop schema"
       /\ \A o \in db : s.on \notin RefersTo(o[2])
    \/ /\ s.op = "create table"
       /\ Owned(db, s.on) = {}
       /\ \A p \in s.parts : \A o \in RefersTo(p) : Owned(db, o) # {}
    \/ /\ s.op = "drop table"
       /\ Owned(db, s.on) # {}
       /\ \A o \in db : s.on \in RefersTo(o[2]) => o[1] = s.on
    \/ /\ s.op = "add"
       /\ Owned(db, s.on) # {}
       /\ \A p \in s.parts :
            /\ Named(db, s.on, p) = {}
            /\ \A c \in Uses(p) : \E q \in Parts(db, s.on) : q.kind = "column" /\ q.name = c
    \/ /\ s.op = "drop"
       /\ \A p \in s.parts : Named(db, s.on, p) # {}

\* DROP COLUMN takes the indexes and checks that use the column with it.
Goes(p, s) ==
    \E q \in s.parts :
        \/ p.kind = q.kind /\ p.name = q.name
        \/ q.kind = "column" /\ q.name \in Uses(p)

Effect(db, s) ==
    CASE s.op \in {"drop schema", "drop table"} -> db \ Owned(db, s.on)
      [] s.op = "drop" -> {o \in db : ~ (o[1] = s.on /\ Goes(o[2], s))}
      [] OTHER -> db \union {<<s.on, p>> : p \in s.parts}

\* The tables and schemas a statement needs or affects besides its own.
Concerned(db, s) ==
    UNION {RefersTo(p) : p \in s.parts}
    \union (IF s.op = "drop table" THEN UNION {RefersTo(p) : p \in Parts(db, s.on)} ELSE {})
    \union (IF s.op = "drop schema" THEN {o[1] : o \in {x \in db : s.on \in RefersTo(x[2])}} ELSE {})

\* What a statement locks until its transaction ends.  The lock on a schema, which
\* PostgreSQL shares between those who create tables in it, is exclusive here: two
\* such commands run one migration and meet at its first table.
Locks(db, s) ==
    IF s.op = "create schema" /\ Owned(db, s.on) # {} THEN {} ELSE {s.on} \union Concerned(db, s)

-----------------------------------------------------------------------------
(* The migrations *)

OrdersSchema == "schema orders"
FulfilmentSchema == "schema fulfilment"

create_orders_and_outbox ==
    CreateSchema(OrdersSchema)
    \o CreateTable("orders",
         In(OrdersSchema)
         \union Columns("uuid", {"id", "correlation_id"})
         \union Columns("string", {"customer_id", "sku"})
         \union Columns("integer", {"quantity"})
         \union Columns("timestamp default now", {"created_at"})
         \union Check("quantity_positive", <<"quantity">>)
         \union Key("pk", <<"id">>))
    \o Add("orders", Index("correlation_id", <<"correlation_id">>))
    \o CreateTable("outbox_events",
         In(OrdersSchema)
         \union Columns("uuid", {"event_id", "order_id", "correlation_id"})
         \union Columns("string", {"event_type"})
         \union Columns("integer", {"event_version"})
         \union Columns("timestamp", {"occurred_at"})
         \union Columns("json", {"payload"})
         \union Columns("timestamp or null", {"published_at"})
         \union Check("event_version_positive", <<"event_version">>)
         \union ForeignKey("order_id", "orders")
         \union Key("pk", <<"event_id">>))
    \o Add("outbox_events", Index("correlation_id", <<"correlation_id">>))
    \o Add("outbox_events", PendingIndex(<<"occurred_at">>))

drop_orders_and_outbox ==
    Drop("outbox_events", "index", {"pending"})
    \o Drop("outbox_events", "index", {"correlation_id"})
    \o DropTable("outbox_events")
    \o Drop("orders", "index", {"correlation_id"})
    \o DropTable("orders")

DeliveryColumns ==
    Columns("integer default 0", {"publish_attempts"})
    \union Columns("timestamp default now", {"next_attempt_at"})
    \union Columns("uuid or null", {"lease_owner"})
    \union Columns("timestamp or null", {"lease_expires_at", "last_attempt_at"})
    \union Columns("string or null", {"last_publish_error"})

DeliveryChecks ==
    Check("publish_attempts_nonnegative", <<"publish_attempts">>)
    \union Check("lease_fields_match", <<"lease_owner", "lease_expires_at">>)
    \union Check("published_has_no_lease",
                 <<"published_at", "lease_owner", "lease_expires_at">>)

add_delivery_state_KeepsIndex ==
    Add("outbox_events", DeliveryColumns) \o Add("outbox_events", DeliveryChecks)

add_delivery_state ==
    Add("outbox_events", DeliveryColumns)
    \o Add("outbox_events", DeliveryChecks)
    \o Drop("outbox_events", "index", {"pending"})
    \o Add("outbox_events", PendingIndex(<<"next_attempt_at", "occurred_at">>))

NamesOf(parts) == {p.name : p \in parts}

remove_delivery_state_ColumnsFirst ==
    Drop("outbox_events", "column", NamesOf(DeliveryColumns))
    \o Drop("outbox_events", "check", NamesOf(DeliveryChecks))
    \o Drop("outbox_events", "index", {"pending"})
    \o Add("outbox_events", PendingIndex(<<"occurred_at">>))

remove_delivery_state ==
    Drop("outbox_events", "index", {"pending"})
    \o Add("outbox_events", PendingIndex(<<"occurred_at">>))
    \o Drop("outbox_events", "check", NamesOf(DeliveryChecks))
    \o Drop("outbox_events", "column", NamesOf(DeliveryColumns))

create_fulfilment_schema ==
    CreateSchema(FulfilmentSchema)
    \o CreateTable("processed_events",
         In(FulfilmentSchema)
         \union Columns("uuid", {"event_id", "correlation_id"})
         \union Columns("string", {"event_type"})
         \union Columns("timestamp default now", {"processed_at"})
         \union Key("pk", <<"event_id">>))
    \o Add("processed_events", Index("correlation_id", <<"correlation_id">>))
    \o CreateTable("fulfilments",
         In(FulfilmentSchema)
         \union Columns("uuid", {"id", "order_id", "correlation_id"})
         \union Columns("string", {"customer_id", "sku"})
         \union Columns("integer", {"quantity"})
         \union Columns("timestamp default now", {"created_at"})
         \union Check("quantity_positive", <<"quantity">>)
         \union Key("pk", <<"id">>)
         \union Key("uq_order_id", <<"order_id">>))
    \o Add("fulfilments", Index("correlation_id", <<"correlation_id">>))

drop_fulfilment_schema ==
    Drop("fulfilments", "index", {"correlation_id"})
    \o DropTable("fulfilments")
    \o Drop("processed_events", "index", {"correlation_id"})
    \o DropTable("processed_events")
    \o DropSchema(FulfilmentSchema)

upgrade == <<create_orders_and_outbox, add_delivery_state, create_fulfilment_schema>>

downgrade == <<drop_orders_and_outbox, remove_delivery_state, drop_fulfilment_schema>>

-----------------------------------------------------------------------------
(* What the scripts do, each by itself *)

\* The schema after the first v upgrades, from an empty database.
SchemaAt[v \in 0 .. Latest] ==
    IF v = 0 THEN {} ELSE FoldLeft(Effect, SchemaAt[v - 1], upgrade[v])

\* The first revision leaves its schema behind when it is downgraded.
Tables(db) == {o \in db : o[1] \notin {OrdersSchema, VersionTable}}

Target(u, up) == IF up THEN u + 1 ELSE u - 1

Script(u, up) == IF up THEN upgrade[u + 1] ELSE downgrade[u]

HasTarget(u, up) == Target(u, up) \in 0 .. Latest

\* The schema before each statement of a migration, and after the last.
Stages ==
    [m \in {x \in (0 .. Latest) \X BOOLEAN : HasTarget(x[1], x[2])} |->
        [k \in 1 .. Len(Script(m[1], m[2])) + 1 |->
            FoldLeft(Effect, SchemaAt[m[1]], SubSeq(Script(m[1], m[2]), 1, k - 1))]]

Stage(u, up, k) == Stages[<<u, up>>][k]

\* A migration starts from the schema of its revision and ends with that of the next:
\* a downgrade undoes its upgrade.
LeadsToTarget(u, up, script) ==
    /\ Len(script) \in Nat
    /\ Stage(u, up, 1) = SchemaAt[u]
    /\ \A k \in 1 .. Len(script) : Stage(u, up, k + 1) = Effect(Stage(u, up, k), script[k])
    /\ Tables(Stage(u, up, Len(script) + 1)) = Tables(SchemaAt[Target(u, up)])

\* A schema is created where there is none, for the table that is created next.
CreatesSchema(u, up, k, script) ==
    /\ k < Len(script)
    /\ script[k + 1].op = "create table"
    /\ \E p \in script[k + 1].parts : script[k].on \in RefersTo(p)
    /\ Owned(SchemaAt[u], script[k].on) = {}
    /\ Owned(Stage(u, up, k), script[k].on) = {}
    /\ \A w \in 0 .. Latest :
         Owned(SchemaAt[w], script[k].on) \in {{}, {<<script[k].on, p>> : p \in script[k].parts}}

\* No script touches the version table, and only the first creates in schema "orders".
StatementFits(u, k, s) ==
    /\ s.on # VersionTable
    /\ s.on = OrdersSchema => s.op = "create schema" /\ \A p \in s.parts : p.kind = "schema"
    /\ \A p \in s.parts :
         /\ VersionTable \notin RefersTo(p)
         /\ OrdersSchema \in RefersTo(p) => u = 0 /\ k > 1
    /\ u = 0 => s.op \notin {"drop", "drop table", "drop schema"}

\* The first script creates its schema and then the orders table.
StartsWithOrders(script) ==
    /\ Len(script) > 1
    /\ script[1].op = "create schema" /\ script[1].on = OrdersSchema /\ script[1].parts # {}
    /\ script[2].op = "create table" /\ script[2].on = "orders"

ASSUME ScriptsFit ==
    /\ SchemaAt[0] = {}
    /\ \A v \in 1 .. Latest : Owned(SchemaAt[v], "orders") # {}
    /\ \A u \in 0 .. Latest, up \in BOOLEAN : HasTarget(u, up) =>
         /\ LeadsToTarget(u, up, Script(u, up))
         /\ \A k \in 1 .. Len(Script(u, up)) :
              /\ StatementFits(u, k, Script(u, up)[k])
              /\ Script(u, up)[k].op = "create schema" => CreatesSchema(u, up, k, Script(u, up))
         /\ u = 0 => StartsWithOrders(Script(u, up))

\* Applied to the schema of its revision no statement is refused.
ScriptsGoThrough ==
    \A u \in 0 .. Latest, up \in BOOLEAN : HasTarget(u, up) =>
        \A k \in 1 .. Len(Script(u, up)) : Accepted(Stage(u, up, k), Script(u, up)[k])

-----------------------------------------------------------------------------
(* Commands *)

Init ==
    /\ database = {}
    /\ added = [c \in Commands |-> {}]
    /\ dropped = [c \in Commands |-> {}]
    /\ held = [c \in Commands |-> {}]
    /\ pc = [c \in Commands |-> "off"]
    /\ at = [c \in Commands |-> 0]
    /\ goal = [c \in Commands |-> 0]
    /\ line = [c \in Commands |-> 0]
    /\ alone = [c \in Commands |-> FALSE]

Running(c) == pc[c] = "running"

\* What the transaction of c sees: DDL reads the latest committed catalogue.
View(c) == (database \ dropped[c]) \union added[c]

Records(db, v) == Owned(db, VersionTable) = IF v = 0 THEN {} ELSE {VersionRow(v)}

NextRevision(c) == IF at[c] < goal[c] THEN at[c] + 1 ELSE at[c] - 1

Migration(c) == IF at[c] < goal[c] THEN upgrade[at[c] + 1] ELSE downgrade[at[c]]

\* The command reads the version table, unlocked, at the start of its transaction.
\* One that is asked for the revision it finds does nothing.
Begin(c, v) ==
    /\ ~ Running(c)
    /\ pc' = [pc EXCEPT ![c] = "running"]
    /\ \E u \in 0 .. Latest \ {v} :
         /\ Records(database, u)
         /\ at' = [at EXCEPT ![c] = u]
    /\ goal' = [goal EXCEPT ![c] = v]
    /\ line' = [line EXCEPT ![c] = 1]
    /\ alone' = [d \in Commands |->
                   IF d = c THEN \A e \in Commands : ~ Running(e)
                            ELSE alone[d] /\ ~ Running(d)]
    /\ UNCHANGED <<database, added, dropped, held>>

Leave(c, label) ==
    /\ pc' = [pc EXCEPT ![c] = label]
    /\ added' = [added EXCEPT ![c] = {}]
    /\ dropped' = [dropped EXCEPT ![c] = {}]
    /\ held' = [held EXCEPT ![c] = {}]
    /\ at' = [at EXCEPT ![c] = 0]
    /\ goal' = [goal EXCEPT ![c] = 0]
    /\ line' = [line EXCEPT ![c] = 0]
    /\ alone' = [alone EXCEPT ![c] = @ /\ label = "refused"]

Refuse_KeepsStatements(c) == Leave(c, "refused") /\ database' = View(c)

\* A statement raises: the transaction, all of the command, is rolled back.
Refuse(c) == Leave(c, "refused") /\ UNCHANGED database

Write(c, new) ==
    /\ added' = [added EXCEPT ![c] = (@ \intersect new) \union (new \ View(c))]
    /\ dropped' = [dropped EXCEPT ![c] = (@ \ new) \union (View(c) \ new)]
    /\ UNCHANGED <<database, pc, goal, alone>>

Acquire(c, locks) ==
    /\ \A d \in Commands \ {c} : held[d] \intersect locks = {}
    /\ held' = [held EXCEPT ![c] = @ \union locks]

\* The next statement of the migration, once nobody else has what it locks.
Execute(c) ==
    /\ Running(c) /\ at[c] # goal[c] /\ line[c] <= Len(Migration(c))
    /\ LET s == Migration(c)[line[c]] IN
         /\ Accepted(View(c), s)
         /\ Acquire(c, Locks(View(c), s))
         /\ Write(c, Effect(View(c), s))
    /\ line' = [line EXCEPT ![c] = @ + 1]
    /\ UNCHANGED at

ExecuteRefused(c) ==
    /\ Running(c) /\ at[c] # goal[c] /\ line[c] <= Len(Migration(c))
    /\ LET s == Migration(c)[line[c]] IN
         /\ ~ Accepted(View(c), s)
         /\ \A d \in Commands \ {c} : held[d] \intersect Locks(View(c), s) = {}
    /\ Refuse(c)

Migrated(c) == Running(c) /\ at[c] # goal[c] /\ line[c] > Len(Migration(c))

\* The row of a revision, none for the base.
RowOf(v) == IF v = 0 THEN {} ELSE {VersionRow(v)}

RowLocks(c) == {Revisions[v] : v \in {at[c], NextRevision(c)} \ {0}}

\* The row to update or delete is there, and the new one, a primary key, is not.
RowMatched(c) ==
    /\ RowOf(at[c]) \subseteq View(c)
    /\ RowOf(NextRevision(c)) \intersect View(c) = {}

WriteVersion(c) ==
    /\ Acquire(c, RowLocks(c))
    /\ Write(c, (View(c) \ RowOf(at[c])) \union RowOf(NextRevision(c)))
    /\ at' = [at EXCEPT ![c] = NextRevision(c)]
    /\ line' = [line EXCEPT ![c] = 1]

\* After each migration the version row is inserted, updated or deleted.
Stamp(c) ==
    /\ Migrated(c)
    /\ RowMatched(c)
    /\ WriteVersion(c)

\* "Online migration expected to match one row", or the key is taken.
StampRefused(c) ==
    /\ Migrated(c)
    /\ ~ RowMatched(c)
    /\ \A d \in Commands \ {c} : held[d] \intersect RowLocks(c) = {}
    /\ Refuse(c)

Commit(c) ==
    /\ Running(c) /\ at[c] = goal[c]
    /\ database' = View(c)
    /\ Leave(c, "off")

Abort_KeepsStatements(c) ==
    /\ Running(c)
    /\ database' = View(c)
    /\ Leave(c, "off")

\* The process is killed, the connection lost, or the transaction chosen to break a
\* deadlock of commands that wait for each other's locks.
Abort(c) ==
    /\ Running(c)
    /\ Leave(c, "off")
    /\ UNCHANGED database

Next ==
    \E c \in Commands :
        \/ \E v \in 0 .. Latest : Begin(c, v)
        \/ Execute(c) \/ ExecuteRefused(c)
        \/ Stamp(c) \/ StampRefused(c)
        \/ Commit(c) \/ Abort(c)

Spec == Init /\ [][Next]_vars

-----------------------------------------------------------------------------
(* Properties *)

\* Every variable has its type, a command that is not running has no transaction
\* and no lock, and no two commands hold one lock.
TypeOK ==
    /\ pc \in [Commands -> {"off", "running", "refused"}]
    /\ at \in [Commands -> 0 .. Latest]
    /\ goal \in [Commands -> 0 .. Latest]
    /\ line \in [Commands -> Nat]
    /\ alone \in [Commands -> BOOLEAN]
    /\ {DOMAIN added, DOMAIN dropped, DOMAIN held} = {Commands}
    /\ \A c \in Commands :
         /\ ~ Running(c) => added[c] \union dropped[c] \union held[c] = {}
         /\ \A d \in Commands \ {c} : held[c] \intersect held[d] = {}

\* Whatever commands overlapped, failed halfway or went up and down, the database
\* is the one of the revision its version table names: env.py runs a command in one
\* transaction, a downgrade undoes its upgrade, and one row at most is kept.
SchemaMatchesVersion ==
    \E v \in 0 .. Latest :
        Records(database, v) /\ Tables(database) = Tables(SchemaAt[v])

\* A command is refused by the database only if another one ran at the same time:
\* from every state they leave behind, a lone upgrade or downgrade goes through.
LoneCommandSucceeds == \A c \in Commands : pc[c] = "refused" => ~ alone[c]

\* What the services map their rows to (models.py of orders and fulfilment).
Of(table, schema, parts) == {<<table, p>> : p \in In(schema) \union parts}

Models ==
    {<<FulfilmentSchema, Part("schema", "itself", <<>>)>>}
    \union Of("orders", OrdersSchema,
         Columns("uuid", {"id", "correlation_id"})
         \union Columns("string", {"customer_id", "sku"})
         \union Columns("integer", {"quantity"})
         \union Columns("timestamp default now", {"created_at"})
         \union Key("pk", <<"id">>)
         \union Check("quantity_positive", <<"quantity">>)
         \union Index("correlation_id", <<"correlation_id">>))
    \union Of("outbox_events", OrdersSchema,
         Columns("uuid", {"event_id", "order_id", "correlation_id"})
         \union Columns("string", {"event_type"})
         \union Columns("string or null", {"last_publish_error"})
         \union Columns("integer", {"event_version"})
         \union Columns("integer default 0", {"publish_attempts"})
         \union Columns("timestamp", {"occurred_at"})
         \union Columns("timestamp default now", {"next_attempt_at"})
         \union Columns("timestamp or null",
                        {"published_at", "lease_expires_at", "last_attempt_at"})
         \union Columns("uuid or null", {"lease_owner"})
         \union Columns("json", {"payload"})
         \union Key("pk", <<"event_id">>)
         \union ForeignKey("order_id", "orders")
         \union Check("event_version_positive", <<"event_version">>)
         \union Check("publish_attempts_nonnegative", <<"publish_attempts">>)
         \union Check("lease_fields_match", <<"lease_owner", "lease_expires_at">>)
         \union Check("published_has_no_lease",
                      <<"published_at", "lease_owner", "lease_expires_at">>)
         \union Index("correlation_id", <<"correlation_id">>)
         \union PendingIndex(<<"next_attempt_at", "occurred_at">>))
    \union Of("processed_events", FulfilmentSchema,
         Columns("uuid", {"event_id", "correlation_id"})
         \union Columns("string", {"event_type"})
         \union Columns("timestamp default now", {"processed_at"})
         \union Key("pk", <<"event_id">>)
         \union Index("correlation_id", <<"correlation_id">>))
    \union Of("fulfilments", FulfilmentSchema,
         Columns("uuid", {"id", "order_id", "correlation_id"})
         \union Columns("string", {"customer_id", "sku"})
         \union Columns("integer", {"quantity"})
         \union Columns("timestamp default now", {"created_at"})
         \union Key("pk", <<"id">>)
         \union Key("uq_order_id", <<"order_id">>)
         \union Check("quantity_positive", <<"quantity">>)
         \union Index("correlation_id", <<"correlation_id">>))

\* At the last revision, however it was reached, the tables are those the services
\* were written for.
LatestIsTheModels == Records(database, Latest) => Tables(database) = Models

-----------------------------------------------------------------------------
(* What every step preserves *)

\* A command that has written the version row: the only one whose commit changes anything.
Stamped(c) == Owned(added[c] \union dropped[c], VersionTable) # {}

\* The schema its script has got to.
StageOf(c) ==
    IF at[c] = goal[c] THEN SchemaAt[at[c]] ELSE Stage(at[c], at[c] < goal[c], line[c])

\* The schema the statement before has created, or found: then it has locked nothing.
JustCreated(c) ==
    {Migration(c)[k].on : k \in {j \in {line[c] - 1} \ {0} : Migration(c)[j].op = "create schema"}}

Except(db, owners) == {o \in Tables(db) : o[1] \notin owners}

OnItsWay(c) ==
    Running(c) =>
        IF at[c] = goal[c] THEN Stamped(c) ELSE line[c] \in 1 .. Len(Migration(c)) + 1

\* A command changes what it has locked, schema "orders" and the version row aside.
TouchedIsLocked(c) ==
    \A o \in added[c] \union dropped[c] : o[1] \in held[c] \union {OrdersSchema, VersionTable}

\* Whatever was committed meanwhile, a table that an unstamped command has locked is as its
\* script makes it, provided it is committed as its revision has it; what the command has
\* not locked its script has not changed.
ScriptFollowed(c) ==
    Running(c) /\ ~ Stamped(c) =>
        /\ \A t \in held[c] \ {OrdersSchema, VersionTable} :
             Owned(database, t) = Owned(SchemaAt[at[c]], t) =>
                 Owned(View(c), t) = Owned(StageOf(c), t)
        /\ Except(StageOf(c), held[c] \union JustCreated(c)) =
           Except(SchemaAt[at[c]], held[c] \union JustCreated(c))

\* The first upgrade matches no version row: what keeps others out is the name of its table.
FirstTableIsNew(c) ==
    Running(c) /\ ~ Stamped(c) /\ at[c] = 0 =>
        /\ dropped[c] = {}
        /\ line[c] > 2 => "orders" \in held[c] /\ Owned(database, "orders") = {}

\* A stamped command is where its version row says, and holds the lock that every other
\* would need to stamp.
StampedHoldsVersion(c) ==
    Stamped(c) =>
        /\ Records(View(c), at[c])
        /\ Tables(View(c)) = Tables(StageOf(c))
        /\ \E w \in 0 .. Latest :
             /\ Records(database, w)
             /\ Revisions[IF w = 0 THEN 1 ELSE w] \in held[c]

\* A command without company sees just what its script has made.
LoneOnCourse(c) ==
    Running(c) /\ alone[c] =>
        /\ \A d \in Commands \ {c} : ~ Running(d)
        /\ Records(View(c), at[c])
        /\ Tables(View(c)) = Tables(StageOf(c))
        /\ at[c] = 0 /\ line[c] > 1 => Owned(View(c), OrdersSchema) # {}

\* Schema "orders" owns nothing but itself.
SchemaIsItself(db) == \A o \in db : o[1] = OrdersSchema => o[2].kind = "schema"

CommandInvariant(c) ==
    /\ OnItsWay(c)
    /\ TouchedIsLocked(c)
    /\ ScriptFollowed(c)
    /\ FirstTableIsNew(c)
    /\ StampedHoldsVersion(c)
    /\ LoneOnCourse(c)
    /\ SchemaIsItself(added[c])

MigrationInvariant ==
    /\ TypeOK
    /\ SchemaMatchesVersion
    /\ SchemaIsItself(database)
    /\ \A c \in Commands : CommandInvariant(c)
=============================================================================
