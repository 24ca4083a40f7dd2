--------------------------- MODULE MigrationsProofs ---------------------------
(***************************************************************************)
(* Theorems about Migrations for any number of commands that overlap,      *)
(* checked by TLAPS.  What the scripts do each by itself is a matter of    *)
(* evaluating closed formulas: TLC does that (ScriptsFit), and what        *)
(* commands do to each other is proved here.                               *)
(***************************************************************************)
EXTENDS Migrations, TLAPS

-----------------------------------------------------------------------------
(* Databases owner by owner *)

Ordinary(t) == t \notin {OrdersSchema, VersionTable}

\* Databases with the same objects of every owner have the same tables.
LEMMA TablesByOwner ==
  ASSUME NEW a, NEW b, \A t : Ordinary(t) => Owned(a, t) = Owned(b, t)
  PROVE  Tables(a) = Tables(b)
<1>1. ASSUME NEW x, NEW y, NEW o \in Tables(x), \A t : Ordinary(t) => Owned(x, t) = Owned(y, t)
      PROVE  o \in Tables(y)
  <2>1. o \in Owned(x, o[1]) /\ Ordinary(o[1])
    BY DEF Tables, Owned, Ordinary
  <2>2. o \in Owned(y, o[1])
    BY <1>1, <2>1
  <2> QED
    BY <2>1, <2>2 DEF Tables, Owned, Ordinary
<1> QED
  BY <1>1

\* And the other way round.
LEMMA OwnersOfTables ==
  ASSUME NEW a, NEW b, Tables(a) = Tables(b), NEW t, Ordinary(t)
  PROVE  Owned(a, t) = Owned(b, t)
<1>1. \A x : Owned(x, t) = {o \in Tables(x) : o[1] = t}
  BY DEF Owned, Tables, Ordinary
<1> QED
  BY <1>1

\* The same for the tables of some owners only.
LEMMA ExceptByOwner ==
  ASSUME NEW a, NEW b, NEW T, \A t : Ordinary(t) /\ t \notin T => Owned(a, t) = Owned(b, t)
  PROVE  Except(a, T) = Except(b, T)
<1>1. ASSUME NEW x, NEW y, NEW o \in Except(x, T),
             \A t : Ordinary(t) /\ t \notin T => Owned(x, t) = Owned(y, t)
      PROVE  o \in Except(y, T)
  <2>1. o \in Owned(x, o[1]) /\ Ordinary(o[1]) /\ o[1] \notin T
    BY DEF Except, Tables, Owned, Ordinary
  <2>2. o \in Owned(y, o[1])
    BY <1>1, <2>1
  <2> QED
    BY <2>1, <2>2 DEF Except, Tables, Owned, Ordinary
<1> QED
  BY <1>1

\* And the other way round.
LEMMA OwnersOfExcept ==
  ASSUME NEW a, NEW b, NEW T, Except(a, T) = Except(b, T), NEW t, Ordinary(t), t \notin T
  PROVE  Owned(a, t) = Owned(b, t)
<1>1. \A x : Owned(x, t) = {o \in Except(x, T) : o[1] = t}
  BY DEF Owned, Tables, Except, Ordinary
<1> QED
  BY <1>1

\* A statement changes nothing but what its own table or schema owns.
LEMMA EffectElsewhere ==
  ASSUME NEW a, NEW s, NEW t, t # s.on
  PROVE  Owned(Effect(a, s), t) = Owned(a, t)
<1>1. CASE s.op \in {"drop schema", "drop table"}
  BY <1>1 DEF Effect, Owned
<1>2. CASE s.op = "drop"
  BY <1>2 DEF Effect, Owned
<1>3. CASE s.op \notin {"drop schema", "drop table", "drop"}
  <2>1. Effect(a, s) = a \union {<<s.on, p>> : p \in s.parts}
    BY <1>3 DEF Effect
  <2>2. \A o \in {<<s.on, p>> : p \in s.parts} : o[1] = s.on
    OBVIOUS
  <2> QED
    BY <2>1, <2>2 DEF Owned
<1> QED
  BY <1>1, <1>2, <1>3

\* What it does to an owner depends on what that owner has.
LEMMA EffectOfOwner ==
  ASSUME NEW a, NEW b, NEW s, NEW t, Owned(a, t) = Owned(b, t)
  PROVE  Owned(Effect(a, s), t) = Owned(Effect(b, s), t)
<1>1. CASE t # s.on
  BY <1>1, EffectElsewhere
<1>2. CASE t = s.on
  <2> SUFFICES ASSUME NEW o, NEW x, NEW y, Owned(x, t) = Owned(y, t), o \in Owned(Effect(x, s), t)
               PROVE  o \in Owned(Effect(y, s), t)
    BY SMT
  <2>0. o[1] = t /\ (o \in x <=> o \in y)
    BY DEF Owned
  <2>1. CASE s.op \in {"drop schema", "drop table"}
    BY <1>2, <2>0, <2>1 DEF Effect, Owned
  <2>2. CASE s.op = "drop"
    BY <1>2, <2>0, <2>2 DEF Effect, Owned
  <2>3. CASE s.op \notin {"drop schema", "drop table", "drop"}
    BY <1>2, <2>0, <2>3 DEF Effect, Owned
  <2> QED
    BY <2>1, <2>2, <2>3
<1> QED
  BY <1>1, <1>2

\* So it makes the same tables of the same tables.
LEMMA EffectOnTables ==
  ASSUME NEW a, NEW b, NEW s, Tables(a) = Tables(b)
  PROVE  Tables(Effect(a, s)) = Tables(Effect(b, s))
  BY TablesByOwner, OwnersOfTables, EffectOfOwner

\* A statement that drops nothing keeps what was there.
LEMMA EffectKeeps ==
  ASSUME NEW a, NEW s, s.op \notin {"drop", "drop table", "drop schema"}
  PROVE  a \subseteq Effect(a, s)
  BY DEF Effect

\* There are three revisions.
LEMMA LatestIs == Latest = 3
  BY DEF Latest, Revisions

\* The database is at one revision.
LEMMA OneRevision ==
  ASSUME NEW db, NEW v \in 0 .. Latest, NEW w \in 0 .. Latest, Records(db, v), Records(db, w)
  PROVE  v = w
<1>1. Latest = 3
  BY DEF Latest, Revisions
<1>2. \A x \in 0 .. Latest : Owned(db, VersionTable) = (IF x = 0 THEN {} ELSE {VersionRow(x)}) <=> Records(db, x)
  BY DEF Records
<1>3. /\ VersionRow(1) # VersionRow(2)
      /\ VersionRow(1) # VersionRow(3)
      /\ VersionRow(2) # VersionRow(3)
  BY DEF VersionRow, Revisions, Part
<1> QED
  BY <1>1, <1>3 DEF Records

-----------------------------------------------------------------------------
(* What a command writes *)

\* After a write the transaction sees what it has written.
LEMMA WriteView ==
  ASSUME NEW c \in Commands, NEW new, TypeOK, Write(c, new)
  PROVE  View(c)' = new
  BY DEF Write, View, TypeOK

\* Of an owner whose objects it leaves as they are, it has changed what it had.
LEMMA WriteElsewhere ==
  ASSUME NEW c \in Commands, NEW new, TypeOK, Write(c, new), NEW t,
         Owned(new, t) = Owned(View(c), t)
  PROVE  Owned(added'[c] \union dropped'[c], t) = Owned(added[c] \union dropped[c], t)
  BY DEF Write, View, TypeOK, Owned

-----------------------------------------------------------------------------
(* Where a command is in its script *)

Up(c) == at[c] < goal[c]

\* The migration a command is in is one of those the assumptions speak of.
LEMMA InAScript ==
  ASSUME TypeOK, NEW c \in Commands, at[c] # goal[c]
  PROVE  /\ at[c] \in 0 .. Latest
         /\ Up(c) \in BOOLEAN
         /\ HasTarget(at[c], Up(c))
         /\ Migration(c) = Script(at[c], Up(c))
         /\ NextRevision(c) = Target(at[c], Up(c))
         /\ NextRevision(c) \in 0 .. Latest
         /\ StageOf(c) = Stage(at[c], Up(c), line[c])
<1>1. Latest = 3
  BY DEF Latest, Revisions
<1>2. at[c] \in 0 .. Latest /\ goal[c] \in 0 .. Latest
  BY DEF TypeOK
<1>3. /\ Migration(c) = Script(at[c], Up(c))
      /\ NextRevision(c) = Target(at[c], Up(c))
      /\ Up(c) \in BOOLEAN
  BY DEF Migration, Script, Up, NextRevision, Target
<1>4. NextRevision(c) \in 0 .. Latest
  BY <1>1, <1>2 DEF NextRevision
<1> QED
  BY <1>2, <1>3, <1>4 DEF StageOf, Up, HasTarget

\* What its script leads to.
LEMMA ItsScript ==
  ASSUME TypeOK, NEW c \in Commands, at[c] # goal[c]
  PROVE  /\ LeadsToTarget(at[c], Up(c), Migration(c))
         /\ Len(Migration(c)) \in Nat
         /\ at[c] = 0 => StartsWithOrders(Migration(c))
<1>1. HasTarget(at[c], Up(c)) /\ Migration(c) = Script(at[c], Up(c))
      /\ at[c] \in 0 .. Latest /\ Up(c) \in BOOLEAN
  BY InAScript
<1>2. LeadsToTarget(at[c], Up(c), Migration(c)) /\ (at[c] = 0 => StartsWithOrders(Migration(c)))
  BY <1>1, ScriptsFit
<1> QED
  BY <1>2 DEF LeadsToTarget

\* And what is known of each of its statements.
LEMMA ItsStatement ==
  ASSUME TypeOK, NEW c \in Commands, at[c] # goal[c], NEW k \in 1 .. Len(Migration(c))
  PROVE  /\ Stage(at[c], Up(c), k + 1) = Effect(Stage(at[c], Up(c), k), Migration(c)[k])
         /\ StatementFits(at[c], k, Migration(c)[k])
         /\ Migration(c)[k].op = "create schema" => CreatesSchema(at[c], Up(c), k, Migration(c))
<1>1. HasTarget(at[c], Up(c)) /\ Migration(c) = Script(at[c], Up(c))
      /\ at[c] \in 0 .. Latest /\ Up(c) \in BOOLEAN
  BY InAScript
<1>2. /\ StatementFits(at[c], k, Migration(c)[k])
      /\ Migration(c)[k].op = "create schema" => CreatesSchema(at[c], Up(c), k, Migration(c))
  BY <1>1, ScriptsFit
<1> QED
  BY <1>2, ItsScript DEF LeadsToTarget

\* What a command has not locked it sees as it is committed.
LEMMA UnlockedAsCommitted ==
  ASSUME NEW c \in Commands, TouchedIsLocked(c), NEW t, Ordinary(t), t \notin held[c]
  PROVE  Owned(View(c), t) = Owned(database, t)
<1>1. \A o \in added[c] \union dropped[c] : o[1] # t
  BY DEF TouchedIsLocked, Ordinary
<1> QED
  BY <1>1 DEF Owned, View

\* The committed tables are those of the revision the version table names.
LEMMA CommittedTables ==
  ASSUME SchemaMatchesVersion, NEW v \in 0 .. Latest, Records(database, v)
  PROVE  Tables(database) = Tables(SchemaAt[v])
  BY OneRevision DEF SchemaMatchesVersion

-----------------------------------------------------------------------------
(* A statement *)

\* The command that executes a statement.
LEMMA ExecuteEffect ==
  ASSUME TypeOK, NEW c \in Commands, Execute(c), OnItsWay(c)
  PROVE  LET s == Migration(c)[line[c]] IN
         /\ line[c] \in 1 .. Len(Migration(c))
         /\ Accepted(View(c), s)
         /\ View(c)' = Effect(View(c), s)
         /\ StageOf(c)' = Effect(StageOf(c), s)
         /\ Migration(c)' = Migration(c)
         /\ held'[c] = held[c] \union Locks(View(c), s)
         /\ line'[c] = line[c] + 1
         /\ \A t : t # s.on => Owned(added'[c] \union dropped'[c], t)
                               = Owned(added[c] \union dropped[c], t)
         /\ Stamped(c)' = Stamped(c)
         /\ UNCHANGED <<database, at, goal, pc, alone>>
<1> DEFINE s == Migration(c)[line[c]]
<1>1. at[c] # goal[c] /\ Write(c, Effect(View(c), s)) /\ UNCHANGED <<database, at, goal, pc, alone>>
  BY DEF Execute, Write
<1>2. line[c] \in 1 .. Len(Migration(c)) /\ Accepted(View(c), s)
  BY <1>1, InAScript DEF Execute, OnItsWay
<1>3. View(c)' = Effect(View(c), s)
  BY <1>1, WriteView
<1>4. /\ held'[c] = held[c] \union Locks(View(c), s)
      /\ line'[c] = line[c] + 1
      /\ Migration(c)' = Migration(c)
  BY <1>1 DEF Execute, Acquire, TypeOK, Migration
<1>5. StageOf(c)' = Stage(at[c], Up(c), line[c] + 1) /\ StageOf(c) = Stage(at[c], Up(c), line[c])
  BY <1>1, <1>4 DEF StageOf, Up
<1>6. StageOf(c)' = Effect(StageOf(c), s) /\ s.on # VersionTable
  BY <1>1, <1>2, <1>5, ItsStatement DEF StatementFits
<1>7. ASSUME NEW t, t # s.on
      PROVE  Owned(added'[c] \union dropped'[c], t) = Owned(added[c] \union dropped[c], t)
  BY <1>1, <1>7, EffectElsewhere, WriteElsewhere
<1>8. Stamped(c)' = Stamped(c)
  BY <1>6, <1>7 DEF Stamped
<1> QED
  BY <1>1, <1>2, <1>3, <1>4, <1>6, <1>7, <1>8

\* A statement locks its table or schema, unless it finds the schema it would create.
LEMMA LocksItsOwn ==
  ASSUME NEW db, NEW s
  PROVE  s.on \in Locks(db, s) \/ (s.op = "create schema" /\ Owned(db, s.on) # {})
  BY DEF Locks

\* It changes what it has locked: a schema that it finds it leaves as it is.
LEMMA ExecuteLocks ==
  ASSUME TypeOK, SchemaMatchesVersion, NEW c \in Commands, CommandInvariant(c), Execute(c)
  PROVE  TouchedIsLocked(c)'
<1> DEFINE s == Migration(c)[line[c]]
<1>1. /\ line[c] \in 1 .. Len(Migration(c))
      /\ View(c)' = Effect(View(c), s)
      /\ held'[c] = held[c] \union Locks(View(c), s)
      /\ \A t : t # s.on => Owned(added'[c] \union dropped'[c], t)
                            = Owned(added[c] \union dropped[c], t)
      /\ at[c] # goal[c]
      /\ Write(c, Effect(View(c), s))
  BY ExecuteEffect DEF CommandInvariant, Execute
<1> SUFFICES ASSUME NEW o \in added'[c] \union dropped'[c],
                    Ordinary(o[1]), o[1] \notin held'[c]
             PROVE  FALSE
  BY DEF TouchedIsLocked, Ordinary
<1>2. o \notin added[c] \union dropped[c]
  BY <1>1 DEF CommandInvariant, TouchedIsLocked, Ordinary
<1>3. o \in Owned(added'[c] \union dropped'[c], o[1]) /\ o \notin Owned(added[c] \union dropped[c], o[1])
  BY <1>2 DEF Owned
<1>4. o[1] = s.on
  BY <1>1, <1>3
<1>5. s.on \notin held[c] /\ s.op = "create schema" /\ Owned(View(c), s.on) # {}
  BY <1>1, <1>4, LocksItsOwn
<1>6. /\ Owned(Stage(at[c], Up(c), line[c]), s.on) = {}
      /\ \A w \in 0 .. Latest : Owned(SchemaAt[w], s.on) \in {{}, {<<s.on, p>> : p \in s.parts}}
  BY <1>1, <1>5, ItsStatement DEF CreatesSchema
<1>7. ~ Stamped(c)
  <2>1. StageOf(c) = Stage(at[c], Up(c), line[c])
    BY <1>1, InAScript
  <2>2. Owned(View(c), s.on) # Owned(StageOf(c), s.on)
    BY <1>5, <1>6, <2>1
  <2> QED
    BY <1>4, <2>2, OwnersOfTables DEF CommandInvariant, StampedHoldsVersion
<1>8. Owned(View(c), s.on) = {<<s.on, p>> : p \in s.parts}
  <2>1. Owned(View(c), s.on) = Owned(database, s.on)
    BY <1>4, <1>5, UnlockedAsCommitted DEF CommandInvariant
  <2>2. PICK w \in 0 .. Latest : Tables(database) = Tables(SchemaAt[w])
    BY DEF SchemaMatchesVersion
  <2>3. Owned(database, s.on) = Owned(SchemaAt[w], s.on)
    BY <1>4, <2>2, OwnersOfTables
  <2> QED
    BY <1>5, <1>6, <2>1, <2>3
<1>9. Effect(View(c), s) = View(c) \union {<<s.on, p>> : p \in s.parts}
  BY <1>5 DEF Effect
<1>10. Owned(Effect(View(c), s), s.on) = Owned(View(c), s.on)
  BY <1>8, <1>9 DEF Owned
<1> QED
  BY <1>1, <1>3, <1>4, <1>10, WriteElsewhere

\* A schema the statement before created, or found, is there and locked now.
LEMMA CreatedIsLocked ==
  ASSUME TypeOK, NEW c \in Commands, OnItsWay(c), Execute(c), NEW t \in JustCreated(c)
  PROVE  /\ t \in held'[c]
         /\ Owned(View(c), t) # {}
         /\ Owned(SchemaAt[at[c]], t) = {}
<1> DEFINE s == Migration(c)[line[c]]
<1>1. /\ line[c] \in 1 .. Len(Migration(c))
      /\ Accepted(View(c), s)
      /\ held'[c] = held[c] \union Locks(View(c), s)
      /\ at[c] # goal[c]
  BY ExecuteEffect DEF Execute
<1>2. /\ line[c] - 1 \in 1 .. Len(Migration(c))
      /\ Migration(c)[line[c] - 1].op = "create schema"
      /\ t = Migration(c)[line[c] - 1].on
  <2>1. PICK k \in {line[c] - 1} \ {0} :
             Migration(c)[k].op = "create schema" /\ t = Migration(c)[k].on
    BY DEF JustCreated
  <2>2. k = line[c] - 1 /\ k # 0
    OBVIOUS
  <2>3. Len(Migration(c)) \in Nat
    BY <1>1, ItsScript
  <2>4. k \in 1 .. Len(Migration(c))
    BY <1>1, <2>2, <2>3
  <2> QED
    BY <2>1, <2>2, <2>4
<1>3. CreatesSchema(at[c], Up(c), line[c] - 1, Migration(c))
  BY <1>1, <1>2, ItsStatement
<1>4. line[c] - 1 + 1 = line[c]
  BY <1>1
<1>5. /\ s.op = "create table"
      /\ \E p \in s.parts : t \in RefersTo(p)
      /\ Owned(SchemaAt[at[c]], t) = {}
  BY <1>2, <1>3, <1>4 DEF CreatesSchema
<1>6. Owned(View(c), t) # {}
  BY <1>1, <1>5 DEF Accepted
<1>7. t \in Locks(View(c), s)
  BY <1>5 DEF Locks, Concerned
<1> QED
  BY <1>1, <1>5, <1>6, <1>7

\* Its tables follow the script, whatever is committed beside them.
LEMMA ExecuteFollows ==
  ASSUME TypeOK, NEW c \in Commands, CommandInvariant(c), Execute(c)
  PROVE  ScriptFollowed(c)'
<1> DEFINE s == Migration(c)[line[c]]
<1>1. /\ line[c] \in 1 .. Len(Migration(c))
      /\ View(c)' = Effect(View(c), s)
      /\ StageOf(c)' = Effect(StageOf(c), s)
      /\ Migration(c)' = Migration(c)
      /\ held'[c] = held[c] \union Locks(View(c), s)
      /\ line'[c] = line[c] + 1
      /\ Stamped(c)' = Stamped(c)
      /\ UNCHANGED <<database, at>>
      /\ at[c] # goal[c]
      /\ Running(c)
  BY ExecuteEffect DEF CommandInvariant, Execute
<1> SUFFICES ASSUME ~ Stamped(c)
             PROVE  ScriptFollowed(c)'
  BY <1>1 DEF ScriptFollowed
<1>2. ASSUME NEW t, Ordinary(t), t \notin held[c], t \notin JustCreated(c)
      PROVE  Owned(StageOf(c), t) = Owned(SchemaAt[at[c]], t)
  BY <1>1, <1>2, OwnersOfExcept DEF CommandInvariant, ScriptFollowed
<1>3. ASSUME NEW t \in held'[c], Ordinary(t), Owned(database, t) = Owned(SchemaAt[at[c]], t)
      PROVE  Owned(View(c)', t) = Owned(StageOf(c)', t)
  <2>1. CASE t \in held[c]
    <3>1. Owned(View(c), t) = Owned(StageOf(c), t)
      BY <1>1, <1>3, <2>1 DEF CommandInvariant, ScriptFollowed, Ordinary
    <3> QED
      BY <1>1, <3>1, EffectOfOwner
  <2>2. CASE t \notin held[c]
    <3>1. Owned(View(c), t) = Owned(database, t)
      BY <1>3, <2>2, UnlockedAsCommitted DEF CommandInvariant
    <3>2. t \notin JustCreated(c)
      BY <1>3, <3>1, CreatedIsLocked DEF CommandInvariant
    <3>3. Owned(StageOf(c), t) = Owned(View(c), t)
      BY <1>2, <1>3, <2>2, <3>1, <3>2
    <3> QED
      BY <1>1, <3>3, EffectOfOwner
  <2> QED
    BY <2>1, <2>2
<1>4. ASSUME NEW t, Ordinary(t), t \notin held'[c], t \notin JustCreated(c)'
      PROVE  Owned(StageOf(c)', t) = Owned(SchemaAt[at[c]], t)
  <2>1. t \notin held[c] /\ t \notin JustCreated(c)
    BY <1>1, <1>4, CreatedIsLocked DEF CommandInvariant
  <2>2. t # s.on
    <3>1. ASSUME t = s.on PROVE s.op = "create schema"
      BY <1>1, <1>4, <3>1, LocksItsOwn
    <3>2. line[c] \in {line'[c] - 1} \ {0}
      BY <1>1
    <3>3. ASSUME t = s.on PROVE t \in JustCreated(c)'
      BY <1>1, <3>1, <3>2, <3>3 DEF JustCreated
    <3> QED
      BY <1>4, <3>3
  <2>3. Owned(StageOf(c)', t) = Owned(StageOf(c), t)
    BY <1>1, <2>2, EffectElsewhere
  <2> QED
    BY <1>2, <1>4, <2>1, <2>3
<1>5. Except(StageOf(c)', held'[c] \union JustCreated(c)') =
      Except(SchemaAt[at[c]], held'[c] \union JustCreated(c)')
  BY <1>4, ExceptByOwner
<1> QED
  BY <1>1, <1>3, <1>5 DEF ScriptFollowed, Ordinary

\* A statement of the first upgrade drops nothing and takes the table names first.
LEMMA ExecuteFirst ==
  ASSUME TypeOK, NEW c \in Commands, CommandInvariant(c), Execute(c)
  PROVE  FirstTableIsNew(c)'
<1> DEFINE s == Migration(c)[line[c]]
<1>1. /\ line[c] \in 1 .. Len(Migration(c))
      /\ Accepted(View(c), s)
      /\ held'[c] = held[c] \union Locks(View(c), s)
      /\ line'[c] = line[c] + 1
      /\ Stamped(c)' = Stamped(c)
      /\ UNCHANGED <<database, at>>
      /\ at[c] # goal[c]
      /\ Running(c)
      /\ Write(c, Effect(View(c), s))
  BY ExecuteEffect DEF CommandInvariant, Execute
<1> SUFFICES ASSUME ~ Stamped(c), at[c] = 0
             PROVE  /\ dropped'[c] = {}
                    /\ line'[c] > 2 => "orders" \in held'[c] /\ Owned(database, "orders") = {}
  BY <1>1 DEF FirstTableIsNew
<1>2. dropped[c] = {} /\ (line[c] > 2 => "orders" \in held[c] /\ Owned(database, "orders") = {})
  BY <1>1 DEF CommandInvariant, FirstTableIsNew
<1>3. dropped'[c] = {}
  <2>1. View(c) \subseteq Effect(View(c), s)
    BY <1>1, ItsStatement, EffectKeeps DEF StatementFits
  <2>2. dropped'[c] = (dropped[c] \ Effect(View(c), s)) \union (View(c) \ Effect(View(c), s))
    BY <1>1 DEF Write, TypeOK
  <2> QED
    BY <1>2, <2>1, <2>2
<1>4. CASE line[c] > 2
  BY <1>1, <1>2, <1>3, <1>4
<1>5. CASE line[c] = 2
  <2>1. s.op = "create table" /\ s.on = "orders"
    BY <1>1, <1>5, ItsScript DEF StartsWithOrders
  <2>2. Owned(View(c), "orders") = {} /\ "orders" \in Locks(View(c), s)
    BY <1>1, <2>1, LocksItsOwn DEF Accepted
  <2>3. database \subseteq View(c)
    BY <1>2 DEF View
  <2> QED
    BY <1>1, <1>3, <2>2, <2>3 DEF Owned
<1>6. CASE line[c] = 1
  BY <1>1, <1>3, <1>6
<1> QED
  BY <1>1, <1>4, <1>5, <1>6

\* A stamped command and one without company stay on course.
LEMMA ExecuteOnCourse ==
  ASSUME TypeOK, NEW c \in Commands, CommandInvariant(c), Execute(c)
  PROVE  StampedHoldsVersion(c)' /\ LoneOnCourse(c)' /\ SchemaIsItself(added[c])'
         /\ OnItsWay(c)'
<1> DEFINE s == Migration(c)[line[c]]
<1>1. /\ line[c] \in 1 .. Len(Migration(c))
      /\ View(c)' = Effect(View(c), s)
      /\ StageOf(c)' = Effect(StageOf(c), s)
      /\ Migration(c)' = Migration(c)
      /\ held[c] \subseteq held'[c]
      /\ line'[c] = line[c] + 1
      /\ Stamped(c)' = Stamped(c)
      /\ UNCHANGED <<database, at, goal, pc, alone>>
      /\ at[c] # goal[c]
      /\ Running(c)
      /\ Write(c, Effect(View(c), s))
  BY ExecuteEffect DEF CommandInvariant, Execute
<1>2. StatementFits(at[c], line[c], s)
  BY <1>1, ItsStatement
<1>3. Owned(View(c)', VersionTable) = Owned(View(c), VersionTable)
  <2>1. VersionTable # s.on
    BY <1>2 DEF StatementFits
  <2>2. Owned(Effect(View(c), s), VersionTable) = Owned(View(c), VersionTable)
    BY <2>1, EffectElsewhere
  <2> QED
    BY <1>1, <2>2
<1>4. Tables(View(c)) = Tables(StageOf(c)) => Tables(View(c)') = Tables(StageOf(c)')
  BY <1>1, EffectOnTables
<1>5. StampedHoldsVersion(c)'
  <2> SUFFICES ASSUME Stamped(c)
               PROVE  /\ Owned(View(c)', VersionTable) = (IF at[c] = 0 THEN {} ELSE {VersionRow(at[c])})
                      /\ Tables(View(c)') = Tables(StageOf(c)')
                      /\ \E w \in 0 .. Latest :
                           /\ Records(database, w)
                           /\ Revisions[IF w = 0 THEN 1 ELSE w] \in held'[c]
    BY <1>1 DEF StampedHoldsVersion, Records
  <2>1. /\ Records(View(c), at[c])
        /\ Tables(View(c)) = Tables(StageOf(c))
        /\ \E w \in 0 .. Latest :
             /\ Records(database, w)
             /\ Revisions[IF w = 0 THEN 1 ELSE w] \in held[c]
    BY DEF CommandInvariant, StampedHoldsVersion
  <2> QED
    BY <1>1, <1>3, <1>4, <2>1 DEF Records
<1>6. LoneOnCourse(c)'
  <2> SUFFICES ASSUME alone[c]
               PROVE  /\ \A d \in Commands \ {c} : ~ Running(d)
                      /\ Owned(View(c)', VersionTable) = (IF at[c] = 0 THEN {} ELSE {VersionRow(at[c])})
                      /\ Tables(View(c)') = Tables(StageOf(c)')
                      /\ at[c] = 0 => Owned(View(c)', OrdersSchema) # {}
    BY <1>1 DEF LoneOnCourse, Records, Running
  <2>1. /\ \A d \in Commands \ {c} : ~ Running(d)
        /\ Records(View(c), at[c])
        /\ Tables(View(c)) = Tables(StageOf(c))
        /\ at[c] = 0 /\ line[c] > 1 => Owned(View(c), OrdersSchema) # {}
    BY <1>1 DEF CommandInvariant, LoneOnCourse
  <2>2. ASSUME at[c] = 0 PROVE Owned(View(c)', OrdersSchema) # {}
    <3>1. CASE line[c] > 1
      <4>1. s.op \notin {"drop", "drop table", "drop schema"}
        BY <1>2, <2>2 DEF StatementFits
      <4>2. View(c) \subseteq Effect(View(c), s)
        BY <4>1, EffectKeeps
      <4> QED
        BY <1>1, <2>1, <2>2, <3>1, <4>2 DEF Owned
    <3>2. CASE line[c] = 1
      <4>1. s.op = "create schema" /\ s.on = OrdersSchema /\ s.parts # {}
        BY <1>1, <2>2, <3>2, ItsScript DEF StartsWithOrders
      <4>2. Effect(View(c), s) = View(c) \union {<<s.on, p>> : p \in s.parts}
        BY <4>1 DEF Effect
      <4>3. PICK p \in s.parts : TRUE
        BY <4>1
      <4>4. <<OrdersSchema, p>> \in Effect(View(c), s)
        BY <4>1, <4>2, <4>3
      <4>5. <<OrdersSchema, p>> \in Owned(Effect(View(c), s), OrdersSchema)
        BY <4>4 DEF Owned
      <4> QED
        BY <1>1, <4>5
    <3> QED
      BY <1>1, <3>1, <3>2
  <2> QED
    BY <1>3, <1>4, <2>1, <2>2 DEF Records
<1>7. SchemaIsItself(added[c])'
  <2> SUFFICES ASSUME NEW o \in added'[c], o[1] = OrdersSchema, o \notin added[c]
               PROVE  o[2].kind = "schema"
    BY DEF CommandInvariant, SchemaIsItself
  <2>1. o \in Effect(View(c), s) /\ o \notin View(c)
    BY <1>1 DEF Write, TypeOK
  <2>2. PICK p \in s.parts : o = <<s.on, p>>
    BY <2>1 DEF Effect
  <2> QED
    BY <1>2, <2>2 DEF StatementFits
<1>8. OnItsWay(c)'
  BY <1>1, ItsScript DEF OnItsWay
<1> QED
  BY <1>5, <1>6, <1>7, <1>8

-----------------------------------------------------------------------------
(* A migration that is recorded *)

\* A command has its revision's tables when it records the next: those it locked follow
\* the script and the others the script leaves alone.
LEMMA StampsWhatItMade ==
  ASSUME TypeOK, SchemaMatchesVersion, NEW c \in Commands, CommandInvariant(c),
         Migrated(c), RowMatched(c)
  PROVE  /\ Records(View(c), at[c])
         /\ Tables(View(c)) = Tables(SchemaAt[NextRevision(c)])
         /\ Stamped(c) \/ Records(database, at[c])
<1>1. Running(c) /\ at[c] # goal[c] /\ line[c] > Len(Migration(c))
  BY DEF Migrated
<1>2. /\ Len(Migration(c)) \in Nat
      /\ line[c] = Len(Migration(c)) + 1
      /\ StageOf(c) = Stage(at[c], Up(c), line[c])
      /\ at[c] \in 0 .. Latest
  BY <1>1, InAScript, ItsScript DEF CommandInvariant, OnItsWay
<1>3. Tables(StageOf(c)) = Tables(SchemaAt[NextRevision(c)])
  BY <1>1, <1>2, ItsScript, InAScript DEF LeadsToTarget
<1>4. CASE Stamped(c)
  BY <1>3, <1>4 DEF CommandInvariant, StampedHoldsVersion
<1>5. CASE ~ Stamped(c)
  <2>1. Owned(View(c), VersionTable) = Owned(database, VersionTable)
    BY <1>5 DEF Stamped, View, Owned
  <2>2. PICK w \in 0 .. Latest : Records(database, w) /\ Tables(database) = Tables(SchemaAt[w])
    BY DEF SchemaMatchesVersion
  <2>3. w = at[c]
    <3>1. CASE at[c] = 0
      <4>1. Len(Migration(c)) > 1
        BY <1>1, <3>1, ItsScript DEF StartsWithOrders
      <4>2. Owned(database, "orders") = {}
        BY <1>1, <1>2, <1>5, <3>1, <4>1 DEF CommandInvariant, FirstTableIsNew
      <4>3. Owned(SchemaAt[w], "orders") = {}
        BY <2>2, <4>2, OwnersOfTables DEF Ordinary, OrdersSchema, VersionTable
      <4> QED
        <5>1. \A v \in 1 .. Latest : Owned(SchemaAt[v], "orders") # {}
          BY ScriptsFit
        <5>2. w \notin 1 .. Latest
          BY <4>3, <5>1
        <5> QED
          BY <3>1, <5>2, LatestIs
    <3>2. CASE at[c] # 0
      <4>1. VersionRow(at[c]) \in Owned(View(c), VersionTable)
        BY <3>2 DEF RowMatched, RowOf, Owned, VersionRow
      <4>2. w # 0 /\ VersionRow(at[c]) = VersionRow(w)
        BY <2>1, <2>2, <4>1 DEF Records
      <4>3. Records(database, at[c])
        BY <2>2, <3>2, <4>2 DEF Records
      <4> QED
        BY <1>2, <2>2, <4>3, OneRevision
    <3> QED
      BY <3>1, <3>2
  <2>4. Records(View(c), at[c]) /\ Records(database, at[c])
    BY <2>1, <2>2, <2>3 DEF Records
  <2>5. JustCreated(c) = {}
    <3>1. CASE line[c] = 1
      <4>1. {line[c] - 1} \ {0} = {}
        BY <3>1
      <4> QED
        BY <4>1 DEF JustCreated
    <3>2. CASE line[c] # 1
      <4>1. Len(Migration(c)) \in 1 .. Len(Migration(c))
        BY <1>2, <3>2
      <4>2. Migration(c)[Len(Migration(c))].op # "create schema"
        <5>1. ~ (Len(Migration(c)) < Len(Migration(c)))
          BY <1>2
        <5> QED
          BY <1>1, <4>1, <5>1, ItsStatement DEF CreatesSchema
      <4>3. line[c] - 1 = Len(Migration(c))
        BY <1>2
      <4> QED
        BY <4>2, <4>3, Zenon DEF JustCreated
    <3> QED
      BY <3>1, <3>2
  <2>6. ASSUME NEW t, Ordinary(t)
        PROVE  Owned(View(c), t) = Owned(StageOf(c), t)
    <3>1. Owned(database, t) = Owned(SchemaAt[at[c]], t)
      BY <2>2, <2>3, <2>6, OwnersOfTables
    <3>2. CASE t \in held[c]
      BY <1>1, <1>5, <2>6, <3>1, <3>2 DEF CommandInvariant, ScriptFollowed, Ordinary
    <3>3. CASE t \notin held[c]
      <4>1. Owned(View(c), t) = Owned(database, t)
        BY <2>6, <3>3, UnlockedAsCommitted DEF CommandInvariant
      <4>2. Except(StageOf(c), held[c] \union JustCreated(c)) =
            Except(SchemaAt[at[c]], held[c] \union JustCreated(c))
        BY <1>1, <1>5 DEF CommandInvariant, ScriptFollowed
      <4>3. Owned(StageOf(c), t) = Owned(SchemaAt[at[c]], t)
        BY <2>5, <2>6, <3>3, <4>2, OwnersOfExcept
      <4> QED
        BY <3>1, <4>1, <4>3
    <3> QED
      BY <3>2, <3>3
  <2>7. Tables(View(c)) = Tables(StageOf(c))
    BY <2>6, TablesByOwner
  <2> QED
    BY <1>3, <2>4, <2>7
<1> QED
  BY <1>4, <1>5

\* It is stamped then, as its version row says, and nobody else is.
LEMMA StampKeeps ==
  ASSUME TypeOK, SchemaMatchesVersion, NEW c \in Commands, CommandInvariant(c), Stamp(c)
  PROVE  CommandInvariant(c)'
<1> DEFINE next == NextRevision(c)
           new == (View(c) \ RowOf(at[c])) \union RowOf(next)
<1>1. /\ Running(c) /\ at[c] # goal[c]
      /\ RowMatched(c) /\ Write(c, new)
      /\ held'[c] = held[c] \union RowLocks(c)
      /\ at'[c] = next /\ line'[c] = 1
      /\ UNCHANGED <<database, pc, goal, alone>>
  BY DEF Stamp, Migrated, WriteVersion, Acquire, Write, TypeOK
<1>2. /\ Records(View(c), at[c])
      /\ Tables(View(c)) = Tables(SchemaAt[next])
      /\ Stamped(c) \/ Records(database, at[c])
  BY StampsWhatItMade DEF Stamp
<1>3. next \in 0 .. Latest /\ at[c] \in 0 .. Latest /\ next # at[c]
  BY <1>1, InAScript DEF NextRevision
<1>4. View(c)' = new
  BY <1>1, WriteView
<1>5. \A v \in 0 .. Latest : \A o \in RowOf(v) : o[1] = VersionTable /\ o \in Owned(RowOf(v), VersionTable)
  BY DEF RowOf, VersionRow, Owned
<1>6. Owned(new, VersionTable) = RowOf(next)
  <2>1. Owned(View(c), VersionTable) = RowOf(at[c])
    BY <1>2 DEF Records, RowOf
  <2> QED
    BY <1>3, <1>5, <2>1 DEF Owned
<1>7. Records(View(c)', next)
  BY <1>4, <1>6 DEF Records, RowOf
<1>8. Tables(new) = Tables(View(c))
  BY <1>3, <1>5 DEF Tables
<1>9. Stamped(c)'
  <2>1. added'[c] = (added[c] \intersect new) \union (new \ View(c))
        /\ dropped'[c] = (dropped[c] \ new) \union (View(c) \ new)
    BY <1>1 DEF Write, TypeOK
  <2>2. RowOf(at[c]) \subseteq View(c) /\ RowOf(next) \intersect View(c) = {}
    BY <1>1 DEF RowMatched
  <2>3. CASE next # 0
    <3>1. VersionRow(next) \in new \ View(c)
      BY <2>2, <2>3 DEF RowOf
    <3>2. VersionRow(next) \in added'[c] /\ VersionRow(next)[1] = VersionTable
      BY <2>1, <3>1 DEF VersionRow
    <3> QED
      BY <3>2 DEF Stamped, Owned
  <2>4. CASE next = 0
    <3>1. at[c] # 0
      BY <1>3, <2>4
    <3>2. VersionRow(at[c]) \in View(c) \ new
      BY <2>2, <2>4, <3>1 DEF RowOf
    <3>3. VersionRow(at[c]) \in dropped'[c] /\ VersionRow(at[c])[1] = VersionTable
      BY <2>1, <3>2 DEF VersionRow
    <3> QED
      BY <3>3 DEF Stamped, Owned
  <2> QED
    BY <2>3, <2>4
<1>10. StageOf(c)' = SchemaAt[next]
  <2>1. CASE next = goal[c]
    BY <1>1, <2>1 DEF StageOf
  <2>2. CASE next # goal[c]
    <3>1. StageOf(c)' = Stage(next, next < goal[c], 1)
      BY <1>1, <2>2 DEF StageOf
    <3>2. next \in 0 .. Latest /\ goal[c] \in 0 .. Latest /\ (next < goal[c]) \in BOOLEAN
      BY <1>3 DEF TypeOK
    <3>3. HasTarget(next, next < goal[c])
      BY <2>2, <3>2, LatestIs DEF HasTarget, Target
    <3>4. LeadsToTarget(next, next < goal[c], Script(next, next < goal[c]))
      BY <3>2, <3>3, ScriptsFit
    <3> QED
      BY <3>1, <3>4 DEF LeadsToTarget
  <2> QED
    BY <2>1, <2>2
<1>11. Tables(View(c)') = Tables(StageOf(c)')
  BY <1>2, <1>4, <1>8, <1>10
<1>12. StampedHoldsVersion(c)'
  <2>1. \E w \in 0 .. Latest : Records(database, w) /\ Revisions[IF w = 0 THEN 1 ELSE w] \in held'[c]
    <3>1. CASE Stamped(c)
      BY <1>1, <3>1 DEF CommandInvariant, StampedHoldsVersion
    <3>2. CASE Records(database, at[c]) /\ at[c] # 0
      BY <1>1, <1>3, <3>2 DEF RowLocks
    <3>3. CASE Records(database, at[c]) /\ at[c] = 0
      <4>1. next = 1
        BY <1>3, <3>3 DEF NextRevision
      <4> QED
        BY <1>1, <1>3, <3>3, <4>1 DEF RowLocks
    <3> QED
      BY <1>2, <3>1, <3>2, <3>3
  <2>2. Records(View(c), at[c])'
    BY <1>1, <1>7 DEF Records
  <2>3. (\E w \in 0 .. Latest : Records(database, w) /\ Revisions[IF w = 0 THEN 1 ELSE w] \in held[c])'
    BY <1>1, <2>1 DEF Records
  <2> QED
    BY <1>11, <2>2, <2>3 DEF StampedHoldsVersion
<1>13. OnItsWay(c)'
  <2>1. ASSUME next # goal[c] PROVE Len(Migration(c)') \in Nat
    <3>1. next \in 0 .. Latest /\ goal[c] \in 0 .. Latest /\ (next < goal[c]) \in BOOLEAN
      BY <1>3 DEF TypeOK
    <3>2. HasTarget(next, next < goal[c])
      BY <2>1, <3>1, LatestIs DEF HasTarget, Target
    <3>3. LeadsToTarget(next, next < goal[c], Script(next, next < goal[c]))
      BY <3>1, <3>2, ScriptsFit
    <3>4. Migration(c)' = Script(next, next < goal[c])
      BY <1>1 DEF Migration, Script
    <3> QED
      BY <3>3, <3>4 DEF LeadsToTarget
  <2> QED
    BY <1>1, <1>9, <2>1 DEF OnItsWay
<1>14. TouchedIsLocked(c)'
  <2>1. added'[c] \union dropped'[c] \subseteq
          added[c] \union dropped[c] \union RowOf(at[c]) \union RowOf(next)
    BY <1>1 DEF Write, TypeOK
  <2> QED
    BY <1>1, <1>3, <1>5, <2>1 DEF CommandInvariant, TouchedIsLocked
<1>15. ScriptFollowed(c)' /\ FirstTableIsNew(c)'
  BY <1>9 DEF ScriptFollowed, FirstTableIsNew
<1>16. LoneOnCourse(c)'
  <2>1. Records(View(c), at[c])'
    BY <1>1, <1>7 DEF Records
  <2>2. line'[c] = 1
    BY <1>1
  <2>3. alone[c] => \A d \in Commands \ {c} : ~ Running(d)'
    BY <1>1 DEF CommandInvariant, LoneOnCourse, Running
  <2> QED
    BY <1>1, <1>11, <2>1, <2>2, <2>3 DEF LoneOnCourse
<1>17. SchemaIsItself(added[c])'
  <2>1. added'[c] \subseteq added[c] \union RowOf(next)
    BY <1>1 DEF Write, TypeOK
  <2>2. VersionTable # OrdersSchema
    BY DEF VersionTable, OrdersSchema
  <2> QED
    BY <1>3, <1>5, <2>1, <2>2 DEF CommandInvariant, SchemaIsItself
<1> QED
  BY <1>12, <1>13, <1>14, <1>15, <1>16, <1>17 DEF CommandInvariant

-----------------------------------------------------------------------------
(* Beginning, leaving, and the other commands *)

\* What a command knows does not change while its own variables and the database do not.
LEMMA KnowledgeKept ==
  ASSUME NEW d \in Commands, CommandInvariant(d),
         UNCHANGED <<database, added[d], dropped[d], held[d], pc[d], at[d], goal[d], line[d]>>,
         LoneOnCourse(d)'
  PROVE  CommandInvariant(d)'
<1>1. /\ Running(d)' = Running(d)
      /\ Stamped(d)' = Stamped(d)
      /\ View(d)' = View(d)
      /\ Migration(d)' = Migration(d)
      /\ StageOf(d)' = StageOf(d)
  BY DEF Running, Stamped, View, Migration, StageOf
<1>2. JustCreated(d)' = JustCreated(d)
  BY <1>1 DEF JustCreated
<1>3. OnItsWay(d)' /\ TouchedIsLocked(d)' /\ FirstTableIsNew(d)'
  BY <1>1 DEF CommandInvariant, OnItsWay, TouchedIsLocked, FirstTableIsNew
<1>4. ScriptFollowed(d)'
  BY <1>1, <1>2 DEF CommandInvariant, ScriptFollowed
<1>5. StampedHoldsVersion(d)' /\ SchemaIsItself(added[d])'
  BY <1>1 DEF CommandInvariant, StampedHoldsVersion, SchemaIsItself, Records
<1> QED
  BY <1>3, <1>4, <1>5 DEF CommandInvariant

\* So it does not while others move that are its company.
LEMMA OthersKept ==
  ASSUME NEW d \in Commands, CommandInvariant(d),
         UNCHANGED <<database, added[d], dropped[d], held[d], pc[d], at[d], goal[d], line[d]>>,
         Running(d) => ~ alone'[d]
  PROVE  CommandInvariant(d)'
<1>1. LoneOnCourse(d)'
  BY DEF LoneOnCourse, Running
<1> QED
  BY <1>1, KnowledgeKept

\* Two running commands both have company.
LEMMA Company ==
  ASSUME NEW c \in Commands, NEW d \in Commands \ {c}, LoneOnCourse(d), Running(c)
  PROVE  Running(d) => ~ alone[d]
  BY DEF LoneOnCourse

\* A command that has left has nothing left.
LEMMA LeaveKeeps ==
  ASSUME TypeOK, NEW c \in Commands, NEW label, label # "running", Leave(c, label)
  PROVE  CommandInvariant(c)'
<1>1. added'[c] = {} /\ dropped'[c] = {} /\ pc'[c] # "running"
  BY DEF Leave, TypeOK
<1>2. ~ Stamped(c)' /\ ~ Running(c)'
  BY <1>1 DEF Stamped, Running, Owned
<1> QED
  BY <1>1, <1>2 DEF CommandInvariant, OnItsWay, TouchedIsLocked, ScriptFollowed,
     FirstTableIsNew, StampedHoldsVersion, LoneOnCourse, SchemaIsItself

\* What leaving does to the variables of the others.
LEMMA LeaveOthers ==
  ASSUME TypeOK, NEW c \in Commands, NEW label, Leave(c, label), NEW d \in Commands \ {c}
  PROVE  /\ UNCHANGED <<added[d], dropped[d], held[d], pc[d], at[d], goal[d], line[d]>>
         /\ alone'[d] = alone[d]
  BY DEF Leave, TypeOK

\* Only one command at a time is stamped: the next would need the lock it holds.
LEMMA OneStamped ==
  ASSUME TypeOK, NEW c \in Commands, NEW d \in Commands,
         StampedHoldsVersion(c), StampedHoldsVersion(d), Stamped(c), Stamped(d)
  PROVE  c = d
<1>1. PICK v \in 0 .. Latest : Records(database, v) /\ Revisions[IF v = 0 THEN 1 ELSE v] \in held[c]
  BY DEF StampedHoldsVersion
<1>2. PICK w \in 0 .. Latest : Records(database, w) /\ Revisions[IF w = 0 THEN 1 ELSE w] \in held[d]
  BY DEF StampedHoldsVersion
<1>3. v = w
  BY <1>1, <1>2, OneRevision
<1>4. held[c] \intersect held[d] # {}
  BY <1>1, <1>2, <1>3
<1> QED
  BY <1>4 DEF TypeOK

\* A command that begins has done nothing and finds the schema of its revision.
LEMMA BeginKeeps ==
  ASSUME TypeOK, SchemaMatchesVersion, NEW c \in Commands, NEW v \in 0 .. Latest, Begin(c, v)
  PROVE  CommandInvariant(c)'
<1>1. PICK u \in 0 .. Latest : u # v /\ Records(database, u) /\ at' = [at EXCEPT ![c] = u]
  BY DEF Begin
<1>2. /\ at'[c] = u /\ goal'[c] = v /\ line'[c] = 1 /\ pc'[c] = "running"
      /\ UNCHANGED <<database, added, dropped, held>>
      /\ added[c] = {} /\ dropped[c] = {} /\ held[c] = {}
      /\ alone'[c] => \A e \in Commands : ~ Running(e)
      /\ \A e \in Commands \ {c} : pc'[e] = pc[e]
  BY <1>1 DEF Begin, TypeOK
<1>3. ~ Stamped(c)' /\ View(c)' = database
  BY <1>2 DEF Stamped, Owned, View
<1>4. HasTarget(u, u < v) /\ (u < v) \in BOOLEAN
  BY <1>1, LatestIs DEF HasTarget, Target
<1>5. LeadsToTarget(u, u < v, Script(u, u < v))
  BY <1>4, ScriptsFit
<1>6. /\ StageOf(c)' = Stage(u, u < v, 1)
      /\ Migration(c)' = Script(u, u < v)
  BY <1>1, <1>2 DEF StageOf, Migration, Script
<1>7. StageOf(c)' = SchemaAt[u] /\ Len(Migration(c)') \in Nat
  BY <1>5, <1>6 DEF LeadsToTarget
<1>8. Tables(database) = Tables(SchemaAt[u])
  BY <1>1, CommittedTables
<1>9. OnItsWay(c)'
  BY <1>1, <1>2, <1>7 DEF OnItsWay
<1>10. ScriptFollowed(c)'
  BY <1>2, <1>7 DEF ScriptFollowed
<1>11. LoneOnCourse(c)'
  <2>1. Records(View(c), at[c])'
    BY <1>1, <1>2, <1>3 DEF Records
  <2>2. (\A d \in Commands \ {c} : ~ Running(d))' \/ ~ alone'[c]
    BY <1>2 DEF Running
  <2>3. Tables(View(c)') = Tables(StageOf(c)')
    BY <1>3, <1>7, <1>8
  <2>4. ~ (line'[c] > 1)
    BY <1>2
  <2> QED
    BY <2>1, <2>2, <2>3, <2>4 DEF LoneOnCourse
<1>12. TouchedIsLocked(c)' /\ FirstTableIsNew(c)' /\ StampedHoldsVersion(c)' /\ SchemaIsItself(added[c])'
  BY <1>2, <1>3 DEF TouchedIsLocked, FirstTableIsNew, StampedHoldsVersion, SchemaIsItself
<1> QED
  BY <1>9, <1>10, <1>11, <1>12 DEF CommandInvariant

\* A commit changes nothing that another command has locked.
LEMMA CommitKeepsOthers ==
  ASSUME TypeOK, NEW c \in Commands, NEW d \in Commands \ {c},
         CommandInvariant(c), CommandInvariant(d), Commit(c)
  PROVE  CommandInvariant(d)'
<1>1. /\ Running(c) /\ at[c] = goal[c] /\ database' = View(c)
      /\ UNCHANGED <<added[d], dropped[d], held[d], pc[d], at[d], goal[d], line[d]>>
      /\ alone'[d] = alone[d]
  BY LeaveOthers DEF Commit
<1>2. Running(d) => ~ alone'[d]
  BY <1>1, Company DEF CommandInvariant
<1>3. Stamped(c) /\ ~ Stamped(d)
  <2>1. Stamped(c)
    BY <1>1 DEF CommandInvariant, OnItsWay
  <2> QED
    BY <2>1, OneStamped DEF CommandInvariant
<1>4. /\ Running(d)' = Running(d)
      /\ Stamped(d)' = Stamped(d)
      /\ Migration(d)' = Migration(d)
      /\ StageOf(d)' = StageOf(d)
  BY <1>1 DEF Running, Stamped, Migration, StageOf
<1>5. JustCreated(d)' = JustCreated(d)
  BY <1>1, <1>4 DEF JustCreated
<1>6. ASSUME NEW t \in held[d], Ordinary(t)
      PROVE  Owned(database', t) = Owned(database, t) /\ Owned(View(d)', t) = Owned(View(d), t)
  <2>1. t \notin held[c]
    BY DEF TypeOK
  <2>2. Owned(database', t) = Owned(database, t)
    BY <1>1, <1>6, <2>1, UnlockedAsCommitted DEF CommandInvariant
  <2> QED
    BY <1>1, <2>2 DEF View, Owned
<1>7. ScriptFollowed(d)'
  <2>1. Running(d) => \A t \in held[d] \ {OrdersSchema, VersionTable} :
          Owned(database, t) = Owned(SchemaAt[at[d]], t) => Owned(View(d), t) = Owned(StageOf(d), t)
    BY <1>3 DEF CommandInvariant, ScriptFollowed
  <2>2. Running(d) => Except(StageOf(d), held[d] \union JustCreated(d)) =
                      Except(SchemaAt[at[d]], held[d] \union JustCreated(d))
    BY <1>3 DEF CommandInvariant, ScriptFollowed
  <2> QED
    BY <1>1, <1>4, <1>5, <1>6, <2>1, <2>2 DEF ScriptFollowed, Ordinary
<1>8. FirstTableIsNew(d)'
  <2>1. Ordinary("orders")
    BY DEF Ordinary, OrdersSchema, VersionTable
  <2> QED
    BY <1>1, <1>4, <1>6, <2>1 DEF CommandInvariant, FirstTableIsNew
<1>9. OnItsWay(d)' /\ TouchedIsLocked(d)' /\ LoneOnCourse(d)' /\ SchemaIsItself(added[d])'
  BY <1>1, <1>2, <1>4 DEF CommandInvariant, OnItsWay, TouchedIsLocked, LoneOnCourse, SchemaIsItself
<1>10. StampedHoldsVersion(d)'
  BY <1>3, <1>4 DEF StampedHoldsVersion
<1> QED
  BY <1>7, <1>8, <1>9, <1>10 DEF CommandInvariant

\* What it commits is the schema of the revision it has recorded.
LEMMA CommitMatches ==
  ASSUME TypeOK, NEW c \in Commands, CommandInvariant(c), Commit(c), SchemaIsItself(database)
  PROVE  SchemaMatchesVersion' /\ SchemaIsItself(database)'
<1>1. at[c] = goal[c] /\ database' = View(c) /\ at[c] \in 0 .. Latest /\ Stamped(c)
  BY DEF Commit, TypeOK, CommandInvariant, OnItsWay
<1>2. Records(View(c), at[c]) /\ Tables(View(c)) = Tables(SchemaAt[at[c]])
  BY <1>1 DEF CommandInvariant, StampedHoldsVersion, StageOf
<1>3. Records(database', at[c]) /\ Tables(database') = Tables(SchemaAt[at[c]])
  BY <1>1, <1>2
<1>4. SchemaIsItself(database)'
  BY <1>1 DEF CommandInvariant, SchemaIsItself, View
<1> QED
  BY <1>1, <1>3, <1>4 DEF SchemaMatchesVersion, Records

-----------------------------------------------------------------------------
(* Types *)

\* Leaving keeps the types.
LEMMA LeaveTypes ==
  ASSUME TypeOK, NEW c \in Commands, NEW label \in {"off", "refused"}, Leave(c, label)
  PROVE  TypeOK'
<1>1. 0 \in 0 .. Latest
  BY LatestIs
<1>2. /\ pc' \in [Commands -> {"off", "running", "refused"}]
      /\ at' \in [Commands -> 0 .. Latest]
      /\ goal' \in [Commands -> 0 .. Latest]
      /\ line' \in [Commands -> Nat]
      /\ alone' \in [Commands -> BOOLEAN]
  BY <1>1 DEF Leave, TypeOK
<1>3. {DOMAIN added', DOMAIN dropped', DOMAIN held'} = {Commands}
  BY DEF Leave, TypeOK
<1>4. ASSUME NEW d \in Commands
      PROVE  /\ ~ Running(d)' => added'[d] \union dropped'[d] \union held'[d] = {}
             /\ \A e \in Commands \ {d} : held'[d] \intersect held'[e] = {}
  BY DEF Leave, TypeOK, Running
<1> QED
  BY <1>2, <1>3, <1>4 DEF TypeOK

\* So do a statement and the writing of the version row.
LEMMA WriteTypes ==
  ASSUME TypeOK, NEW c \in Commands, NEW new, NEW locks, Running(c),
         Write(c, new), Acquire(c, locks),
         at' \in [Commands -> 0 .. Latest], line' \in [Commands -> Nat]
  PROVE  TypeOK'
<1>1. /\ pc' \in [Commands -> {"off", "running", "refused"}]
      /\ goal' \in [Commands -> 0 .. Latest]
      /\ alone' \in [Commands -> BOOLEAN]
  BY DEF Write, TypeOK
<1>2. {DOMAIN added', DOMAIN dropped', DOMAIN held'} = {Commands}
  BY DEF Write, Acquire, TypeOK
<1>3. ASSUME NEW d \in Commands, ~ Running(d)'
      PROVE  added'[d] \union dropped'[d] \union held'[d] = {}
  BY <1>3 DEF Write, Acquire, TypeOK, Running
<1>4. ASSUME NEW d \in Commands, NEW e \in Commands \ {d}
      PROVE  held'[d] \intersect held'[e] = {}
  BY <1>4 DEF Acquire, TypeOK
<1> QED
  BY <1>1, <1>2, <1>3, <1>4 DEF TypeOK

\* Every step keeps the types.
LEMMA TypeOKStep ==
  ASSUME TypeOK, [Next]_vars
  PROVE  TypeOK'
<1>1. CASE UNCHANGED vars
  BY <1>1 DEF vars, TypeOK, Running
<1>2. ASSUME NEW c \in Commands, NEW v \in 0 .. Latest, Begin(c, v) PROVE TypeOK'
  <2>1. /\ pc' \in [Commands -> {"off", "running", "refused"}]
        /\ at' \in [Commands -> 0 .. Latest]
        /\ goal' \in [Commands -> 0 .. Latest]
        /\ line' \in [Commands -> Nat]
    BY <1>2 DEF Begin, TypeOK
  <2>2. alone' \in [Commands -> BOOLEAN]
    <3>1. \A d \in Commands : alone'[d] \in BOOLEAN
      BY <1>2 DEF Begin, TypeOK, Running
    <3> QED
      BY <1>2, <3>1 DEF Begin
  <2> QED
    BY <1>2, <2>1, <2>2 DEF Begin, TypeOK, Running
<1>3. ASSUME NEW c \in Commands, Execute(c) PROVE TypeOK'
  <2>1. at' \in [Commands -> 0 .. Latest] /\ line' \in [Commands -> Nat]
    BY <1>3 DEF Execute, TypeOK
  <2> QED
    BY <1>3, <2>1, WriteTypes DEF Execute
<1>4. ASSUME NEW c \in Commands, Stamp(c) PROVE TypeOK'
  <2>1. at' \in [Commands -> 0 .. Latest] /\ line' \in [Commands -> Nat]
    BY <1>4, InAScript DEF Stamp, Migrated, WriteVersion, TypeOK
  <2> QED
    BY <1>4, <2>1, WriteTypes DEF Stamp, Migrated, WriteVersion
<1>5. ASSUME NEW c \in Commands, ExecuteRefused(c) \/ StampRefused(c) \/ Commit(c) \/ Abort(c)
      PROVE  TypeOK'
  BY <1>5, LeaveTypes DEF ExecuteRefused, StampRefused, Commit, Abort, Refuse
<1> QED
  BY <1>1, <1>2, <1>3, <1>4, <1>5 DEF Next

-----------------------------------------------------------------------------
(* The invariant *)

\* Every step keeps it.
LEMMA InvariantStep ==
  ASSUME MigrationInvariant, [Next]_vars
  PROVE  MigrationInvariant'
<1>1. TypeOK'
  BY TypeOKStep DEF MigrationInvariant
<1>2. TypeOK /\ SchemaMatchesVersion /\ SchemaIsItself(database)
      /\ \A d \in Commands : CommandInvariant(d)
  BY DEF MigrationInvariant
<1>3. ASSUME database' = database
      PROVE  SchemaMatchesVersion' /\ SchemaIsItself(database)'
  BY <1>2, <1>3 DEF SchemaMatchesVersion, SchemaIsItself, Records
<1>4. CASE UNCHANGED vars
  <2>1. ASSUME NEW d \in Commands PROVE CommandInvariant(d)'
    <3>1. CommandInvariant(d)
      BY <1>2
    <3>2. UNCHANGED <<database, added[d], dropped[d], held[d], pc[d], at[d], goal[d], line[d]>>
      BY <1>4 DEF vars
    <3>3. LoneOnCourse(d)'
      BY <1>4, <3>1 DEF CommandInvariant, LoneOnCourse, vars, Running, View, StageOf, Records
    <3> QED
      BY <3>1, <3>2, <3>3, KnowledgeKept
  <2> QED
    BY <1>1, <1>3, <1>4, <2>1 DEF MigrationInvariant, vars
<1>5. ASSUME NEW c \in Commands, NEW v \in 0 .. Latest, Begin(c, v)
      PROVE  MigrationInvariant'
  <2>1. database' = database
    BY <1>5 DEF Begin
  <2>2. CommandInvariant(c)'
    BY <1>2, <1>5, BeginKeeps
  <2>3. ASSUME NEW d \in Commands \ {c} PROVE CommandInvariant(d)'
    <3>1. /\ UNCHANGED <<database, added[d], dropped[d], held[d], pc[d], at[d], goal[d], line[d]>>
          /\ Running(d) => ~ alone'[d]
      BY <1>2, <1>5 DEF Begin, TypeOK
    <3> QED
      BY <1>2, <3>1, OthersKept
  <2> QED
    BY <1>1, <1>3, <2>1, <2>2, <2>3 DEF MigrationInvariant
<1>6. ASSUME NEW c \in Commands, Execute(c) \/ Stamp(c)
      PROVE  MigrationInvariant'
  <2>1. PICK new, locks : Write(c, new) /\ Acquire(c, locks)
    BY <1>6 DEF Execute, Stamp, WriteVersion
  <2>2. database' = database /\ UNCHANGED <<pc, goal, alone>> /\ Running(c)
    BY <1>6, <2>1 DEF Write, Execute, Stamp, Migrated
  <2>3. CommandInvariant(c)'
    <3>1. CASE Execute(c)
      BY <1>2, <3>1, ExecuteLocks, ExecuteFollows, ExecuteFirst, ExecuteOnCourse
      DEF CommandInvariant
    <3>2. CASE Stamp(c)
      BY <1>2, <3>2, StampKeeps
    <3> QED
      BY <1>6, <3>1, <3>2
  <2>4. ASSUME NEW d \in Commands \ {c} PROVE CommandInvariant(d)'
    <3>1. UNCHANGED <<added[d], dropped[d], held[d]>>
      BY <1>2, <2>1 DEF Write, Acquire, TypeOK
    <3>2. UNCHANGED <<at[d], line[d]>>
      BY <1>2, <1>6 DEF Execute, Stamp, WriteVersion, TypeOK
    <3>3. Running(d) => ~ alone'[d]
      BY <1>2, <2>2, Company DEF CommandInvariant
    <3> QED
      BY <1>2, <2>2, <3>1, <3>2, <3>3, OthersKept
  <2> QED
    BY <1>1, <1>3, <2>2, <2>3, <2>4 DEF MigrationInvariant
<1>7. ASSUME NEW c \in Commands, ExecuteRefused(c) \/ StampRefused(c) \/ Abort(c)
      PROVE  MigrationInvariant'
  <2>1. PICK label \in {"off", "refused"} : Leave(c, label)
    BY <1>7 DEF ExecuteRefused, StampRefused, Abort, Refuse
  <2>2. database' = database /\ Running(c)
    BY <1>7 DEF ExecuteRefused, StampRefused, Abort, Refuse, Migrated
  <2>3. CommandInvariant(c)'
    BY <1>2, <2>1, LeaveKeeps
  <2>4. ASSUME NEW d \in Commands \ {c} PROVE CommandInvariant(d)'
    <3>1. /\ UNCHANGED <<added[d], dropped[d], held[d], pc[d], at[d], goal[d], line[d]>>
          /\ alone'[d] = alone[d]
      BY <1>2, <2>1, LeaveOthers
    <3>2. Running(d) => ~ alone'[d]
      BY <1>2, <2>2, <3>1, Company DEF CommandInvariant
    <3> QED
      BY <1>2, <2>2, <3>1, <3>2, OthersKept
  <2> QED
    BY <1>1, <1>3, <2>2, <2>3, <2>4 DEF MigrationInvariant
<1>8. ASSUME NEW c \in Commands, Commit(c)
      PROVE  MigrationInvariant'
  <2>1. CommandInvariant(c)'
    BY <1>2, <1>8, LeaveKeeps DEF Commit
  <2>2. ASSUME NEW d \in Commands \ {c} PROVE CommandInvariant(d)'
    BY <1>2, <1>8, CommitKeepsOthers
  <2>3. SchemaMatchesVersion' /\ SchemaIsItself(database)'
    BY <1>2, <1>8, CommitMatches
  <2> QED
    BY <1>1, <2>1, <2>2, <2>3 DEF MigrationInvariant
<1> QED
  BY <1>4, <1>5, <1>6, <1>7, <1>8 DEF Next

\* Every variable has its type, and no two commands hold one lock.
THEOREM Typing == Spec => []TypeOK
<1>1. Init => TypeOK
  <2>1. 0 \in 0 .. Latest
    BY LatestIs
  <2> QED
    BY <2>1 DEF Init, TypeOK, Running
<1>2. TypeOK /\ [Next]_vars => TypeOK'
  BY TypeOKStep
<1> QED
  BY <1>1, <1>2, PTL DEF Spec

\* However many alembic commands overlap, are refused or aborted, the inductive invariant
\* holds in every state.
THEOREM InvariantHolds == Spec => []MigrationInvariant
<1>1. Init => MigrationInvariant
  <2> SUFFICES ASSUME Init PROVE MigrationInvariant
    OBVIOUS
  <2>1. 0 \in 0 .. Latest
    BY LatestIs
  <2>2. TypeOK
    BY <2>1 DEF Init, TypeOK, Running
  <2>3. SchemaMatchesVersion
    BY <2>1, ScriptsFit DEF Init, SchemaMatchesVersion, Records, Owned
  <2>4. ASSUME NEW c \in Commands PROVE CommandInvariant(c)
    BY DEF Init, CommandInvariant, OnItsWay, TouchedIsLocked, ScriptFollowed, FirstTableIsNew,
       StampedHoldsVersion, LoneOnCourse, SchemaIsItself, Running, Stamped, Owned
  <2> QED
    BY <2>2, <2>3, <2>4 DEF MigrationInvariant, SchemaIsItself, Init
<1>2. MigrationInvariant /\ [Next]_vars => MigrationInvariant'
  BY InvariantStep
<1> QED
  BY <1>1, <1>2, PTL DEF Spec

\* The database always has the schema of the revision its version table names (env.py runs
\* a command in one transaction), for any number of commands.
THEOREM SchemaIsOfItsVersion == Spec => []SchemaMatchesVersion
<1>1. MigrationInvariant => SchemaMatchesVersion
  BY DEF MigrationInvariant
<1> QED
  BY <1>1, InvariantHolds, PTL

\* The models the services were written for are those of the last revision, however it was
\* reached, if the upgrades alone lead there (models.py).
THEOREM LatestMatchesModels ==
  ASSUME Tables(SchemaAt[Latest]) = Models
  PROVE  Spec => []LatestIsTheModels
<1>1. SchemaMatchesVersion => LatestIsTheModels
  <2>1. Latest \in 0 .. Latest
    BY LatestIs
  <2> QED
    BY <2>1, CommittedTables DEF LatestIsTheModels
<1> QED
  BY <1>1, SchemaIsOfItsVersion, PTL

-----------------------------------------------------------------------------
(* A lone command *)

\* What PostgreSQL accepts depends on the tables, and on the schema "orders" where a
\* statement refers to it.
LEMMA AcceptedAlike ==
  ASSUME NEW a, NEW b, NEW s, NEW v, Tables(a) = Tables(b), Records(b, v), SchemaIsItself(b),
         s.on # VersionTable,
         s.on = OrdersSchema => s.op = "create schema",
         \A p \in s.parts :
           /\ VersionTable \notin RefersTo(p)
           /\ OrdersSchema \in RefersTo(p) => Owned(b, OrdersSchema) # {},
         Accepted(a, s)
  PROVE  Accepted(b, s)
<1>1. CASE s.op = "create schema"
  BY <1>1 DEF Accepted
<1> SUFFICES ASSUME s.op # "create schema" PROVE Accepted(b, s)
  BY <1>1
<1>2. Ordinary(s.on)
  BY DEF Ordinary
<1>3. Owned(a, s.on) = Owned(b, s.on)
  BY <1>2, OwnersOfTables
<1>4. Parts(a, s.on) = Parts(b, s.on)
  BY <1>3 DEF Parts
<1>5. \A p : Named(a, s.on, p) = Named(b, s.on, p)
  BY <1>4 DEF Named
<1>6. ASSUME NEW o \in b, o[1] # s.on, s.on \in RefersTo(o[2])
      PROVE  o \in a
  <2>1. CASE o[1] = OrdersSchema
    BY <1>6, <2>1 DEF SchemaIsItself, RefersTo
  <2>2. CASE o[1] = VersionTable
    <3>1. o \in Owned(b, VersionTable)
      BY <2>2 DEF Owned
    <3>2. o = VersionRow(v)
      BY <3>1 DEF Records
    <3>3. o[2].kind = "row"
      BY <3>2 DEF VersionRow, Part
    <3> QED
      BY <1>6, <3>3 DEF RefersTo
  <2>3. CASE Ordinary(o[1])
    BY <2>3 DEF Tables, Ordinary
  <2> QED
    BY <2>1, <2>2, <2>3 DEF Ordinary
<1>7. CASE s.op = "drop schema"
  <2>1. \A o \in a : s.on \notin RefersTo(o[2])
    BY <1>7 DEF Accepted
  <2>2. ASSUME NEW o \in b, s.on \in RefersTo(o[2]) PROVE FALSE
    <3>1. CASE o[1] # s.on
      BY <1>6, <2>1, <2>2, <3>1
    <3>2. CASE o[1] = s.on
      <4>1. o \in a
        BY <1>3, <3>2 DEF Owned
      <4> QED
        BY <2>1, <2>2, <4>1
    <3> QED
      BY <3>1, <3>2
  <2> QED
    BY <1>7, <2>2 DEF Accepted
<1>8. CASE s.op = "create table"
  <2>1. /\ Owned(a, s.on) = {}
        /\ \A p \in s.parts : \A o \in RefersTo(p) : Owned(a, o) # {}
    BY <1>8 DEF Accepted
  <2>2. ASSUME NEW p \in s.parts, NEW o \in RefersTo(p) PROVE Owned(b, o) # {}
    <3>1. CASE Ordinary(o)
      BY <2>1, <3>1, OwnersOfTables
    <3>2. CASE o = OrdersSchema
      BY <3>2
    <3>3. o # VersionTable
      OBVIOUS
    <3> QED
      BY <3>1, <3>2, <3>3 DEF Ordinary
  <2> QED
    BY <1>3, <1>8, <2>1, <2>2 DEF Accepted
<1>9. CASE s.op = "drop table"
  <2>1. /\ Owned(a, s.on) # {}
        /\ \A o \in a : s.on \in RefersTo(o[2]) => o[1] = s.on
    BY <1>9 DEF Accepted
  <2>2. \A o \in b : s.on \in RefersTo(o[2]) => o[1] = s.on
    BY <1>6, <2>1
  <2> QED
    BY <1>3, <1>9, <2>1, <2>2 DEF Accepted
<1>10. CASE s.op = "add"
  <2>1. /\ Owned(a, s.on) # {}
        /\ \A p \in s.parts :
             /\ Named(a, s.on, p) = {}
             /\ \A c \in Uses(p) : \E q \in Parts(a, s.on) : q.kind = "column" /\ q.name = c
    BY <1>10 DEF Accepted
  <2> QED
    BY <1>3, <1>4, <1>5, <1>10, <2>1 DEF Accepted
<1>11. CASE s.op = "drop"
  <2>1. \A p \in s.parts : Named(a, s.on, p) # {}
    BY <1>11 DEF Accepted
  <2> QED
    BY <1>5, <1>11, <2>1 DEF Accepted
<1> QED
  BY <1>7, <1>8, <1>9, <1>10, <1>11 DEF Accepted

\* Without company no statement is refused.
LEMMA LoneIsAccepted ==
  ASSUME ScriptsGoThrough, MigrationInvariant, NEW c \in Commands, Running(c), alone[c],
         at[c] # goal[c], line[c] <= Len(Migration(c))
  PROVE  Accepted(View(c), Migration(c)[line[c]])
<1> DEFINE s == Migration(c)[line[c]]
<1>1. TypeOK /\ CommandInvariant(c) /\ SchemaIsItself(database)
  BY DEF MigrationInvariant
<1>2. line[c] \in 1 .. Len(Migration(c))
  BY <1>1, ItsScript DEF CommandInvariant, OnItsWay
<1>3. /\ Records(View(c), at[c])
      /\ Tables(View(c)) = Tables(StageOf(c))
      /\ at[c] = 0 /\ line[c] > 1 => Owned(View(c), OrdersSchema) # {}
  BY <1>1 DEF CommandInvariant, LoneOnCourse
<1>4. Accepted(StageOf(c), s)
  <2>1. /\ HasTarget(at[c], Up(c)) /\ Migration(c) = Script(at[c], Up(c))
        /\ at[c] \in 0 .. Latest /\ Up(c) \in BOOLEAN
        /\ StageOf(c) = Stage(at[c], Up(c), line[c])
    BY <1>1, InAScript
  <2> QED
    BY <1>2, <2>1 DEF ScriptsGoThrough
<1>5. StatementFits(at[c], line[c], s)
  BY <1>1, <1>2, ItsStatement
<1>6. SchemaIsItself(View(c))
  BY <1>1 DEF CommandInvariant, SchemaIsItself, View
<1> QED
  BY <1>3, <1>4, <1>5, <1>6, AcceptedAlike DEF StatementFits

\* Nor is the version row missing, or the next one there.
LEMMA LoneIsMatched ==
  ASSUME MigrationInvariant, NEW c \in Commands, Running(c), alone[c], at[c] # goal[c]
  PROVE  RowMatched(c)
<1>1. Records(View(c), at[c])
  BY DEF MigrationInvariant, CommandInvariant, LoneOnCourse
<1>2. TypeOK
  BY DEF MigrationInvariant
<1>3. at[c] \in 0 .. Latest /\ NextRevision(c) \in 0 .. Latest /\ NextRevision(c) # at[c]
  BY <1>2, InAScript DEF NextRevision
<1>4. Owned(View(c), VersionTable) = RowOf(at[c])
  BY <1>1 DEF Records, RowOf
<1>5. RowOf(at[c]) \subseteq View(c)
  BY <1>4 DEF Owned
<1>6. ASSUME NEW o \in RowOf(NextRevision(c)), o \in View(c) PROVE FALSE
  <2>1. NextRevision(c) # 0 /\ o = VersionRow(NextRevision(c))
    BY <1>6 DEF RowOf
  <2>2. o \in Owned(View(c), VersionTable)
    BY <1>6, <2>1 DEF Owned, VersionRow
  <2>3. at[c] # 0 /\ o = VersionRow(at[c])
    BY <1>4, <2>2 DEF RowOf
  <2>4. Records(View(c), NextRevision(c))
    BY <1>4, <2>1, <2>3 DEF Records, RowOf
  <2> QED
    BY <1>1, <1>3, <2>4, OneRevision
<1> QED
  BY <1>5, <1>6 DEF RowMatched

\* From every state that commands leave behind, a lone upgrade or downgrade goes through:
\* one is refused only if another ran beside it, provided each script is accepted on the
\* schema of its revision.
THEOREM LoneCommandGoesThrough ==
  ASSUME ScriptsGoThrough
  PROVE  Spec => []LoneCommandSucceeds
<1>1. Init => LoneCommandSucceeds
  BY DEF Init, LoneCommandSucceeds
<1>2. ASSUME MigrationInvariant, LoneCommandSucceeds, [Next]_vars
      PROVE  LoneCommandSucceeds'
  <2>1. TypeOK
    BY <1>2 DEF MigrationInvariant
  <2>2. CASE UNCHANGED vars
    BY <1>2, <2>2 DEF vars, LoneCommandSucceeds
  <2>3. ASSUME NEW c \in Commands, NEW v \in 0 .. Latest, Begin(c, v)
        PROVE  LoneCommandSucceeds'
    <3>1. pc'[c] = "running" /\ \A d \in Commands \ {c} : pc'[d] = pc[d] /\ (alone'[d] => alone[d])
      BY <2>1, <2>3 DEF Begin, TypeOK
    <3> QED
      BY <1>2, <3>1 DEF LoneCommandSucceeds
  <2>4. ASSUME NEW c \in Commands, Execute(c) \/ Stamp(c)
        PROVE  LoneCommandSucceeds'
    <3>1. UNCHANGED <<pc, alone>>
      BY <2>4 DEF Execute, Stamp, WriteVersion, Write
    <3> QED
      BY <1>2, <3>1 DEF LoneCommandSucceeds
  <2>5. ASSUME NEW c \in Commands, Commit(c) \/ Abort(c)
        PROVE  LoneCommandSucceeds'
    <3>1. pc'[c] = "off" /\ \A d \in Commands \ {c} : pc'[d] = pc[d] /\ alone'[d] = alone[d]
      BY <2>1, <2>5 DEF Commit, Abort, Leave, TypeOK
    <3> QED
      BY <1>2, <3>1 DEF LoneCommandSucceeds
  <2>6. ASSUME NEW c \in Commands, ExecuteRefused(c) \/ StampRefused(c)
        PROVE  LoneCommandSucceeds'
    <3>1. ~ alone[c]
      BY <1>2, <2>6, LoneIsAccepted, LoneIsMatched DEF ExecuteRefused, StampRefused, Migrated
    <3>2. ~ alone'[c] /\ \A d \in Commands \ {c} : pc'[d] = pc[d] /\ alone'[d] = alone[d]
      BY <2>1, <2>6, <3>1 DEF ExecuteRefused, StampRefused, Refuse, Leave, TypeOK
    <3> QED
      BY <1>2, <3>2 DEF LoneCommandSucceeds
  <2> QED
    BY <1>2, <2>2, <2>3, <2>4, <2>5, <2>6 DEF Next
<1> QED
  BY <1>1, <1>2, InvariantHolds, PTL DEF Spec
=============================================================================
