------------------------------- MODULE Schema -------------------------------
(***************************************************************************)
(* The objects of a PostgreSQL schema and the statements that migrations   *)
(* are written in: what a statement does to the schema and to the values   *)
(* stored under enums, and when PostgreSQL refuses it. Columns keep their  *)
(* name and whether an enum is their type; of defaults there is the one    *)
(* that a migration has to take off its enum column. TypeORM names a type  *)
(* after its table and column, so a type is told by those two.             *)
(***************************************************************************)
EXTENDS FiniteSets, SequencesExt

Thing(kind, of, on, value) == [kind |-> kind, of |-> of, on |-> on, value |-> value]

Table(t) == Thing("table", t, {}, "")
Column(t, c, type) == Thing("column", t, {c}, type)     \* "" unless an enum
Type(t, c) == Thing("type", t, {c}, "")
Value(t, c, v) == Thing("value", t, {c}, v)
OldType(t, c) == Thing("old type", t, {c}, "")
Unique(t, columns) == Thing("unique", t, columns, "")
Index(t, columns) == Thing("index", t, columns, "")
Key(t, c, parent) == Thing("key", t, {c}, parent)
Default(t, c, v) == Thing("default", t, {c}, v)

Enum(t, c, values) == {Type(t, c)} \cup {Value(t, c, v) : v \in values}
TableOf(t, plain, enums, uniques) ==
    {Table(t)} \cup {Column(t, c, "") : c \in plain}
    \cup {Column(t, c, "type") : c \in enums} \cup {Unique(t, u) : u \in uniques}

-----------------------------------------------------------------------------
(* Statements.                                                             *)

Does(what, things, to) == [does |-> what, things |-> things, to |-> to]

Create(things) == Does("create", things, "")
CreateType(t, c, values) == Create(Enum(t, c, values))
CreateTable(t, plain, enums, uniques) == Create(TableOf(t, plain, enums, uniques))
CreateTableDefault(t, plain, enums, uniques, c, v) ==
    Create(TableOf(t, plain, enums, uniques) \cup {Default(t, c, v)})
CreateIndex(t, columns) == Create({Index(t, columns)})
AddColumn(t, c) == Create({Column(t, c, "")})
AddTyped(t, c) == Create({Column(t, c, "type")})
AddKey(t, c, parent) == Create({Key(t, c, parent)})
SetDefault(t, c, v) == Create({Default(t, c, v)})

Drop(thing) == Does("drop", {thing}, "")
DropTable(t) == Drop(Table(t))
DropType(t, c) == Drop(Type(t, c))
DropOldType(t, c) == Drop(OldType(t, c))
DropIndex(t, columns) == Drop(Index(t, columns))
DropColumn(t, c) == Drop(Column(t, c, ""))
DropKey(t, c) == Drop(Key(t, c, ""))
DropDefault(t, c) == Drop(Default(t, c, ""))

RenameType(t, c) == Does("rename", {Type(t, c)}, "old type")
Retype(t, c) == Does("retype", {Column(t, c, "type")}, "")
UpdateRows(t, c, values, to) == Does("update", {Value(t, c, v) : v \in values}, to)
DeleteRows(t, c, v) == Does("delete", {Value(t, c, v)}, "")

-----------------------------------------------------------------------------
(* Their effect.                                                           *)

\* A statement names an object, not what it is made of.
Named(x, y) == x.kind = y.kind /\ x.of = y.of /\ x.on = y.on
InSchema(x, objects) == \E y \in objects : Named(x, y)

\* What goes when x is dropped, and what forbids dropping it while it is there.
BelongsTo(y, x) ==
    \/ Named(y, x)
    \/ x.kind = "table" /\ y.of = x.of
       /\ y.kind \in {"column", "unique", "index", "key", "default"}
    \/ x.kind = "column" /\ y.of = x.of /\ x.on \subseteq y.on
       /\ y.kind \in {"unique", "index", "key", "default"}
    \/ x.kind = "type" /\ y.kind = "value" /\ y.of = x.of /\ y.on = x.on
ReliesOn(y, x) ==
    \/ x.kind = "table" /\ y.kind = "key" /\ y.value = x.of
    \/ x.kind \in {"type", "old type"} /\ y.kind = "column"
       /\ y.of = x.of /\ y.on = x.on /\ y.value = x.kind

Dropped(s, objects) == {y \in objects : \E x \in s.things : BelongsTo(y, x)}

\* What a new object is made on is there, or is made with it.
Founded(x, all) ==
    /\ x.kind \in {"column", "unique", "index", "key"} => Table(x.of) \in all
    /\ x.kind \in {"unique", "index", "key", "default"} =>
          \A c \in x.on : \E y \in all : y.kind = "column" /\ y.of = x.of /\ y.on = {c}
    /\ x.kind = "column" /\ x.value # "" => Thing(x.value, x.of, x.on, "") \in all
    /\ x.kind = "key" => Table(x.value) \in all
    /\ x.kind = "default" => Thing("value", x.of, x.on, x.value) \in all

\* The type is renamed under the columns that use it; its values go with it.
Renamed(x) ==
    IF x.kind = "type" THEN {Thing("old type", x.of, x.on, "")}
    ELSE IF x.kind = "value" THEN {}
    ELSE IF x.kind = "column" THEN {Thing("column", x.of, x.on, "old type")} ELSE {x}

Uses(x, s) == \E y \in s.things : x.of = y.of /\ x.on = y.on

Refused(s, objects, rows) ==
    CASE s.does = "create" ->
            \E x \in s.things : InSchema(x, objects) \/ ~Founded(x, objects \cup s.things)
      [] s.does = "drop" ->
            \/ \E x \in s.things : ~InSchema(x, objects)
            \/ \E x \in s.things, y \in objects \ Dropped(s, objects) : ReliesOn(y, x)
      [] s.does = "rename" ->
            \E x \in s.things : x \notin objects \/ OldType(x.of, CHOOSE c \in x.on : TRUE) \in objects
      [] s.does = "retype" ->
            \E x \in s.things :
               \/ ~InSchema(x, objects) \/ Thing("type", x.of, x.on, "") \notin objects
               \/ \E y \in objects : y.kind = "default" /\ Uses(y, s)
               \/ \E v \in rows : Uses(v, s) /\ v \notin objects
      [] s.does = "update" ->
            \E x \in s.things : Thing("value", x.of, x.on, s.to) \notin objects
      [] s.does = "delete" -> \E x \in s.things : Table(x.of) \notin objects

After(s, objects) ==
    CASE s.does = "create" -> objects \cup s.things
      [] s.does = "drop" -> objects \ Dropped(s, objects)
      [] s.does = "rename" -> UNION {IF Uses(x, s) THEN Renamed(x) ELSE {x} : x \in objects}
      [] s.does = "retype" -> {x \in objects : ~(x.kind = "column" /\ Uses(x, s))} \cup s.things
      [] s.does \in {"update", "delete"} -> objects

StoredAfter(s, rows) ==
    CASE s.does = "update" ->
            (rows \ s.things) \cup {Thing(x.kind, x.of, x.on, s.to) : x \in rows \cap s.things}
      [] s.does = "delete" -> rows \ s.things
      [] s.does = "drop" ->
            {v \in rows : \A x \in s.things : ~(x.kind = "table" /\ x.of = v.of)}
      [] s.does \in {"create", "rename", "retype"} -> rows
=============================================================================
