----------------------------- MODULE EntBuilder ----------------------------
(***************************************************************************)
(* One builder of the generated client, from its first call to Save: any   *)
(* sequence of the setters it offers, and of the mutation's methods by     *)
(* name, on one field, then the INSERT or UPDATE.  What reaches the row is *)
(* compared with what the calls asked for, read off their sequence.        *)
(***************************************************************************)
EXTENDS EntMutation

CONSTANT MaxSetterCalls      \* bound: calls on the field before Save

\* The strings that calls, defaults and rows hold.
Words == {"", "x", "y", "failed", "unknown", "retrying", "pending", "now", "POST",
          "notification.delivery_requested"}

ASSUME SettersAssumption ==
    /\ MaxSetterCalls \in Nat
    /\ NULL \notin Int /\ NULL \notin Words    \* a nil pointer is no value

VARIABLES
    target,     \* <<entity, operation, field>> the calls are about
    history,    \* the calls made so far
    mutation,   \* the builder's mutation
    row,        \* the row before Save, and after it
    before,     \* the row before Save
    saved       \* what Save returned, "none" before, "unused" when there is
                \* no such builder

builderVars == <<target, history, mutation, row, before, saved>>

entity == target[1]
op     == target[2]
field  == target[3]

\* Arguments: two values of the field's type, one of them refused by a
\* validator where the field has one.
Args(e, f) ==
    IF FieldKinds[e][f].numeric THEN {1, 2}
    ELSE IF f = "status" THEN {"failed", "unknown"} ELSE {"", "x"}

Sample(e, f) ==
    IF FieldKinds[e][f].numeric THEN 7 ELSE IF f = "status" THEN "retrying" ELSE "y"

\* The fields that only the caller can provide.
Needed(e) == Required[e] \ DOMAIN Defaults[e]

\* A stored row, with its optional columns filled or NULL.
StoredRow(e, filled) ==
    [f \in Fields(e) |->
        IF FieldKinds[e][f].optional /\ ~filled THEN NULL
        ELSE IF e = "OutboxEvent" /\ f = "status" THEN "pending" ELSE Sample(e, f)]

\* The setters a builder offers for the field, and the mutation's methods.
Offered ==
    LET kind == FieldKinds[entity][field]
        set  == IF op = "create" THEN Fields(entity) ELSE UpdateSetters[op][entity].set
        nil  == IF op = "create" THEN CreateNillable[entity]
                ELSE UpdateSetters[op][entity].nillable
        V    == Args(entity, field)
    IN  {SetNamed(field, v) : v \in V}
        \cup {Reset(field)}
        \cup (IF field \in set THEN {Set(field, v) : v \in V} ELSE {})
        \cup (IF field \in nil THEN {SetNillable(field, v) : v \in V \cup {NULL}} ELSE {})
        \cup {Add(field, v) : v \in IF kind.numeric THEN V ELSE {1}}
        \cup {Clear(field)}

-----------------------------------------------------------------------------

\* A builder from the client.  An update builder works on a row with or
\* without its optional columns, or on one that is not there.
BuilderInit ==
    /\ \E e \in Entity, o \in {"create", "update", "updateOne"} : \E f \in Fields(e) :
        /\ target = <<e, o, f>>
        /\ mutation = NewMutation(e, o)
        /\ row \in IF o = "create" THEN {NULL}
                   ELSE {StoredRow(e, full) : full \in BOOLEAN} \cup {NULL}
    /\ history = <<>>
    /\ before = row
    /\ saved = "none"

NoBuilder ==
    /\ target = <<>> /\ history = <<>> /\ mutation = NULL
    /\ row = NULL /\ before = NULL /\ saved = "unused"

CallsOn(fs) == {i \in DOMAIN history : history[i].field \in fs}

Made(c) ==
    /\ saved = "none"
    /\ history' = Append(history, c)
    /\ mutation' = Called(mutation, c)
    /\ UNCHANGED <<target, row, before, saved>>

CallSetter(c) == Cardinality(CallsOn({field})) < MaxSetterCalls /\ Made(c)

\* The caller of a create builder sets another needed field.  Calls on two
\* fields touch different entries of the mutation: these come first.
Provide(g) ==
    /\ op = "create" /\ CallsOn({field, g}) = {}
    /\ Made(Set(g, Sample(entity, g)))

SaveCreate ==
    /\ saved = "none" /\ op = "create"
    /\ saved' = CreateAnswer(mutation)
    /\ row' = IF saved' = "ok" THEN InsertedRow(Defaulted(mutation)) ELSE row
    /\ mutation' = Defaulted(mutation)
    /\ UNCHANGED <<target, history, before>>

SaveUpdate ==
    /\ saved = "none" /\ op # "create"
    /\ saved' = UpdateAnswer(mutation, row)
    /\ row' = IF saved' = "ok" THEN UpdatedRow(Defaulted(mutation), row) ELSE row
    /\ mutation' = Defaulted(mutation)
    /\ UNCHANGED <<target, history, before>>

BuilderStep ==
    \/ saved = "none" /\ \E c \in Offered : CallSetter(c)
    \/ saved = "none" /\ \E g \in Needed(entity) \ {field} : Provide(g)
    \/ SaveCreate \/ SaveUpdate

-----------------------------------------------------------------------------
(***************************************************************************)
(* What the calls asked for, read off their sequence.                      *)
(***************************************************************************)
Log == [entity |-> entity, op |-> op, calls |-> history]

\* The positions of the calls of these kinds on f in log b, after position
\* k.  Adding to a field that is no number, clearing one that is not optional
\* and setting from a nil pointer do nothing.
On(b, f, kinds, k) ==
    {i \in DOMAIN b.calls :
        LET c == b.calls[i]
        IN  /\ i > k /\ c.field = f /\ c.call \in kinds
            /\ c.call = "nillable" => c.arg # NULL
            /\ c.call = "add"   => FieldKinds[b.entity][f].numeric
            /\ c.call = "clear" => FieldKinds[b.entity][f].optional}

LastOf(S) == IF S = {} THEN 0 ELSE Max(S)

Setters == {"set", "nillable", "named"}

\* The position everything on f starts from: its last reset, or the last
\* setter of an update builder that resets.
Start(b, f) ==
    LET reset == LastOf(On(b, f, {"reset"}, 0))
        whole == IF b.op # "create" /\ FieldKinds[b.entity][f].numeric
                 THEN LastOf(On(b, f, {"set", "nillable"}, 0)) ELSE 0
    IN  IF whole > reset THEN whole - 1 ELSE reset

Cleared(b, f) == LastOf(On(b, f, {"clear"}, Start(b, f)))

LastSet(b, f) ==
    LastOf(On(b, f, Setters, IF Cleared(b, f) > 0 THEN Cleared(b, f) ELSE Start(b, f)))

AddsFrom(b, f, k) == On(b, f, {"add"}, k)

\* The calls contradict each other: set or added to after a clear, or added
\* to after a set.
Contradictory(b, f) ==
    \/ Cleared(b, f) > 0 /\ (LastSet(b, f) > 0 \/ AddsFrom(b, f, Cleared(b, f)) # {})
    \/ LastSet(b, f) > 0 /\ AddsFrom(b, f, LastSet(b, f)) # {}

\* The sums of the first numbers of t.
Total(t) == LET sum[i \in Nat] == IF i = 0 THEN 0 ELSE sum[i - 1] + t[i]
            IN  sum

\* The amount that the calls after position k add to f.
Added(b, f, k) ==
    Total([i \in Nat |-> IF i \in AddsFrom(b, f, k) THEN b.calls[i].arg ELSE 0])[Len(b.calls)]

\* The last word on f, given what the column held before.
LastWord(b, f, old) ==
    IF LastSet(b, f) > 0 THEN b.calls[LastSet(b, f)].arg
    ELSE IF Cleared(b, f) > 0 THEN NULL
    ELSE IF AddsFrom(b, f, Start(b, f)) # {}
         THEN Added(b, f, Start(b, f)) + (IF old = NULL THEN 0 ELSE old)
    ELSE old

\* A created row holds what the last setter of each column was given and the
\* schema's default or NULL elsewhere; an updated row holds the last word on
\* each column, and created_at as it was (ent/schema: Immutable), whichever
\* setters, nil pointers, resets and by-name methods the builder went through.
SavedAsAsked ==
    saved = "ok" =>
        \A f \in Table[entity].columns :
            row[f] =
                IF op = "create"
                THEN IF LastSet(Log, f) > 0 THEN history[LastSet(Log, f)].arg
                     ELSE IF f \in DOMAIN Defaults[entity] THEN Defaults[entity][f]
                     ELSE NULL
                ELSE IF f = "created_at" THEN before[f]
                ELSE IF f = "updated_at" /\ LastSet(Log, f) = 0 THEN "now"
                ELSE LastWord(Log, f, before[f])

\* The database refuses an update as malformed exactly when valid calls on a
\* column contradict each other: that is the only way a builder can build a
\* statement that assigns a column twice.
MalformedOnlyIfContradictory ==
    saved \notin {"none", "unused"} /\ op # "create" /\ saved # "ValidationError" =>
        (saved = "SyntaxError" <=> \E f \in Fields(entity) : Contradictory(Log, f))

\* check() lets no statement through that violates a NOT NULL constraint of
\* the table that migrate created, and none that stores a status outside its
\* enum, which the table itself, a varchar column, would take.
ChecksCoverTable ==
    /\ saved # "ConstraintError"
    /\ saved = "ok" => row["status"] \in Table[entity].enum
=============================================================================
