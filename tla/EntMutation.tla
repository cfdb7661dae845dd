---------------------------- MODULE EntMutation ----------------------------
(***************************************************************************)
(* The generated mutations and builders (ent/mutation.go, *_create.go,     *)
(* *_update.go): how a sequence of builder calls becomes one INSERT or     *)
(* UPDATE, and what PostgreSQL makes of it.                                *)
(*                                                                         *)
(* A mutation remembers, per field, a value that was set, an amount that   *)
(* was added and a mark that it was cleared.  The three are independent:   *)
(* setting a value does not take a clear mark away, nor does adding take   *)
(* a value away, so one statement may assign a column twice.               *)
(***************************************************************************)
EXTENDS EntSchema, SequencesExt

With(f, x, v) == [y \in DOMAIN f \cup {x} |-> IF y = x THEN v ELSE f[y]]
Without(f, x) == Restrict(f, DOMAIN f \ {x})

\* newXMutation
NewMutation(e, op) ==
    [ entity |-> e, op |-> op,
      value |-> <<>>, added |-> <<>>, cleared |-> {} ]

-----------------------------------------------------------------------------
(***************************************************************************)
(* The methods every field of a kind has.                                  *)
(***************************************************************************)

\* SetX: the value, and no addition any more.
SetValue(m, f, v) ==
    [m EXCEPT !.value = With(@, f, v), !.added = Without(@, f)]

\* AddX
AddValue(m, f, v) ==
    [m EXCEPT !.added = With(@, f, v + (IF f \in DOMAIN @ THEN @[f] ELSE 0))]

\* Mutant: clearing keeps the value that was set.
ClearKeepingValue(m, f) == [m EXCEPT !.cleared = @ \cup {f}]

\* ClearX
ClearValue(m, f) ==
    [m EXCEPT !.value = Without(@, f), !.added = Without(@, f), !.cleared = @ \cup {f}]

\* ResetX
ResetValue(m, f) ==
    [m EXCEPT !.value = Without(@, f), !.added = Without(@, f), !.cleared = @ \ {f}]

(***************************************************************************)
(* The same by field name, as hooks and generic callers use them: a name   *)
(* of the wrong kind is an error that changes nothing.                     *)
(***************************************************************************)

SetField(m, f, v) ==
    IF f \in Fields(m.entity) THEN SetValue(m, f, v) ELSE m

AddField(m, f, v) ==
    IF f \in Fields(m.entity) /\ FieldKinds[m.entity][f].numeric
    THEN AddValue(m, f, v) ELSE m

ClearField(m, f) ==
    IF f \in Fields(m.entity) /\ FieldKinds[m.entity][f].optional
    THEN ClearValue(m, f) ELSE m

ResetField(m, f) == IF f \in Fields(m.entity) THEN ResetValue(m, f) ELSE m

-----------------------------------------------------------------------------
(***************************************************************************)
(* Builder calls.  A call is a record; the typed setters of the create and *)
(* update builders become calls on the mutation.                           *)
(***************************************************************************)

Set(f, v)         == [call |-> "set",      field |-> f, arg |-> v]
SetNillable(f, v) == [call |-> "nillable", field |-> f, arg |-> v]
Add(f, v)         == [call |-> "add",      field |-> f, arg |-> v]
Clear(f)          == [call |-> "clear",    field |-> f, arg |-> NULL]
Reset(f)          == [call |-> "reset",    field |-> f, arg |-> NULL]
SetNamed(f, v)    == [call |-> "named",    field |-> f, arg |-> v]

\* An update builder resets a numeric field before it sets it.
SetByBuilder(m, f, v) ==
    SetValue(IF m.op # "create" /\ FieldKinds[m.entity][f].numeric
             THEN ResetValue(m, f) ELSE m, f, v)

Called(m, c) ==
    CASE c.call = "set"      -> SetByBuilder(m, c.field, c.arg)
      [] c.call = "nillable" -> IF c.arg = NULL THEN m ELSE SetByBuilder(m, c.field, c.arg)
      [] c.call = "named"    -> SetField(m, c.field, c.arg)
      [] c.call = "add"      -> AddField(m, c.field, c.arg)
      [] c.call = "clear"    -> ClearField(m, c.field)
      [] c.call = "reset"    -> ResetField(m, c.field)

\* A chain of calls, as in the code: builder ## call ## call.
m ## c == Called(m, c)

-----------------------------------------------------------------------------
(***************************************************************************)
(* Saving                                                                  *)
(***************************************************************************)

\* Mutant: defaults replace what the caller set.
DefaultedOverriding(m) ==
    LET d == IF m.op = "create" THEN Defaults[m.entity] ELSE UpdateDefaults[m.entity]
    IN  [m EXCEPT !.value = d ++ @]

\* defaults(): what the builder sets before the hooks and the checks run.
Defaulted(m) ==
    LET d == IF m.op = "create" THEN Defaults[m.entity] ELSE UpdateDefaults[m.entity]
    IN  [m EXCEPT !.value = @ ++ d,
                  !.added = Restrict(@, {f \in DOMAIN @ :
                                f \in DOMAIN m.value \/ f \notin DOMAIN d})]

\* The validators: url must not be empty, status must be one of the enum's.
Validates(m, f) ==
    /\ f = "url"    => m.value[f] # ""
    /\ f = "status" => m.value[f] \in Statuses[m.entity]

\* check() of a create builder, without and with its required fields, and of
\* an update builder.
CheckValues(m) == \A f \in DOMAIN m.value : Validates(m, f)
CheckCreate(m) == Required[m.entity] \subseteq DOMAIN m.value /\ CheckValues(m)
CheckUpdate(m) == CheckValues(m)

\* createSpec(): the INSERT's columns; the others become NULL.
InsertedRow(m) ==
    [f \in Table[m.entity].columns |->
        IF f \in CreateSpec[m.entity] \cap DOMAIN m.value THEN m.value[f] ELSE NULL]

\* sqlSave(): the SetField, AddField and ClearField clauses of the UPDATE.
Assigns(m) ==
    LET s == UpdateSpec[m.op][m.entity]
    IN  [ set   |-> s.set \cap DOMAIN m.value,
          add   |-> s.add \cap DOMAIN m.added,
          clear |-> s.clear \cap m.cleared ]

\* PostgreSQL refuses an UPDATE that assigns one column twice.
AssignsTwice(m) ==
    LET a == Assigns(m)
    IN  (a.set \cap a.add) \cup (a.set \cap a.clear) \cup (a.add \cap a.clear)

\* What the UPDATE makes of a row; NULL counts as 0 when it is added to.
UpdatedRow(m, row) ==
    LET a == Assigns(m)
    IN  [f \in DOMAIN row |->
            CASE f \in a.set   -> m.value[f]
              [] f \in a.add   -> m.added[f] + (IF row[f] = NULL THEN 0 ELSE row[f])
              [] f \in a.clear -> NULL
              [] OTHER         -> row[f]]

\* The constraints PostgreSQL checks on a row of entity e.  An enum of ent is
\* a varchar to PostgreSQL, which takes any text.
RowFits(e, row) == \A f \in Table[e].columns \ Table[e].nullable : row[f] # NULL

\* Save(): the error it returns, or "ok".
CreateAnswer(m) ==
    LET d == Defaulted(m)
    IN  IF ~CheckCreate(d) THEN "ValidationError"
        ELSE IF ~RowFits(m.entity, InsertedRow(d)) THEN "ConstraintError" ELSE "ok"

\* Without a row that matches, Update counts none and UpdateOne has an error.
UpdateAnswer(m, row) ==
    LET d == Defaulted(m)
    IN  IF ~CheckUpdate(d) THEN "ValidationError"
        ELSE IF AssignsTwice(d) # {} THEN "SyntaxError"
        ELSE IF row = NULL THEN IF m.op = "update" THEN "none affected" ELSE "NotFoundError"
        ELSE IF ~RowFits(m.entity, UpdatedRow(d, row)) THEN "ConstraintError" ELSE "ok"
=============================================================================
