------------------------ MODULE RepositoryTx_proofs ------------------------
(***************************************************************************)
(* Proofs about the repository's statements, for any number of             *)
(* notifications, goroutines, calls and failing statements.                *)
(*                                                                         *)
(* The first half computes what the builder chains write, once for all     *)
(* calls.  The second half is about sessions: what each has staged at      *)
(* each statement, and which of them has locked which row.                 *)
(***************************************************************************)
EXTENDS RepositoryTx, FiniteSetTheorems, SequenceTheorems, TLAPS

-----------------------------------------------------------------------------
(***************************************************************************)
(* What one builder call does                                              *)
(***************************************************************************)

\* m is a mutation with these values and clear marks that adds to no field.
Mutation(m, e, o, V, C) ==
    /\ DOMAIN m = {"entity", "op", "value", "added", "cleared"}
    /\ m.entity = e /\ m.op = o
    /\ m.value = V /\ m.added = <<>> /\ m.cleared = C

\* The kinds of the columns that the repository updates.
LEMMA NotificationKinds ==
    LET kinds == FieldKinds["Notification"]
    IN  /\ {"status", "attempt_count", "last_error", "next_attempt_at"} \subseteq DOMAIN kinds
        /\ ~kinds["status"].numeric /\ ~kinds["last_error"].numeric
        /\ ~kinds["next_attempt_at"].numeric /\ kinds["attempt_count"].numeric
        /\ kinds["last_error"].optional /\ kinds["next_attempt_at"].optional
  BY DEF FieldKinds, ++, NotificationRequestFields, NotificationProgressFields,
         NotificationOutcomeFields, Plain, Numeric, Optional

\* There is nothing to remove from an empty function.
LEMMA WithoutNothing ==
    ASSUME NEW f
    PROVE  Without(<<>>, f) = <<>>
  BY DEF Without, Restrict

\* What the methods of a mutation do.
LEMMA MutationSteps ==
    ASSUME NEW m, NEW e, NEW o, NEW V, NEW C, NEW f, NEW v, Mutation(m, e, o, V, C)
    PROVE  /\ Mutation(SetValue(m, f, v), e, o, With(V, f, v), C)
           /\ Mutation(ResetValue(m, f), e, o, Without(V, f), C \ {f})
           /\ Mutation(ClearValue(m, f), e, o, Without(V, f), C \cup {f})
  <1>1. SetValue(m, f, v) = [m EXCEPT !.value = With(V, f, v), !.added = <<>>]
    BY WithoutNothing DEF SetValue, Mutation
  <1>2. ResetValue(m, f) =
            [m EXCEPT !.value = Without(V, f), !.added = <<>>, !.cleared = C \ {f}]
    BY WithoutNothing DEF ResetValue, Mutation
  <1>3. ClearValue(m, f) =
            [m EXCEPT !.value = Without(V, f), !.added = <<>>, !.cleared = C \cup {f}]
    BY WithoutNothing DEF ClearValue, Mutation
  <1>4. Mutation(SetValue(m, f, v), e, o, With(V, f, v), C)
    BY <1>1 DEF Mutation
  <1>5. Mutation(ResetValue(m, f), e, o, Without(V, f), C \ {f})
    BY <1>2 DEF Mutation
  <1>6. Mutation(ClearValue(m, f), e, o, Without(V, f), C \cup {f})
    BY <1>3 DEF Mutation
  <1> QED BY <1>4, <1>5, <1>6

\* What a call of a builder is to its mutation.
LEMMA CalledSet ==
    ASSUME NEW m, NEW f, NEW v
    PROVE  m ## Set(f, v) = SetByBuilder(m, f, v)
  <1> DEFINE c == Set(f, v)
  <1>1. c.call = "set" /\ c.field = f /\ c.arg = v
    BY DEF Set
  <1> HIDE DEF c
  <1>2. Called(m, c) = SetByBuilder(m, c.field, c.arg)
    BY <1>1 DEF Called
  <1> QED BY <1>1, <1>2 DEF ##, c

LEMMA CalledClear ==
    ASSUME NEW m, NEW f
    PROVE  m ## Clear(f) = ClearField(m, f)
  <1> DEFINE c == Clear(f)
  <1>1. c.call = "clear" /\ c.field = f
    BY DEF Clear
  <1> HIDE DEF c
  <1>2. Called(m, c) = ClearField(m, c.field)
    BY <1>1 DEF Called
  <1> QED BY <1>1, <1>2 DEF ##, c

\* A setter of a create builder.
LEMMA CreateSet ==
    ASSUME NEW m, NEW e, NEW V, NEW C, NEW f, NEW v, Mutation(m, e, "create", V, C)
    PROVE  Mutation(m ## Set(f, v), e, "create", With(V, f, v), C)
  <1>1. m ## Set(f, v) = SetValue(m, f, v)
    BY CalledSet DEF SetByBuilder, Mutation
  <1>2. Mutation(SetValue(m, f, v), e, "create", With(V, f, v), C)
    BY MutationSteps
  <1> QED BY <1>1, <1>2

\* A setter of an update builder.
LEMMA UpdateSet ==
    ASSUME NEW m, NEW V, NEW C, NEW v, Mutation(m, "Notification", "update", V, C),
           NEW f \in {"status", "attempt_count", "last_error", "next_attempt_at"}
    PROVE  Mutation(m ## Set(f, v), "Notification", "update", With(V, f, v),
                    IF f = "attempt_count" THEN C \ {f} ELSE C)
  <1>1. CASE f = "attempt_count"
    <2>1. m ## Set(f, v) = SetValue(ResetValue(m, f), f, v)
      BY <1>1, CalledSet, NotificationKinds DEF SetByBuilder, Mutation
    <2>2. Mutation(ResetValue(m, f), "Notification", "update", Without(V, f), C \ {f})
      BY MutationSteps
    <2>3. With(Without(V, f), f, v) = With(V, f, v)
      BY DEF With, Without, Restrict
    <2>4. Mutation(SetValue(ResetValue(m, f), f, v), "Notification", "update",
                   With(Without(V, f), f, v), C \ {f})
      BY <2>2, MutationSteps
    <2> QED BY <1>1, <2>1, <2>3, <2>4
  <1>2. CASE f # "attempt_count"
    <2>1. m ## Set(f, v) = SetValue(m, f, v)
      BY <1>2, CalledSet, NotificationKinds DEF SetByBuilder, Mutation
    <2>2. Mutation(SetValue(m, f, v), "Notification", "update", With(V, f, v), C)
      BY MutationSteps
    <2> QED BY <1>2, <2>1, <2>2
  <1> QED BY <1>1, <1>2

\* A clear of an update builder.
LEMMA UpdateClear ==
    ASSUME NEW m, NEW V, NEW C, Mutation(m, "Notification", "update", V, C),
           NEW f \in {"last_error", "next_attempt_at"}
    PROVE  Mutation(m ## Clear(f), "Notification", "update", Without(V, f), C \cup {f})
  <1>1. m ## Clear(f) = ClearValue(m, f)
    BY CalledClear, NotificationKinds DEF ClearField, Fields, Mutation
  <1>2. Mutation(ClearValue(m, f), "Notification", "update", Without(V, f), C \cup {f})
    BY MutationSteps
  <1> QED BY <1>1, <1>2

-----------------------------------------------------------------------------
(***************************************************************************)
(* What an UPDATE of a notification writes                                 *)
(***************************************************************************)

\* A fresh mutation is empty.
LEMMA NewMutationEmpty ==
    ASSUME NEW e, NEW o
    PROVE  Mutation(NewMutation(e, o), e, o, <<>>, {})
  BY DEF Mutation, NewMutation

Columns == Table["Notification"].columns

\* The columns that the repository's updates set or clear.
Touched == {"status", "attempt_count", "last_error", "next_attempt_at"}

\* An update that sets these values, clears these columns and contradicts
\* itself nowhere.
WellFormed(m, V, C) ==
    /\ Mutation(m, "Notification", "update", V, C)
    /\ DOMAIN V \subseteq Touched
    /\ C \subseteq {"last_error", "next_attempt_at"}
    /\ DOMAIN V \cap C = {}
    /\ "status" \in DOMAIN V
    /\ V["status"] \in NotificationStatuses

\* The row that such an update makes.
RowAfter(row, V, C) ==
    [f \in Columns |->
        IF f = "updated_at" THEN "now"
        ELSE IF f \in DOMAIN V THEN V[f]
        ELSE IF f \in C THEN NULL ELSE row[f]]

\* defaults() adds the time of the update.
LEMMA UpdateDefaulted ==
    ASSUME NEW m, NEW V, NEW C, WellFormed(m, V, C)
    PROVE  Mutation(Defaulted(m), "Notification", "update", V ++ [updated_at |-> "now"], C)
  <1>1. UpdateDefaults["Notification"] = [updated_at |-> "now"]
    BY DEF UpdateDefaults
  <1>2. ASSUME NEW S PROVE Restrict(<<>>, {f \in DOMAIN <<>> : f \in S}) = <<>>
    BY DEF Restrict
  <1>3. Defaulted(m) = [m EXCEPT !.value = V ++ [updated_at |-> "now"], !.added = <<>>]
    <2> DEFINE d == [updated_at |-> "now"]
               K == {f \in DOMAIN m.added : f \in DOMAIN m.value \/ f \notin DOMAIN d}
    <2>1. K = {}
      BY DEF WellFormed, Mutation
    <2>2. Restrict(m.added, K) = <<>>
      BY <2>1 DEF WellFormed, Mutation, Restrict
    <2> QED BY <1>1, <2>2 DEF Defaulted, WellFormed, Mutation
  <1> QED BY <1>3 DEF WellFormed, Mutation

\* The statement passes ent's checks and PostgreSQL's, and changes the row
\* as it says.
LEMMA UpdateEffect ==
    ASSUME NEW m, NEW V, NEW C, WellFormed(m, V, C), NEW row, DOMAIN row = Columns
    PROVE  /\ CheckUpdate(Defaulted(m))
           /\ AssignsTwice(Defaulted(m)) = {}
           /\ UpdatedRow(Defaulted(m), row) = RowAfter(row, V, C)
  <1> DEFINE d == Defaulted(m)
             W == V ++ [updated_at |-> "now"]
  <1> HIDE DEF d
  <1>1. Mutation(d, "Notification", "update", W, C)
    BY UpdateDefaulted DEF d
  <1>2. /\ DOMAIN W = DOMAIN V \cup {"updated_at"}
        /\ \A f \in DOMAIN V : W[f] = V[f]
        /\ W["updated_at"] = "now"
    BY DEF ++, WellFormed, Touched
  <1> HIDE DEF W
  <1>3. /\ UpdateSpec[d.op][d.entity] = NotificationUpdateSpec
        /\ Statuses[d.entity] = NotificationStatuses
    BY <1>1 DEF UpdateSpec, Mutation, Statuses
  <1>4. /\ Assigns(d).set = DOMAIN V \cup {"updated_at"}
        /\ Assigns(d).add = {}
        /\ Assigns(d).clear = C
    <2> DEFINE s == NotificationUpdateSpec
    <2>1. /\ DOMAIN V \cup {"updated_at"} \subseteq s.set
          /\ C \subseteq s.clear
      BY DEF NotificationUpdateSpec, WellFormed, Touched
    <2> HIDE DEF s
    <2>2. /\ Assigns(d).set = s.set \cap DOMAIN d.value
          /\ Assigns(d).add = s.add \cap DOMAIN d.added
          /\ Assigns(d).clear = s.clear \cap d.cleared
      BY <1>3 DEF Assigns, s
    <2>3. d.value = W /\ d.added = <<>> /\ d.cleared = C
      BY <1>1 DEF Mutation
    <2> QED BY <1>2, <2>1, <2>2, <2>3
  <1>5. CheckUpdate(d)
    BY <1>1, <1>2, <1>3 DEF CheckUpdate, CheckValues, Validates, Mutation, WellFormed, Touched
  <1>6. AssignsTwice(d) = {}
    BY <1>4 DEF AssignsTwice, WellFormed, Touched
  <1>7. UpdatedRow(d, row) = RowAfter(row, V, C)
    <2>1. d.value = W
      BY <1>1 DEF Mutation
    <2>2. ASSUME NEW f \in Columns
          PROVE  UpdatedRow(d, row)[f] = RowAfter(row, V, C)[f]
      BY <1>2, <1>4, <2>1, <2>2 DEF UpdatedRow, RowAfter, WellFormed, Touched
    <2> QED BY <2>2 DEF UpdatedRow, RowAfter
  <1> QED BY <1>5, <1>6, <1>7 DEF d

-----------------------------------------------------------------------------
(***************************************************************************)
(* The calls, and what their updates set and clear                         *)
(***************************************************************************)

Updates == {"retry", "mark", "success", "failure"}

\* What the fields of a call may be.
LEMMA CallShape ==
    ASSUME NEW c \in Calls
    PROVE  /\ c.op \in {"create", "get", "list", "load"} \cup Updates
           /\ c.id \in Notification
           /\ c.op \in {"success", "failure"} => c.number \in 1..20
           /\ c.op = "success" => c.code = 200 /\ c.message = "" /\ c.next = NULL
           /\ c.op = "failure" => \/ c.code = 0 /\ c.message = "transport" /\ c.next = NULL
                                  \/ c.code = 503 /\ c.message = "status" /\ c.next = 1
  <1>1. PICK n \in Notification : c \in CallsOn(n) \cup {PlainCall("create", n)}
    BY DEF Calls
  <1>2. \A k \in 1..MaxNumber : k \in 1..20
    BY TxAssumption
  <1>3. CASE c \in {PlainCall(op, n) : op \in {"create", "get", "list", "retry", "load", "mark"}}
    <2>1. PICK op \in {"create", "get", "list", "retry", "load", "mark"} : c = PlainCall(op, n)
      BY <1>3
    <2>2. c.op = op /\ c.id = n
      BY <2>1 DEF PlainCall, Call
    <2> QED BY <2>2 DEF Updates
  <1>4. CASE c \in {Call("success", n, k, 200, "", NULL) : k \in 1..MaxNumber}
    <2>1. PICK k \in 1..MaxNumber : c = Call("success", n, k, 200, "", NULL)
      BY <1>4
    <2>2. /\ c.op = "success" /\ c.id = n /\ c.number = k
          /\ c.code = 200 /\ c.message = "" /\ c.next = NULL
      BY <2>1 DEF Call
    <2> QED BY <1>2, <2>2 DEF Updates
  <1>5. CASE c \in {Call("failure", n, k, 0, "transport", NULL) : k \in 1..MaxNumber}
    <2>1. PICK k \in 1..MaxNumber : c = Call("failure", n, k, 0, "transport", NULL)
      BY <1>5
    <2>2. /\ c.op = "failure" /\ c.id = n /\ c.number = k
          /\ c.code = 0 /\ c.message = "transport" /\ c.next = NULL
      BY <2>1 DEF Call
    <2> QED BY <1>2, <2>2 DEF Updates
  <1>6. CASE c \in {Call("failure", n, k, 503, "status", 1) : k \in 1..MaxNumber}
    <2>1. PICK k \in 1..MaxNumber : c = Call("failure", n, k, 503, "status", 1)
      BY <1>6
    <2>2. /\ c.op = "failure" /\ c.id = n /\ c.number = k
          /\ c.code = 503 /\ c.message = "status" /\ c.next = 1
      BY <2>1 DEF Call
    <2> QED BY <1>2, <2>2 DEF Updates
  <1> QED BY <1>1, <1>3, <1>4, <1>5, <1>6 DEF CallsOn

\* The status a call gives to the notification.
StatusBy(c) ==
    CASE c.op = "retry"   -> "pending"
      [] c.op = "mark"    -> "delivering"
      [] c.op = "success" -> "succeeded"
      [] c.op = "failure" -> IF c.next = NULL THEN "failed" ELSE "retrying"

CountBy(c) == IF c.op = "retry" THEN 0 ELSE c.number

SetsNext(c) == c.op = "failure" /\ c.next # NULL

\* The columns the update of a call sets, the values, and what it clears.
SetColumns(c) ==
    {f \in Touched :
        \/ f = "status"
        \/ f = "attempt_count" /\ c.op # "mark"
        \/ f = "last_error" /\ c.op = "failure"
        \/ f = "next_attempt_at" /\ SetsNext(c)}

SetTo(c, f) ==
    CASE f = "status"          -> StatusBy(c)
      [] f = "attempt_count"   -> CountBy(c)
      [] f = "last_error"      -> c.message
      [] f = "next_attempt_at" -> c.next

ClearedBy(c) ==
    {f \in {"last_error", "next_attempt_at"} :
        \/ f = "last_error" /\ c.op \in {"retry", "success"}
        \/ f = "next_attempt_at" /\ ~SetsNext(c)}

\* The calls the chains of retry, success and failure start with.
LEMMA StatusAndCount ==
    ASSUME NEW s, NEW k
    PROVE  \E V : /\ Mutation(Updating ## Set("status", s) ## Set("attempt_count", k),
                              "Notification", "update", V, {})
                  /\ DOMAIN V = {"status", "attempt_count"}
                  /\ V["status"] = s /\ V["attempt_count"] = k
  <1> DEFINE m1 == Updating ## Set("status", s)
             V1 == With(<<>>, "status", s)
             m2 == m1 ## Set("attempt_count", k)
             V2 == With(V1, "attempt_count", k)
  <1>1. Mutation(Updating, "Notification", "update", <<>>, {})
    BY NewMutationEmpty DEF Updating
  <1>2. Mutation(m1, "Notification", "update", V1, {})
    BY <1>1, UpdateSet
  <1>3. /\ DOMAIN V1 = {"status"} /\ V1["status"] = s
    BY DEF With
  <1> HIDE DEF m1, V1
  <1>4. {} \ {"attempt_count"} = {}
    OBVIOUS
  <1>5. Mutation(m2, "Notification", "update", V2, {})
    BY <1>2, <1>4, UpdateSet
  <1>6. /\ DOMAIN V2 = {"status", "attempt_count"}
        /\ V2["status"] = s /\ V2["attempt_count"] = k
    BY <1>3 DEF With
  <1> QED BY <1>5, <1>6 DEF m1

\* The calls that those of retry and success end with.
LEMMA BothCleared ==
    ASSUME NEW m, NEW V, Mutation(m, "Notification", "update", V, {}),
           DOMAIN V = {"status", "attempt_count"}
    PROVE  \E W : /\ Mutation(m ## Clear("last_error") ## Clear("next_attempt_at"),
                              "Notification", "update", W, {"last_error", "next_attempt_at"})
                  /\ DOMAIN W = DOMAIN V
                  /\ W["status"] = V["status"] /\ W["attempt_count"] = V["attempt_count"]
  <1> DEFINE m1 == m ## Clear("last_error")
             V1 == Without(V, "last_error")
             m2 == m1 ## Clear("next_attempt_at")
             V2 == Without(V1, "next_attempt_at")
  <1>1. Mutation(m1, "Notification", "update", V1, {} \cup {"last_error"})
    BY UpdateClear
  <1>2. /\ DOMAIN V2 = DOMAIN V
        /\ V2["status"] = V["status"] /\ V2["attempt_count"] = V["attempt_count"]
    BY DEF Without, Restrict
  <1> HIDE DEF m1, V1
  <1>3. Mutation(m2, "Notification", "update", V2,
                 ({} \cup {"last_error"}) \cup {"next_attempt_at"})
    BY <1>1, UpdateClear
  <1>4. ({} \cup {"last_error"}) \cup {"next_attempt_at"} = {"last_error", "next_attempt_at"}
    OBVIOUS
  <1> QED BY <1>2, <1>3, <1>4 DEF m1

\* What the update of each call sets and clears.
Described(m, c) ==
    \E V : /\ Mutation(m, "Notification", "update", V, ClearedBy(c))
           /\ DOMAIN V = SetColumns(c)
           /\ \A f \in SetColumns(c) : V[f] = SetTo(c, f)

LEMMA RetryDescribed ==
    ASSUME NEW c \in Calls, c.op = "retry"
    PROVE  Described(RetryUpdate, c)
  <1>1. PICK V : /\ Mutation(Updating ## Set("status", "pending") ## Set("attempt_count", 0),
                             "Notification", "update", V, {})
                 /\ DOMAIN V = {"status", "attempt_count"}
                 /\ V["status"] = "pending" /\ V["attempt_count"] = 0
    BY StatusAndCount
  <1>2. PICK W : /\ Mutation(RetryUpdate, "Notification", "update", W,
                             {"last_error", "next_attempt_at"})
                 /\ DOMAIN W = DOMAIN V
                 /\ W["status"] = V["status"] /\ W["attempt_count"] = V["attempt_count"]
    BY <1>1, BothCleared DEF RetryUpdate
  <1>3. /\ SetColumns(c) = {"status", "attempt_count"}
        /\ ClearedBy(c) = {"last_error", "next_attempt_at"}
    BY DEF SetColumns, ClearedBy, SetsNext, Touched
  <1>4. SetTo(c, "status") = "pending" /\ SetTo(c, "attempt_count") = 0
    BY DEF SetTo, StatusBy, CountBy
  <1> QED BY <1>1, <1>2, <1>3, <1>4 DEF Described

LEMMA SuccessDescribed ==
    ASSUME NEW c \in Calls, c.op = "success"
    PROVE  Described(SuccessUpdate(c), c)
  <1>1. PICK V : /\ Mutation(Updating ## Set("status", "succeeded")
                                ## Set("attempt_count", c.number),
                             "Notification", "update", V, {})
                 /\ DOMAIN V = {"status", "attempt_count"}
                 /\ V["status"] = "succeeded" /\ V["attempt_count"] = c.number
    BY StatusAndCount
  <1>2. PICK W : /\ Mutation(SuccessUpdate(c), "Notification", "update", W,
                             {"last_error", "next_attempt_at"})
                 /\ DOMAIN W = DOMAIN V
                 /\ W["status"] = V["status"] /\ W["attempt_count"] = V["attempt_count"]
    BY <1>1, BothCleared DEF SuccessUpdate
  <1>3. /\ SetColumns(c) = {"status", "attempt_count"}
        /\ ClearedBy(c) = {"last_error", "next_attempt_at"}
    BY DEF SetColumns, ClearedBy, SetsNext, Touched
  <1>4. SetTo(c, "status") = "succeeded" /\ SetTo(c, "attempt_count") = c.number
    BY DEF SetTo, StatusBy, CountBy
  <1> QED BY <1>1, <1>2, <1>3, <1>4 DEF Described

LEMMA MarkDescribed ==
    ASSUME NEW c \in Calls, c.op = "mark"
    PROVE  Described(MarkUpdate, c)
  <1> DEFINE m1 == Updating ## Set("status", "delivering")
             V1 == With(<<>>, "status", "delivering")
             V2 == Without(V1, "next_attempt_at")
  <1>1. Mutation(Updating, "Notification", "update", <<>>, {})
    BY NewMutationEmpty DEF Updating
  <1>2. Mutation(m1, "Notification", "update", V1, {})
    BY <1>1, UpdateSet
  <1>3. DOMAIN V2 = {"status"} /\ V2["status"] = "delivering"
    BY DEF With, Without, Restrict
  <1> HIDE DEF m1, V1
  <1>4. Mutation(m1 ## Clear("next_attempt_at"), "Notification", "update", V2,
                 {} \cup {"next_attempt_at"})
    BY <1>2, UpdateClear
  <1>5. SetColumns(c) = {"status"} /\ ClearedBy(c) = {} \cup {"next_attempt_at"}
    BY DEF SetColumns, ClearedBy, SetsNext, Touched
  <1>6. SetTo(c, "status") = "delivering"
    BY DEF SetTo, StatusBy
  <1> QED BY <1>3, <1>4, <1>5, <1>6 DEF Described, MarkUpdate, m1

LEMMA FailureDescribed ==
    ASSUME NEW c \in Calls, c.op = "failure"
    PROVE  Described(FailureUpdate(c), c)
  <1> DEFINE s  == IF c.next = NULL THEN "failed" ELSE "retrying"
             m  == Updating ## Set("status", s) ## Set("attempt_count", c.number)
             m1 == m ## Set("last_error", c.message)
  <1> HIDE DEF s, m, m1
  <1>1. PICK V : /\ Mutation(m, "Notification", "update", V, {})
                 /\ DOMAIN V = {"status", "attempt_count"}
                 /\ V["status"] = s /\ V["attempt_count"] = c.number
    BY StatusAndCount DEF m
  <1> DEFINE V1 == With(V, "last_error", c.message)
  <1>2. Mutation(m1, "Notification", "update", V1, {})
    BY <1>1, UpdateSet DEF m1
  <1>3. /\ DOMAIN V1 = {"status", "attempt_count", "last_error"}
        /\ V1["status"] = s /\ V1["attempt_count"] = c.number
        /\ V1["last_error"] = c.message
    BY <1>1 DEF With
  <1> HIDE DEF V1
  <1>4. /\ SetTo(c, "status") = s /\ SetTo(c, "attempt_count") = c.number
        /\ SetTo(c, "last_error") = c.message /\ SetTo(c, "next_attempt_at") = c.next
    BY DEF SetTo, StatusBy, CountBy, s
  <1>5. CASE c.next = NULL
    <2> DEFINE W == Without(V1, "next_attempt_at")
    <2>1. FailureUpdate(c) = m1 ## Clear("next_attempt_at")
      BY <1>5 DEF FailureUpdate, m1, m, s
    <2>2. Mutation(FailureUpdate(c), "Notification", "update", W, {} \cup {"next_attempt_at"})
      BY <1>2, <2>1, UpdateClear
    <2>3. /\ SetColumns(c) = {"status", "attempt_count", "last_error"}
          /\ ClearedBy(c) = {} \cup {"next_attempt_at"}
      BY <1>5 DEF SetColumns, ClearedBy, SetsNext, Touched
    <2>4. /\ DOMAIN W = {"status", "attempt_count", "last_error"}
          /\ \A f \in DOMAIN W : W[f] = V1[f]
      BY <1>3 DEF Without, Restrict
    <2> HIDE DEF W
    <2> QED BY <1>3, <1>4, <2>2, <2>3, <2>4 DEF Described
  <1>6. CASE c.next # NULL
    <2> DEFINE W == With(V1, "next_attempt_at", c.next)
    <2>1. FailureUpdate(c) = m1 ## Set("next_attempt_at", c.next)
      BY <1>6 DEF FailureUpdate, m1, m, s
    <2>2. Mutation(FailureUpdate(c), "Notification", "update", W, {})
      BY <1>2, <2>1, UpdateSet
    <2>3. /\ SetColumns(c) = {"status", "attempt_count", "last_error", "next_attempt_at"}
          /\ ClearedBy(c) = {}
      BY <1>6 DEF SetColumns, ClearedBy, SetsNext, Touched
    <2>4. /\ DOMAIN W = {"status", "attempt_count", "last_error", "next_attempt_at"}
          /\ \A f \in DOMAIN V1 : W[f] = V1[f]
          /\ W["next_attempt_at"] = c.next
      BY <1>3 DEF With
    <2> HIDE DEF W
    <2> QED BY <1>3, <1>4, <2>2, <2>3, <2>4 DEF Described
  <1> QED BY <1>5, <1>6

-----------------------------------------------------------------------------
(***************************************************************************)
(* The row that a call's update makes                                      *)
(***************************************************************************)

\* The columns of one row agree with its status (ColumnsCoherent).
Coherent(row) ==
    /\ (row.next_attempt_at # NULL) <=> (row.status = "retrying")
    /\ row.status \in {"retrying", "failed"} => row.last_error # NULL
    /\ row.status \in {"pending", "succeeded"} => row.last_error = NULL

\* A row as it is kept in the table.
Stored(row) ==
    /\ row \in Row("Notification")
    /\ RowFits("Notification", row)
    /\ Coherent(row)

RowBy(c, row) ==
    [f \in Columns |->
        IF f = "updated_at" THEN "now"
        ELSE IF f \in SetColumns(c) THEN SetTo(c, f)
        ELSE IF f \in ClearedBy(c) THEN NULL ELSE row[f]]

\* The values that are written, and that NULL is none of them.
LEMMA WrittenValues ==
    /\ NotificationStatuses \subseteq Text /\ DeliveryAttemptStatuses \subseteq Text
    /\ OutboxEventStatuses \subseteq Text
    /\ {"now", "transport", "status", ""} \subseteq Text
    /\ \A v \in Text \cup Int \cup Notification : v \in Value /\ v # NULL
    /\ NULL \in Value
  <1>1. /\ "Notification" \in Entity /\ Statuses["Notification"] = NotificationStatuses
        /\ "DeliveryAttempt" \in Entity /\ Statuses["DeliveryAttempt"] = DeliveryAttemptStatuses
        /\ "OutboxEvent" \in Entity /\ Statuses["OutboxEvent"] = OutboxEventStatuses
    BY DEF Entity, Statuses
  <1>2. \A e \in Entity : Statuses[e] \subseteq Text
    BY DEF Text
  <1>3. {"now", "transport", "status", ""} \subseteq Text
    BY DEF Text
  <1> QED BY <1>1, <1>2, <1>3, NullAssumption DEF Value

\* The table of notifications.
LEMMA NotificationColumns ==
    /\ Columns = {"url", "method", "headers", "body", "status", "attempt_count",
                  "max_attempts", "last_error", "next_attempt_at", "created_at", "updated_at"}
    /\ Table["Notification"].nullable = {"headers", "body", "last_error", "next_attempt_at"}
    /\ Table["Notification"].enum = NotificationStatuses
    /\ Row("Notification") = [Columns -> Value]
  BY DEF Columns, Table, NotificationsTable, NotificationStatuses, Row

\* What a call sets.
LEMMA SetValues ==
    ASSUME NEW c \in Calls, c.op \in Updates
    PROVE  /\ StatusBy(c) \in NotificationStatuses
           /\ "status" \in SetColumns(c) /\ SetTo(c, "status") = StatusBy(c)
           /\ "attempt_count" \in SetColumns(c) =>
                    SetTo(c, "attempt_count") = CountBy(c) /\ CountBy(c) \in Nat
           /\ "last_error" \in SetColumns(c) =>
                    SetTo(c, "last_error") = c.message /\ c.message \in {"transport", "status"}
           /\ "next_attempt_at" \in SetColumns(c) =>
                    SetTo(c, "next_attempt_at") = c.next /\ c.next = 1
  <1>1. StatusBy(c) \in NotificationStatuses
    BY DEF Updates, StatusBy, NotificationStatuses
  <1>2. "status" \in SetColumns(c)
    BY DEF SetColumns, Touched
  <1>3. "attempt_count" \in SetColumns(c) => CountBy(c) \in Nat
    <2>1. "attempt_count" \in SetColumns(c) => c.op \in {"retry", "success", "failure"}
      BY DEF SetColumns, Updates
    <2>2. c.op \in {"success", "failure"} => c.number \in 1..20
      BY CallShape
    <2>3. 0 \in Nat /\ \A k \in 1..20 : k \in Nat
      OBVIOUS
    <2> QED BY <2>1, <2>2, <2>3 DEF CountBy
  <1>4. /\ "last_error" \in SetColumns(c) => c.message \in {"transport", "status"}
        /\ "next_attempt_at" \in SetColumns(c) => c.next = 1
    BY CallShape DEF SetColumns, SetsNext
  <1>5. /\ SetTo(c, "status") = StatusBy(c) /\ SetTo(c, "attempt_count") = CountBy(c)
        /\ SetTo(c, "last_error") = c.message /\ SetTo(c, "next_attempt_at") = c.next
    BY DEF SetTo
  <1> QED BY <1>1, <1>2, <1>3, <1>4, <1>5

\* The row a call makes is again one that the table keeps.
LEMMA RowByStored ==
    ASSUME NEW c \in Calls, c.op \in Updates, NEW row, Stored(row)
    PROVE  Stored(RowBy(c, row))
  <1> DEFINE new == RowBy(c, row)
  <1>1. \A f \in SetColumns(c) : SetTo(c, f) \in Value /\ SetTo(c, f) # NULL
    <2>1. SetColumns(c) \subseteq {"status", "attempt_count", "last_error", "next_attempt_at"}
      BY DEF SetColumns, Touched
    <2>2. Nat \subseteq Int /\ 1 \in Int
      OBVIOUS
    <2> QED BY ZenonT(60), <2>1, <2>2, SetValues, WrittenValues
  <1>2. new \in Row("Notification")
    <2>1. ASSUME NEW f \in Columns PROVE new[f] \in Value
      BY <1>1, WrittenValues, NotificationColumns DEF Stored, RowBy
    <2> QED BY <2>1, NotificationColumns DEF RowBy
  <1>3. RowFits("Notification", new)
    <2>1. ASSUME NEW f \in {"url", "method", "status", "attempt_count", "max_attempts",
                            "created_at", "updated_at"}
          PROVE  new[f] # NULL
      <3>1. f \notin ClearedBy(c) /\ f \in Columns
        BY NotificationColumns DEF ClearedBy
      <3>2. row[f] # NULL
        BY NotificationColumns DEF Stored, RowFits, Columns
      <3> QED BY <1>1, <3>1, <3>2, WrittenValues DEF RowBy
    <2>2. new["status"] \in NotificationStatuses
      BY SetValues, NotificationColumns DEF RowBy
    <2> QED BY <2>1, <2>2, NotificationColumns DEF RowFits, Columns
  <1>4. Coherent(new)
    <2>1. new.status = StatusBy(c)
      BY SetValues, NotificationColumns DEF RowBy
    <2>2. new.next_attempt_at = IF SetsNext(c) THEN c.next ELSE NULL
      BY SetValues, NotificationColumns DEF RowBy, SetColumns, Touched, ClearedBy
    <2>3. new.last_error = IF c.op = "failure" THEN c.message
                           ELSE IF c.op \in {"retry", "success"} THEN NULL ELSE row.last_error
      BY SetValues, NotificationColumns DEF RowBy, SetColumns, Touched, ClearedBy
    <2>4. c.op = "failure" => c.message # NULL
      <3>1. c.op = "failure" => c.message \in {"transport", "status"}
        BY CallShape
      <3>2. "transport" # NULL /\ "status" # NULL
        BY WrittenValues
      <3> QED BY <3>1, <3>2
    <2> HIDE DEF new
    <2> QED BY <2>1, <2>2, <2>3, <2>4 DEF Coherent, StatusBy, SetsNext, Updates
  <1> QED BY <1>2, <1>3, <1>4 DEF Stored

\* The update of a call is accepted and makes that row.
LEMMA UpdateByCall ==
    ASSUME NEW c \in Calls, c.op \in Updates, NEW row, Stored(row)
    PROVE  /\ UpdateAnswer(NotificationUpdate[c], row) = "ok"
           /\ UpdatedRow(Defaulted(NotificationUpdate[c]), row) = RowBy(c, row)
  <1> DEFINE m == NotificationUpdate[c]
  <1>1. Described(m, c)
    BY RetryDescribed, MarkDescribed, SuccessDescribed, FailureDescribed
       DEF NotificationUpdate, Updates
  <1> HIDE DEF m
  <1>2. PICK V : /\ Mutation(m, "Notification", "update", V, ClearedBy(c))
                 /\ DOMAIN V = SetColumns(c)
                 /\ \A f \in SetColumns(c) : V[f] = SetTo(c, f)
    BY <1>1 DEF Described
  <1>3. WellFormed(m, V, ClearedBy(c))
    <2>1. SetColumns(c) \cap ClearedBy(c) = {}
      BY DEF SetColumns, ClearedBy, SetsNext
    <2>2. SetColumns(c) \subseteq Touched /\ ClearedBy(c) \subseteq {"last_error", "next_attempt_at"}
      BY DEF SetColumns, ClearedBy
    <2> QED BY <1>2, <2>1, <2>2, SetValues DEF WellFormed
  <1>4. row \in [Columns -> Value] /\ row # NULL /\ DOMAIN row = Columns
    BY NotificationColumns, NullAssumption DEF Stored, Entity
  <1>5. /\ CheckUpdate(Defaulted(m)) /\ AssignsTwice(Defaulted(m)) = {}
        /\ UpdatedRow(Defaulted(m), row) = RowAfter(row, V, ClearedBy(c))
    BY <1>3, <1>4, UpdateEffect
  <1>6. RowAfter(row, V, ClearedBy(c)) = RowBy(c, row)
    BY <1>2 DEF RowAfter, RowBy
  <1>7. m.entity = "Notification" /\ RowFits(m.entity, UpdatedRow(Defaulted(m), row))
    BY <1>2, <1>5, <1>6, RowByStored DEF Mutation, Stored
  <1> QED BY <1>4, <1>5, <1>6, <1>7 DEF UpdateAnswer, m

-----------------------------------------------------------------------------
(***************************************************************************)
(* The rows that are inserted                                              *)
(***************************************************************************)

\* defaults() of a create builder fills in what was not set.
LEMMA CreateDefaulted ==
    ASSUME NEW m, NEW e, NEW V, Mutation(m, e, "create", V, {})
    PROVE  Mutation(Defaulted(m), e, "create", V ++ Defaults[e], {})
  <1> DEFINE d == Defaults[e]
             K == {f \in DOMAIN m.added : f \in DOMAIN m.value \/ f \notin DOMAIN d}
  <1>1. K = {}
    BY DEF Mutation
  <1>2. Restrict(m.added, K) = <<>>
    BY <1>1 DEF Mutation, Restrict
  <1>3. Defaulted(m) = [m EXCEPT !.value = V ++ d, !.added = <<>>]
    BY <1>2 DEF Defaulted, Mutation
  <1> QED BY <1>3 DEF Mutation

\* The row that the values make.
InsertedAs(e, W) == [f \in Table[e].columns |-> IF f \in DOMAIN W THEN W[f] ELSE NULL]

\* The INSERT is accepted when the values fit, and inserts them.
LEMMA CreateEffect ==
    ASSUME NEW m, NEW e \in Entity, NEW V, Mutation(m, e, "create", V, {}),
           NEW W, W = V ++ Defaults[e],
           DOMAIN W \subseteq CreateSpec[e], Required[e] \subseteq DOMAIN W,
           Table[e].columns \ Table[e].nullable \subseteq DOMAIN W,
           "status" \in DOMAIN W, W["status"] \in Table[e].enum \cap Statuses[e],
           "status" \in Table[e].columns,
           \A f \in DOMAIN W : W[f] # NULL /\ (f = "url" => W[f] # "")
    PROVE  Saved(m).answer = "ok" /\ Saved(m).row = InsertedAs(e, W)
  <1> DEFINE d == Defaulted(m)
             row == InsertedAs(e, W)
  <1> HIDE DEF d, row
  <1>1. Mutation(d, e, "create", W, {})
    BY CreateDefaulted DEF d
  <1>2. InsertedRow(d) = row
    BY <1>1 DEF InsertedRow, Mutation, row, InsertedAs
  <1>3. CheckCreate(d)
    BY <1>1 DEF CheckCreate, CheckValues, Validates, Mutation
  <1>4. RowFits(e, row)
    BY DEF RowFits, row, InsertedAs
  <1>5. m.entity = e
    BY DEF Mutation
  <1> QED BY <1>2, <1>3, <1>4, <1>5 DEF Saved, CreateAnswer, d, row

\* CreateNotification's row.
LEMMA NotificationInserted ==
    /\ NotificationSaved.answer = "ok"
    /\ Stored(NotificationSaved.row)
    /\ NotificationSaved.row.status = "pending"
    /\ NotificationSaved.row.attempt_count = 0
    /\ NotificationSaved.row.max_attempts = 3
    /\ NotificationSaved.row.next_attempt_at = NULL
  <1> DEFINE E  == "Notification"
             m1 == NewMutation(E, "create") ## Set("url", "https://vendor/hook")
             V1 == With(<<>>, "url", "https://vendor/hook")
             m2 == m1 ## Set("method", "POST")
             V2 == With(V1, "method", "POST")
             m3 == m2 ## Set("headers", "{}")
             V3 == With(V2, "headers", "{}")
             m4 == m3 ## Set("body", "{}")
             V4 == With(V3, "body", "{}")
             m5 == m4 ## Set("status", "pending")
             V5 == With(V4, "status", "pending")
             m6 == m5 ## Set("max_attempts", 3)
             V6 == With(V5, "max_attempts", 3)
  <1> HIDE DEF m1, m2, m3, m4, m5, m6, V1, V2, V3, V4, V5, V6
  <1>1. Mutation(m1, E, "create", V1, {})
    BY NewMutationEmpty, CreateSet DEF m1, V1
  <1>2. Mutation(m2, E, "create", V2, {})
    BY <1>1, CreateSet DEF m2, V2
  <1>3. Mutation(m3, E, "create", V3, {})
    BY <1>2, CreateSet DEF m3, V3
  <1>4. Mutation(m4, E, "create", V4, {})
    BY <1>3, CreateSet DEF m4, V4
  <1>5. Mutation(m5, E, "create", V5, {})
    BY <1>4, CreateSet DEF m5, V5
  <1>6. Mutation(m6, E, "create", V6, {})
    BY <1>5, CreateSet DEF m6, V6
  <1>7. NotificationInsert = m6
    BY DEF NotificationInsert, m1, m2, m3, m4, m5, m6
  <1>8. /\ DOMAIN V3 = {"url", "method", "headers"}
        /\ V3["url"] = "https://vendor/hook" /\ V3["method"] = "POST" /\ V3["headers"] = "{}"
    BY DEF V1, V2, V3, With
  <1>9. /\ DOMAIN V6 = {"url", "method", "headers", "body", "status", "max_attempts"}
        /\ V6["url"] = "https://vendor/hook" /\ V6["method"] = "POST" /\ V6["headers"] = "{}"
        /\ V6["body"] = "{}" /\ V6["status"] = "pending" /\ V6["max_attempts"] = 3
    BY <1>8 DEF V4, V5, V6, With
  <1> DEFINE W == V6 ++ Defaults[E]
  <1>10. /\ DOMAIN Defaults[E] = {"method", "status", "attempt_count", "max_attempts",
                                  "created_at", "updated_at"}
         /\ Defaults[E]["attempt_count"] = 0
         /\ Defaults[E]["created_at"] = "now" /\ Defaults[E]["updated_at"] = "now"
    BY DEF Defaults, NotificationDefaults
  <1>11. /\ DOMAIN W = {"url", "method", "headers", "body", "status", "max_attempts",
                        "attempt_count", "created_at", "updated_at"}
         /\ \A f \in DOMAIN V6 : W[f] = V6[f]
         /\ W["attempt_count"] = 0 /\ W["created_at"] = "now" /\ W["updated_at"] = "now"
    BY <1>9, <1>10 DEF ++
  <1> HIDE DEF W
  <1>12. ASSUME NEW f \in DOMAIN W
         PROVE  W[f] \in Value /\ W[f] # NULL /\ (f = "url" => W[f] # "")
    <2>1. {"https://vendor/hook", "POST", "{}"} \subseteq Text
      BY DEF Text
    <2>2. "pending" \in Text /\ "now" \in Text
      BY WrittenValues DEF NotificationStatuses
    <2>3. W[f] \in {"https://vendor/hook", "POST", "{}", "pending", "now"} \cup {0, 3}
      <3>1. CASE f \in DOMAIN V6
        <4>1. V6[f] \in {"https://vendor/hook", "POST", "{}", "pending"} \cup {3}
          BY <1>9, <3>1
        <4> QED BY <1>11, <3>1, <4>1
      <3>2. CASE f \in {"attempt_count", "created_at", "updated_at"}
        BY <1>11, <3>2
      <3> QED BY <1>9, <1>11, <3>1, <3>2
    <2>4. {0, 3} \subseteq Int
      OBVIOUS
    <2>5. f = "url" => W[f] # ""
      BY <1>9, <1>11
    <2> QED BY <2>1, <2>2, <2>3, <2>4, <2>5, WrittenValues
  <1>13. /\ CreateSpec[E] = NotificationCreateSpec /\ Required[E] = NotificationRequired
         /\ Statuses[E] = NotificationStatuses /\ E \in Entity
    BY DEF CreateSpec, Required, Statuses, Entity
  <1>14. /\ Saved(m6).answer = "ok"
         /\ Saved(m6).row = [f \in Columns |-> IF f \in DOMAIN W THEN W[f] ELSE NULL]
    <2>1. DOMAIN W \subseteq CreateSpec[E] /\ Required[E] \subseteq DOMAIN W
      BY <1>11, <1>13 DEF NotificationCreateSpec, NotificationRequired
    <2>2. /\ Table[E].columns = Columns /\ "status" \in Table[E].columns
          /\ Table[E].columns \ Table[E].nullable \subseteq DOMAIN W
      BY <1>11, NotificationColumns DEF Columns
    <2>3. "status" \in DOMAIN W /\ W["status"] \in Table[E].enum \cap Statuses[E]
      BY <1>9, <1>11, <1>13, NotificationColumns DEF NotificationStatuses
    <2>4. W = V6 ++ Defaults[E]
      BY DEF W
    <2>5. \A f \in DOMAIN W : W[f] # NULL /\ (f = "url" => W[f] # "")
      BY <1>12
    <2>6. E \in Entity
      BY <1>13
    <2>7. Saved(m6).answer = "ok" /\ Saved(m6).row = InsertedAs(E, W)
      BY <1>6, <2>1, <2>2, <2>3, <2>4, <2>5, <2>6, CreateEffect
    <2> QED BY <2>2, <2>7 DEF InsertedAs
  <1> DEFINE row == Saved(m6).row
  <1> HIDE DEF row
  <1>15. row \in Row(E)
    <2>1. row = [f \in Columns |-> IF f \in DOMAIN W THEN W[f] ELSE NULL]
      BY <1>14 DEF row
    <2>2. \A f \in Columns : row[f] \in Value
      BY <1>12, <2>1, WrittenValues
    <2> QED BY <2>1, <2>2, NotificationColumns
  <1>16. /\ row.status = "pending" /\ row.attempt_count = 0 /\ row.max_attempts = 3
         /\ row.next_attempt_at = NULL /\ row.last_error = NULL
    <2>1. row = [f \in Columns |-> IF f \in DOMAIN W THEN W[f] ELSE NULL]
      BY <1>14 DEF row
    <2>2. {"status", "attempt_count", "max_attempts", "next_attempt_at", "last_error"}
            \subseteq Columns
      BY NotificationColumns
    <2> QED BY <1>9, <1>11, <2>1, <2>2
  <1>17. RowFits(E, row)
    <2>1. \A f \in Columns \ Table[E].nullable : row[f] # NULL
      BY <1>11, <1>12, <1>14, NotificationColumns DEF row
    <2> QED BY <1>16, <2>1, NotificationColumns DEF RowFits, Columns, NotificationStatuses
  <1> QED BY <1>7, <1>14, <1>15, <1>16, <1>17 DEF NotificationSaved, Stored, Coherent, row

\* The tables of events and attempts.
LEMMA EventColumns ==
    /\ Table["OutboxEvent"].columns =
            {"notification_id", "event_type", "status", "scheduled_at", "stream_id",
             "locked_by", "locked_at", "last_error", "published_at", "created_at",
             "updated_at"}
    /\ Table["OutboxEvent"].nullable =
            {"stream_id", "locked_by", "locked_at", "last_error", "published_at"}
    /\ Table["OutboxEvent"].enum = OutboxEventStatuses
    /\ Row("OutboxEvent") = [Table["OutboxEvent"].columns -> Value]
  BY DEF Table, OutboxEventsTable, OutboxEventStatuses, Row

LEMMA AttemptColumns ==
    /\ Table["DeliveryAttempt"].columns =
            {"notification_id", "attempt_number", "status", "http_status",
             "error_message", "duration_ms", "created_at"}
    /\ Table["DeliveryAttempt"].nullable = {"http_status", "error_message"}
    /\ Table["DeliveryAttempt"].enum = DeliveryAttemptStatuses
    /\ Row("DeliveryAttempt") = [Table["DeliveryAttempt"].columns -> Value]
  BY DEF Table, DeliveryAttemptsTable, DeliveryAttemptStatuses, Row

\* The instant an inserted event is scheduled for.
InstantBy(c) == IF c.op = "failure" THEN c.next ELSE 0

\* The outbox event of a call that inserts one.
LEMMA EventInserted ==
    ASSUME NEW c \in Calls, c.op \in {"create", "retry"} \/ SetsNext(c)
    PROVE  /\ EventSaved[c].answer = "ok"
           /\ EventSaved[c].row \in Row("OutboxEvent")
           /\ EventSaved[c].row.notification_id = c.id
           /\ EventSaved[c].row.status = "pending"
           /\ EventSaved[c].row.scheduled_at = InstantBy(c)
           /\ InstantBy(c) \in {0, 1}
  <1> DEFINE E  == "OutboxEvent"
             m1 == NewMutation(E, "create") ## Set("notification_id", c.id)
             V1 == With(<<>>, "notification_id", c.id)
             m2 == m1 ## Set("event_type", "notification.delivery_requested")
             V2 == With(V1, "event_type", "notification.delivery_requested")
             m3 == m2 ## Set("status", "pending")
             V3 == With(V2, "status", "pending")
             m4 == m3 ## Set("scheduled_at", InstantBy(c))
             V4 == With(V3, "scheduled_at", InstantBy(c))
  <1> HIDE DEF m1, m2, m3, m4, V1, V2, V3, V4
  <1>1. Mutation(m1, E, "create", V1, {})
    BY NewMutationEmpty, CreateSet DEF m1, V1
  <1>2. Mutation(m2, E, "create", V2, {})
    BY <1>1, CreateSet DEF m2, V2
  <1>3. Mutation(m3, E, "create", V3, {})
    BY <1>2, CreateSet DEF m3, V3
  <1>4. Mutation(m4, E, "create", V4, {})
    BY <1>3, CreateSet DEF m4, V4
  <1>5. EventInsert(c) = m4
    BY DEF EventInsert, m1, m2, m3, m4, InstantBy
  <1>6. /\ DOMAIN V4 = {"notification_id", "event_type", "status", "scheduled_at"}
        /\ V4["notification_id"] = c.id /\ V4["status"] = "pending"
        /\ V4["event_type"] = "notification.delivery_requested"
        /\ V4["scheduled_at"] = InstantBy(c)
    BY DEF V1, V2, V3, V4, With
  <1>7. c.id \in Notification /\ InstantBy(c) \in {0, 1}
    BY CallShape DEF InstantBy, SetsNext
  <1> DEFINE W == V4 ++ Defaults[E]
  <1>8. /\ DOMAIN Defaults[E] = {"event_type", "status", "scheduled_at", "created_at",
                                 "updated_at"}
        /\ Defaults[E]["created_at"] = "now" /\ Defaults[E]["updated_at"] = "now"
    BY DEF Defaults, OutboxEventDefaults
  <1>9. /\ DOMAIN W = {"notification_id", "event_type", "status", "scheduled_at",
                       "created_at", "updated_at"}
        /\ \A f \in DOMAIN V4 : W[f] = V4[f]
        /\ W["created_at"] = "now" /\ W["updated_at"] = "now"
    BY <1>6, <1>8 DEF ++
  <1> HIDE DEF W
  <1>10. ASSUME NEW f \in DOMAIN W
         PROVE  W[f] \in Value /\ W[f] # NULL
    <2>1. "notification.delivery_requested" \in Text
      BY DEF Text
    <2>2. "pending" \in Text /\ "now" \in Text
      BY WrittenValues DEF NotificationStatuses
    <2>3. W[f] \in {"notification.delivery_requested", "pending", "now"}
                     \cup Notification \cup {0, 1}
      <3>1. CASE f \in DOMAIN V4
        <4>1. V4[f] \in {"notification.delivery_requested", "pending"}
                            \cup Notification \cup {0, 1}
          BY <1>6, <1>7, <3>1
        <4> QED BY <1>9, <3>1, <4>1
      <3>2. CASE f \in {"created_at", "updated_at"}
        BY <1>9, <3>2
      <3> QED BY <1>6, <1>9, <3>1, <3>2
    <2>4. {0, 1} \subseteq Int
      OBVIOUS
    <2> QED BY <2>1, <2>2, <2>3, <2>4, WrittenValues
  <1>11. Saved(m4).answer = "ok" /\ Saved(m4).row = InsertedAs(E, W)
    <2>1. /\ CreateSpec[E] = OutboxEventCreateSpec /\ Required[E] = OutboxEventRequired
          /\ Statuses[E] = OutboxEventStatuses /\ E \in Entity
      BY DEF CreateSpec, Required, Statuses, Entity
    <2>2. DOMAIN W \subseteq CreateSpec[E] /\ Required[E] \subseteq DOMAIN W
      BY <1>9, <2>1 DEF OutboxEventCreateSpec, OutboxEventRequired
    <2>3. /\ "status" \in Table[E].columns
          /\ Table[E].columns \ Table[E].nullable \subseteq DOMAIN W
      BY <1>9, EventColumns
    <2>4. "status" \in DOMAIN W /\ W["status"] \in Table[E].enum \cap Statuses[E]
      BY <1>6, <1>9, <2>1, EventColumns DEF OutboxEventStatuses
    <2>5. \A f \in DOMAIN W : W[f] # NULL /\ (f = "url" => W[f] # "")
      BY <1>9, <1>10
    <2>6. W = V4 ++ Defaults[E] /\ E \in Entity
      BY <2>1 DEF W
    <2> QED BY <1>4, <2>2, <2>3, <2>4, <2>5, <2>6, CreateEffect
  <1>12. EventSaved[c] = Saved(m4)
    BY <1>5 DEF EventSaved
  <1>13. InsertedAs(E, W) \in Row(E)
    BY <1>10, EventColumns, WrittenValues DEF InsertedAs
  <1>14. /\ InsertedAs(E, W).notification_id = c.id
         /\ InsertedAs(E, W).status = "pending"
         /\ InsertedAs(E, W).scheduled_at = InstantBy(c)
    BY <1>6, <1>9, EventColumns DEF InsertedAs
  <1> QED BY <1>7, <1>11, <1>12, <1>13, <1>14

\* The audit row of a call that records a result.
LEMMA AttemptInserted ==
    ASSUME NEW c \in Calls, c.op \in {"success", "failure"}
    PROVE  /\ AttemptSaved[c].answer = "ok"
           /\ AttemptSaved[c].row \in Row("DeliveryAttempt")
           /\ AttemptSaved[c].row.notification_id = c.id
           /\ AttemptSaved[c].row.attempt_number = c.number
           /\ AttemptSaved[c].row.status = StatusBy(c)
  <1> DEFINE E  == "DeliveryAttempt"
             m1 == NewMutation(E, "create") ## Set("notification_id", c.id)
             V1 == With(<<>>, "notification_id", c.id)
             m2 == m1 ## Set("attempt_number", c.number)
             V2 == With(V1, "attempt_number", c.number)
             m3 == m2 ## Set("status", AttemptStatus(c))
             V3 == With(V2, "status", AttemptStatus(c))
             m4 == m3 ## Set("duration_ms", 1)
             V4 == With(V3, "duration_ms", 1)
             m5 == IF c.code > 0 THEN m4 ## Set("http_status", c.code) ELSE m4
             V5 == IF c.code > 0 THEN With(V4, "http_status", c.code) ELSE V4
             m6 == IF c.message # "" THEN m5 ## Set("error_message", c.message) ELSE m5
             V6 == IF c.message # "" THEN With(V5, "error_message", c.message) ELSE V5
  <1> HIDE DEF m1, m2, m3, m4, m5, m6, V1, V2, V3, V4, V5, V6
  <1>1. Mutation(m1, E, "create", V1, {})
    BY NewMutationEmpty, CreateSet DEF m1, V1
  <1>2. Mutation(m2, E, "create", V2, {})
    BY <1>1, CreateSet DEF m2, V2
  <1>3. Mutation(m3, E, "create", V3, {})
    BY <1>2, CreateSet DEF m3, V3
  <1>4. Mutation(m4, E, "create", V4, {})
    BY <1>3, CreateSet DEF m4, V4
  <1>5. Mutation(m5, E, "create", V5, {})
    BY <1>4, CreateSet DEF m5, V5
  <1>6. Mutation(m6, E, "create", V6, {})
    BY <1>5, CreateSet DEF m6, V6
  <1>7. AttemptInsert(c) = m6
    BY DEF AttemptInsert, m1, m2, m3, m4, m5, m6
  <1>8. /\ c.id \in Notification
        /\ c.message \in {"", "transport", "status"}
        /\ AttemptStatus(c) \in DeliveryAttemptStatuses
        /\ AttemptStatus(c) = StatusBy(c)
    <2>1. c.id \in Notification /\ c.message \in {"", "transport", "status"}
      BY CallShape
    <2> QED BY <2>1 DEF AttemptStatus, StatusBy, DeliveryAttemptStatuses
  <1>8a. c.number \in Int /\ c.code \in Int
    <2>1. /\ \A k \in 1..20 : k \in Int
          /\ {0, 200, 503} \subseteq Int
      OBVIOUS
    <2>2. c.number \in 1..20 /\ c.code \in {0, 200, 503}
      BY ZenonT(60), CallShape
    <2> QED BY <2>1, <2>2
  <1>9. /\ DOMAIN V4 = {"notification_id", "attempt_number", "status", "duration_ms"}
        /\ V4["notification_id"] = c.id /\ V4["attempt_number"] = c.number
        /\ V4["status"] = AttemptStatus(c) /\ V4["duration_ms"] = 1
    BY DEF V1, V2, V3, V4, With
  <1> DEFINE G == DOMAIN V4
  <1>10. /\ G \subseteq DOMAIN V5 /\ DOMAIN V5 \subseteq G \cup {"http_status"}
         /\ \A f \in G : V5[f] = V4[f]
         /\ "http_status" \in DOMAIN V5 => V5["http_status"] = c.code
    BY <1>9 DEF V5, With
  <1>11. /\ DOMAIN V5 \subseteq DOMAIN V6 /\ DOMAIN V6 \subseteq DOMAIN V5 \cup {"error_message"}
         /\ \A f \in DOMAIN V5 : V6[f] = V5[f]
         /\ "error_message" \in DOMAIN V6 => V6["error_message"] = c.message
    BY <1>9, <1>10 DEF V6, With
  <1> DEFINE W == V6 ++ Defaults[E]
  <1>12. /\ DOMAIN Defaults[E] = {"duration_ms", "created_at"}
         /\ Defaults[E]["created_at"] = "now"
    BY DEF Defaults, DeliveryAttemptDefaults
  <1>13. /\ DOMAIN W = DOMAIN V6 \cup {"created_at"}
         /\ \A f \in DOMAIN V6 : W[f] = V6[f]
         /\ W["created_at"] = "now"
    BY <1>9, <1>10, <1>11, <1>12 DEF ++
  <1> HIDE DEF W
  <1>14. /\ "status" \in DOMAIN W /\ W["status"] = AttemptStatus(c)
         /\ "notification_id" \in DOMAIN W /\ W["notification_id"] = c.id
         /\ "attempt_number" \in DOMAIN W /\ W["attempt_number"] = c.number
    <2>1. \A f \in G : f \in DOMAIN W /\ W[f] = V4[f]
      BY <1>10, <1>11, <1>13
    <2> QED BY <1>9, <2>1
  <1>15. ASSUME NEW f \in DOMAIN W
         PROVE  W[f] \in Value /\ W[f] # NULL
    <2>1. f \in G \cup {"http_status", "error_message", "created_at"}
      BY <1>10, <1>11, <1>13
    <2>2. CASE f \in G
      <3>1. W[f] = V4[f]
        BY <1>10, <1>11, <1>13, <2>2
      <3>2. V4[f] \in DeliveryAttemptStatuses \cup Notification \cup Int
        <4>1. 1 \in Int
          OBVIOUS
        <4>2. V4[f] \in {c.id, c.number, AttemptStatus(c), 1}
          BY <1>9, <2>2
        <4> QED BY <1>8, <1>8a, <4>1, <4>2
      <3> QED BY <3>1, <3>2, WrittenValues
    <2>3. CASE f = "http_status"
      <3>1. f \in DOMAIN V5
        BY <1>11, <1>13, <2>3
      <3>2. W[f] = c.code
        BY <1>10, <1>11, <1>13, <2>3, <3>1
      <3>3. c.code \in Int
        BY <1>8a
      <3> QED BY <3>2, <3>3, WrittenValues
    <2>4. CASE f = "error_message"
      <3>1. f \in DOMAIN V6
        BY <1>13, <2>4
      <3>2. W[f] = c.message
        BY <1>11, <1>13, <2>4, <3>1
      <3>3. W[f] \in Text
        <4>1. {"", "transport", "status"} \subseteq Text
          BY WrittenValues
        <4> QED BY <1>8, <3>2, <4>1
      <3> QED BY <3>3, WrittenValues
    <2>5. CASE f = "created_at"
      BY <1>13, <2>5, WrittenValues
    <2> QED BY <2>1, <2>2, <2>3, <2>4, <2>5
  <1>16. Saved(m6).answer = "ok" /\ Saved(m6).row = InsertedAs(E, W)
    <2>1. /\ CreateSpec[E] = DeliveryAttemptCreateSpec /\ Required[E] = DeliveryAttemptRequired
          /\ Statuses[E] = DeliveryAttemptStatuses /\ E \in Entity
      BY DEF CreateSpec, Required, Statuses, Entity
    <2>2. DOMAIN W \subseteq CreateSpec[E] /\ Required[E] \subseteq DOMAIN W
      BY <1>9, <1>10, <1>11, <1>13, <2>1 DEF DeliveryAttemptCreateSpec, DeliveryAttemptRequired
    <2>3. /\ "status" \in Table[E].columns
          /\ Table[E].columns \ Table[E].nullable \subseteq DOMAIN W
      BY <1>9, <1>10, <1>11, <1>13, AttemptColumns
    <2>4. "status" \in DOMAIN W /\ W["status"] \in Table[E].enum \cap Statuses[E]
      <3>1. Table[E].enum = DeliveryAttemptStatuses
        BY AttemptColumns
      <3> QED BY <1>8, <1>14, <2>1, <3>1
    <2>5. \A f \in DOMAIN W : W[f] # NULL /\ (f = "url" => W[f] # "")
      BY <1>9, <1>10, <1>11, <1>13, <1>15
    <2>6. W = V6 ++ Defaults[E] /\ E \in Entity
      BY <2>1 DEF W
    <2> QED BY <1>6, <2>2, <2>3, <2>4, <2>5, <2>6, CreateEffect
  <1>17. AttemptSaved[c] = Saved(m6)
    BY <1>7 DEF AttemptSaved
  <1>18. InsertedAs(E, W) \in Row(E)
    BY <1>15, AttemptColumns, WrittenValues DEF InsertedAs
  <1>19. /\ InsertedAs(E, W).notification_id = c.id
         /\ InsertedAs(E, W).attempt_number = c.number
         /\ InsertedAs(E, W).status = StatusBy(c)
    BY <1>8, <1>14, AttemptColumns DEF InsertedAs
  <1> QED BY <1>16, <1>17, <1>18, <1>19

-----------------------------------------------------------------------------
(***************************************************************************)
(* Sessions                                                                *)
(***************************************************************************)

\* The number of statements of a call.
End(c) ==
    CASE c.op = "create"  -> 4
      [] c.op = "retry"   -> 6
      [] c.op = "success" -> 4
      [] c.op = "failure" -> IF c.next = NULL THEN 4 ELSE 5
      [] OTHER            -> 1

\* Before statement k a call has staged a row, an attempt, an event, and its
\* row is locked.
StagesRow(c, k) ==
    \/ c.op = "create" /\ k \in {3, 4}
    \/ c.op = "retry" /\ k \in {4, 5}
    \/ c.op \in {"success", "failure"} /\ k \in {3, 4, 5}

StagesAttempt(c, k) == c.op \in {"success", "failure"} /\ k \in {4, 5}

StagesEvent(c, k) ==
    \/ c.op = "create" /\ k = 4
    \/ c.op \in {"retry", "failure"} /\ k = 5

Locks(c, k) == c.op # "create" /\ StagesRow(c, k)

\* The row a call writes.
RowWritten(c) ==
    IF c.op = "create" THEN NotificationSaved.row ELSE RowBy(c, notificationRows[c.id])

\* What a call has staged: its update is of the row as it still is.
StagedBy(c, k) ==
    [ notification |-> IF StagesRow(c, k) THEN RowWritten(c) ELSE NULL,
      attempt      |-> IF StagesAttempt(c, k) THEN AttemptSaved[c].row ELSE NULL,
      event        |-> IF StagesEvent(c, k) THEN EventSaved[c].row ELSE NULL ]

Answers == {"none", "ok", "error", "ErrNotFound", "ErrConflict"}

Staging ==
    [ notification : Row("Notification") \cup {NULL},
      attempt      : Row("DeliveryAttempt") \cup {NULL},
      event        : Row("OutboxEvent") \cup {NULL} ]

SessionState ==
    [ call : Calls \cup {Idle.call}, pc : Nat, staged : Staging,
      committed : BOOLEAN, answer : Answers ]

TxType ==
    /\ notificationRows \in [Notification -> Row("Notification") \cup {NULL}]
    /\ attemptRows \in [Notification -> Seq(Row("DeliveryAttempt"))]
    /\ outboxRows \in Seq(Row("OutboxEvent"))
    /\ lock \in [Notification -> Session \cup {NULL}]
    /\ session \in [Session -> SessionState]
    /\ made \in Nat /\ errors \in Nat

\* The rows of the table fit its constraints and are coherent.
RowsStored ==
    \A n \in Notification : notificationRows[n] # NULL => Stored(notificationRows[n])

\* A session inside a call: what it has staged and committed follows from
\* the statement it is at.  A locked row still matches the WHERE clause of the
\* call, the row of a creation is still missing, and a retry that has seen its
\* row will find it again.
InCall(s) ==
    LET c == session[s].call
        k == session[s].pc
    IN  /\ c \in Calls /\ k \in 1..End(c)
        /\ session[s].staged = StagedBy(c, k)
        /\ session[s].committed <=> (c.op = "retry" /\ k = 6)
        /\ c.op = "create" => notificationRows[c.id] = NULL
        /\ c.op = "retry" /\ k \in 3..6 => notificationRows[c.id] # NULL
        /\ Locks(c, k) => lock[c.id] = s /\ Matches(c)

\* A session that has returned was told the truth.
Told(s) ==
    Writes(session[s].call) =>
        /\ session[s].answer = "ok" => session[s].committed
        /\ session[s].answer \in {"ErrNotFound", "ErrConflict"} => ~session[s].committed

SessionsOK == \A s \in Session : IF Busy(s) THEN InCall(s) ELSE Told(s)

\* A row is locked by a session that has staged its update.
LocksHeld ==
    \A n \in Notification, s \in Session :
        lock[n] = s =>
            /\ Busy(s) /\ session[s].call.id = n
            /\ Locks(session[s].call, session[s].pc)

Creates(s, n) == Busy(s) /\ session[s].call.op = "create" /\ session[s].call.id = n

\* An id is given out once.
OneCreator ==
    \A n \in Notification, s, t \in Session : Creates(s, n) /\ Creates(t, n) => s = t

TxInv == TxType /\ RowsStored /\ SessionsOK /\ LocksHeld /\ OneCreator

\* The statement of a call at each position, and the positions of each
\* statement.
LEMMA Statements ==
    ASSUME NEW c \in Calls, NEW k \in 1..End(c)
    PROVE  LET statement == Program(c)[k]
           IN  /\ Len(Program(c)) = End(c)
               /\ statement = "begin" =>
                    k = 1 /\ c.op \in {"create", "retry", "success", "failure"}
               /\ statement = "getFailed" => k = 2 /\ c.op = "retry"
               /\ statement = "update" =>
                    \/ k = 3 /\ c.op = "retry"
                    \/ k = 2 /\ c.op \in {"success", "failure"}
               /\ statement = "updateAlone" => k = 1 /\ c.op = "mark"
               /\ statement = "insertNotification" => k = 2 /\ c.op = "create"
               /\ statement = "insertAttempt" => k = 3 /\ c.op \in {"success", "failure"}
               /\ statement = "insertEvent" =>
                    \/ k = 3 /\ c.op = "create"
                    \/ k = 4 /\ c.op = "retry"
                    \/ k = 4 /\ c.op = "failure" /\ c.next # NULL
               /\ statement = "commit" =>
                    \/ k = 4 /\ c.op \in {"create", "success"}
                    \/ k = 5 /\ c.op = "retry"
                    \/ k = 4 /\ c.op = "failure" /\ c.next = NULL
                    \/ k = 5 /\ c.op = "failure" /\ c.next # NULL
               /\ statement = "read" => k = 1 /\ c.op \in {"get", "list", "load"}
               /\ statement = "reread" => k = 6 /\ c.op = "retry"
  <1>1. CASE c.op = "create"
    <2>1. Program(c) = <<"begin", "insertNotification", "insertEvent", "commit">>
      BY <1>1 DEF Program
    <2>2. End(c) = 4 /\ k \in 1..4
      BY <1>1 DEF End
    <2> QED BY <1>1, <2>1, <2>2
  <1>2. CASE c.op = "retry"
    <2>1. Program(c) = <<"begin", "getFailed", "update", "insertEvent", "commit", "reread">>
      BY <1>2 DEF Program
    <2>2. End(c) = 6 /\ k \in 1..6
      BY <1>2 DEF End
    <2> QED BY <1>2, <2>1, <2>2
  <1>3. CASE c.op = "success" \/ (c.op = "failure" /\ c.next = NULL)
    <2>1. Program(c) = <<"begin", "update", "insertAttempt", "commit">>
      BY <1>3 DEF Program
    <2>2. End(c) = 4 /\ k \in 1..4
      BY <1>3 DEF End
    <2> QED BY <1>3, <2>1, <2>2
  <1>4. CASE c.op = "failure" /\ c.next # NULL
    <2>1. Program(c) = <<"begin", "update", "insertAttempt", "insertEvent", "commit">>
      BY <1>4 DEF Program
    <2>2. End(c) = 5 /\ k \in 1..5
      BY <1>4 DEF End
    <2> QED BY <1>4, <2>1, <2>2
  <1>5. CASE c.op = "mark"
    <2>1. Program(c) = <<"updateAlone">>
      BY <1>5 DEF Program
    <2>2. End(c) = 1 /\ k \in 1..1
      BY <1>5 DEF End
    <2> QED BY <1>5, <2>1, <2>2
  <1>6. CASE c.op \in {"get", "list", "load"}
    <2>1. Program(c) = <<"read">>
      BY <1>6 DEF Program
    <2>2. End(c) = 1 /\ k \in 1..1
      BY <1>6 DEF End
    <2> QED BY <1>6, <2>1, <2>2
  <1> QED BY <1>1, <1>2, <1>3, <1>4, <1>5, <1>6, CallShape DEF Updates

\* A step of session s that changes at most row n, one that no other session
\* has locked or is about to create, keeps what the other sessions rely on.
LEMMA OthersKeep ==
    ASSUME TxInv, NEW s \in Session, NEW n \in Notification,
           \A t \in Session \ {s} : session'[t] = session[t],
           \A i \in Notification \ {n} : notificationRows'[i] = notificationRows[i],
           \/ notificationRows'[n] = notificationRows[n]
           \/ /\ notificationRows'[n] # NULL
              /\ lock[n] \in {NULL, s}
              /\ \A t \in Session \ {s} : ~Creates(t, n),
           \A i \in Notification, t \in Session \ {s} : lock'[i] = t <=> lock[i] = t
    PROVE  \A t \in Session \ {s} : IF Busy(t)' THEN InCall(t)' ELSE Told(t)'
  <1> SUFFICES ASSUME NEW t \in Session \ {s}
               PROVE  IF Busy(t)' THEN InCall(t)' ELSE Told(t)'
    OBVIOUS
  <1>1. session'[t] = session[t] /\ (Busy(t)' <=> Busy(t))
    BY DEF Busy
  <1>2. CASE ~Busy(t)
    <2>1. Told(t)
      BY <1>2 DEF TxInv, SessionsOK
    <2> QED BY <1>1, <1>2, <2>1 DEF Told
  <1>3. CASE Busy(t)
    <2> DEFINE c == session[t].call
               k == session[t].pc
    <2>1. InCall(t)
      BY <1>3 DEF TxInv, SessionsOK
    <2>2. c \in Calls /\ c.id \in Notification
      BY <2>1, CallShape DEF InCall
    <2>3. CASE notificationRows'[c.id] = notificationRows[c.id]
      <3>1. StagedBy(c, k)' = StagedBy(c, k) /\ (Matches(c)' <=> Matches(c))
        BY <1>1, <2>3 DEF StagedBy, RowWritten, RowBy, Matches
      <3>2. lock[c.id] = t => lock'[c.id] = t
        BY <2>2
      <3> QED BY <1>1, <1>3, <2>1, <2>3, <3>1, <3>2 DEF InCall
    <2>4. CASE notificationRows'[c.id] # notificationRows[c.id]
      <3>1. c.id = n /\ notificationRows'[n] # NULL /\ lock[n] \in {NULL, s} /\ ~Creates(t, n)
        BY <2>2, <2>4
      <3>2. lock[n] # t
        BY <3>1, NullAssumption
      <3>3. c.op # "create" /\ ~Locks(c, k) /\ ~StagesRow(c, k)
        BY <1>3, <2>1, <3>1, <3>2 DEF InCall, Creates, Locks
      <3>4. StagedBy(c, k)' = StagedBy(c, k)
        BY <1>1, <3>3 DEF StagedBy
      <3> QED BY <1>1, <1>3, <2>1, <3>1, <3>3, <3>4 DEF InCall
    <2> QED BY <2>3, <2>4
  <1> QED BY <1>2, <1>3

\* The session of a goroutine that goes on to its next statement.
LEMMA Proceeded ==
    ASSUME TxInv, NEW s \in Session, NEW g \in Staging, Proceed(s, g)
    PROVE  /\ session' \in [Session -> SessionState]
           /\ session'[s].pc = session[s].pc + 1 /\ session'[s].staged = g
           /\ session'[s].committed = session[s].committed
           /\ session'[s].answer = session[s].answer /\ session'[s].call = session[s].call
           /\ \A t \in Session \ {s} : session'[t] = session[t]
  <1>1. session \in [Session -> SessionState] /\ session[s] \in SessionState
    BY DEF TxInv, TxType
  <1> DEFINE k == session[s].pc + 1
             r == [session[s] EXCEPT !.pc = k, !.staged = g]
  <1>2. r \in SessionState
    <2>1. k \in Nat
      BY <1>1 DEF SessionState
    <2> HIDE DEF k
    <2> QED BY <1>1, <2>1 DEF SessionState
  <1>3. session' = [session EXCEPT ![s] = r]
    BY <1>1 DEF SessionState, Proceed
  <1>4. /\ r.pc = session[s].pc + 1 /\ r.staged = g /\ r.committed = session[s].committed
        /\ r.answer = session[s].answer /\ r.call = session[s].call
    BY <1>1 DEF SessionState
  <1> QED BY <1>1, <1>2, <1>3, <1>4

\* The session of a goroutine that returns.
LEMMA Returned ==
    ASSUME TxInv, NEW s \in Session, NEW a \in Answers, Return(s, a)
    PROVE  /\ session' \in [Session -> SessionState]
           /\ session'[s].pc = 0 /\ session'[s].committed = session[s].committed
           /\ session'[s].answer = a /\ session'[s].call = session[s].call
           /\ \A t \in Session \ {s} : session'[t] = session[t]
           /\ lock' \in [Notification -> Session \cup {NULL}]
           /\ \A n \in Notification : lock'[n] = IF lock[n] = s THEN NULL ELSE lock[n]
  <1>1. session \in [Session -> SessionState] /\ session[s] \in SessionState
    BY DEF TxInv, TxType
  <1>2. Nothing \in Staging
    BY DEF Nothing, Staging
  <1> DEFINE r == [session[s] EXCEPT !.pc = 0, !.staged = Nothing, !.answer = a]
  <1>3. r \in SessionState
    BY <1>1, <1>2 DEF SessionState
  <1>4. session' = [session EXCEPT ![s] = r]
    BY <1>1 DEF SessionState, Return
  <1>5. /\ r.pc = 0 /\ r.committed = session[s].committed
        /\ r.answer = a /\ r.call = session[s].call
    BY <1>1 DEF SessionState
  <1>6. /\ lock' \in [Notification -> Session \cup {NULL}]
        /\ \A n \in Notification : lock'[n] = IF lock[n] = s THEN NULL ELSE lock[n]
    BY DEF Return, Unlocked, TxInv, TxType
  <1> QED BY <1>1, <1>3, <1>4, <1>5, <1>6

\* A step of one session keeps the invariant if it leaves that session, the
\* locks and the creations as they should be.
LEMMA OneSession ==
    ASSUME TxInv, NEW s \in Session, NEW n \in Notification,
           TxType', RowsStored',
           \A t \in Session \ {s} : session'[t] = session[t],
           \A i \in Notification \ {n} : notificationRows'[i] = notificationRows[i],
           \/ notificationRows'[n] = notificationRows[n]
           \/ /\ notificationRows'[n] # NULL
              /\ lock[n] \in {NULL, s}
              /\ \A t \in Session \ {s} : ~Creates(t, n),
           \A i \in Notification, t \in Session \ {s} : lock'[i] = t <=> lock[i] = t,
           IF Busy(s)' THEN InCall(s)' ELSE Told(s)',
           \A i \in Notification : lock'[i] = s =>
                /\ Busy(s)' /\ session'[s].call.id = i
                /\ Locks(session'[s].call, session'[s].pc),
           \A i \in Notification : Creates(s, i)' =>
                Creates(s, i) \/ \A t \in Session : ~Creates(t, i)
    PROVE  TxInv'
  <1>1. \A t \in Session \ {s} : IF Busy(t)' THEN InCall(t)' ELSE Told(t)'
    BY OthersKeep
  <1>2. SessionsOK'
    BY <1>1 DEF SessionsOK
  <1>3. \A t \in Session \ {s} : Busy(t)' <=> Busy(t)
    BY DEF Busy
  <1>4. LocksHeld'
    <2> SUFFICES ASSUME NEW i \in Notification, NEW t \in Session, lock'[i] = t
                 PROVE  /\ Busy(t)' /\ session'[t].call.id = i
                        /\ Locks(session'[t].call, session'[t].pc)
      BY DEF LocksHeld, Locks, StagesRow
    <2>1. CASE t = s
      BY <2>1
    <2>2. CASE t # s
      <3>1. lock[i] = t
        BY <2>2
      <3>2. Busy(t) /\ session[t].call.id = i /\ Locks(session[t].call, session[t].pc)
        BY <3>1 DEF TxInv, LocksHeld
      <3> QED BY <1>3, <2>2, <3>2
    <2> QED BY <2>1, <2>2
  <1>5. OneCreator'
    <2>1. \A i \in Notification, t \in Session \ {s} : Creates(t, i)' <=> Creates(t, i)
      BY <1>3 DEF Creates
    <2>2. \A i \in Notification, t, u \in Session : Creates(t, i) /\ Creates(u, i) => t = u
      BY DEF TxInv, OneCreator
    <2> QED BY <2>1, <2>2 DEF OneCreator
  <1> QED BY <1>2, <1>4, <1>5 DEF TxInv

\* A session inside a call, at one of its statements.
LEMMA AtCall ==
    ASSUME TxInv, NEW s \in Session, Busy(s)
    PROVE  /\ InCall(s)
           /\ session[s].call \in Calls /\ session[s].call.id \in Notification
           /\ session[s].pc \in 1..End(session[s].call) /\ session[s].pc \in Nat
  <1>1. InCall(s)
    BY DEF TxInv, SessionsOK
  <1>2. session[s].call \in Calls /\ session[s].pc \in 1..End(session[s].call)
    BY <1>1 DEF InCall
  <1>3. session[s].pc \in Nat
    BY DEF TxInv, TxType, SessionState
  <1> QED BY <1>1, <1>2, <1>3, CallShape

\* A call that returns without having changed a table by this step.
LEMMA Returns ==
    ASSUME TxInv, NEW s \in Session, Busy(s), NEW a \in Answers, Return(s, a),
           UNCHANGED <<tables, made>>, errors' \in Nat,
           Writes(session[s].call) =>
                /\ a = "ok" => session[s].committed
                /\ a \in {"ErrNotFound", "ErrConflict"} => ~session[s].committed
    PROVE  TxInv'
  <1> DEFINE n == session[s].call.id
  <1>1. n \in Notification
    BY AtCall
  <1>2. /\ session' \in [Session -> SessionState]
        /\ session'[s].pc = 0 /\ session'[s].committed = session[s].committed
        /\ session'[s].answer = a /\ session'[s].call = session[s].call
        /\ \A t \in Session \ {s} : session'[t] = session[t]
        /\ lock' \in [Notification -> Session \cup {NULL}]
        /\ \A i \in Notification : lock'[i] = IF lock[i] = s THEN NULL ELSE lock[i]
    BY Returned
  <1>3. UNCHANGED <<notificationRows, attemptRows, outboxRows>>
    BY DEF tables
  <1>4. TxType' /\ RowsStored'
    BY <1>2, <1>3 DEF TxInv, TxType, RowsStored, Stored, RowFits, Coherent
  <1>5. ~Busy(s)' /\ Told(s)'
    BY <1>2 DEF Busy, Told
  <1>6. \A i \in Notification, t \in Session \ {s} : lock'[i] = t <=> lock[i] = t
    BY <1>2, NullAssumption
  <1>7. \A i \in Notification : lock'[i] # s /\ ~Creates(s, i)'
    BY <1>2, <1>5, NullAssumption DEF Creates
  <1> HIDE DEF n
  <1> QED BY <1>1, <1>2, <1>3, <1>4, <1>5, <1>6, <1>7, OneSession

\* A statement that fails.
LEMMA Failing ==
    ASSUME TxInv, NEW s \in Session, Busy(s), Fails(s), UNCHANGED made
    PROVE  TxInv'
  <1>1. Return(s, "error") /\ UNCHANGED <<tables, made>>
    BY DEF Fails
  <1>2. errors' \in Nat
    BY DEF Fails, TxInv, TxType
  <1>3. "error" \in Answers
    BY DEF Answers
  <1> QED BY <1>1, <1>2, <1>3, Returns

\* What a call stages are rows of the tables.
LEMMA StagedRows ==
    ASSUME TxInv, NEW c \in Calls, NEW k \in 1..End(c),
           Locks(c, k) => notificationRows[c.id] # NULL
    PROVE  /\ StagedBy(c, k) \in Staging
           /\ StagesRow(c, k) => Stored(RowWritten(c))
           /\ StagesEvent(c, k) => c.op \in {"create", "retry"} \/ SetsNext(c)
  <1>1. StagesRow(c, k) => Stored(RowWritten(c))
    <2> SUFFICES ASSUME StagesRow(c, k) PROVE Stored(RowWritten(c))
      OBVIOUS
    <2>1. CASE c.op = "create"
      BY <2>1, NotificationInserted DEF RowWritten
    <2>2. CASE c.op # "create"
      <3>1. c.op \in Updates /\ notificationRows[c.id] # NULL /\ c.id \in Notification
        BY <2>2, CallShape DEF StagesRow, Locks, Updates
      <3>2. Stored(notificationRows[c.id])
        BY <3>1 DEF TxInv, RowsStored
      <3> QED BY <2>2, <3>1, <3>2, RowByStored DEF RowWritten
    <2> QED BY <2>1, <2>2
  <1>2. StagesEvent(c, k) => c.op \in {"create", "retry"} \/ SetsNext(c)
    BY DEF StagesEvent, SetsNext, End
  <1>3. StagesEvent(c, k) => EventSaved[c].row \in Row("OutboxEvent")
    BY <1>2, EventInserted
  <1>4. StagesAttempt(c, k) => AttemptSaved[c].row \in Row("DeliveryAttempt")
    BY AttemptInserted DEF StagesAttempt
  <1>5. StagesRow(c, k) => RowWritten(c) \in Row("Notification")
    BY <1>1 DEF Stored
  <1> QED BY <1>1, <1>2, <1>3, <1>4, <1>5 DEF StagedBy, Staging

\* A call that goes on to its next statement, and may have locked its row.
LEMMA Advances ==
    ASSUME TxInv, NEW s \in Session, Busy(s),
           NEW c, c = session[s].call, NEW k \in Nat, k = session[s].pc + 1,
           k \in 1..End(c), ~(c.op = "retry" /\ k = 6), ~session[s].committed,
           Proceed(s, StagedBy(c, k)), UNCHANGED <<tables, made, errors>>,
           c.op = "retry" /\ k \in 3..6 => notificationRows[c.id] # NULL,
           \/ UNCHANGED lock /\ (Locks(c, k) <=> Locks(c, k - 1))
           \/ /\ Locks(c, k) /\ Matches(c)
              /\ lock[c.id] = NULL /\ lock' = [lock EXCEPT ![c.id] = s]
    PROVE  TxInv'
  <1>1. /\ InCall(s) /\ c \in Calls /\ c.id \in Notification /\ session[s].pc = k - 1
    BY AtCall
  <1>2. Locks(c, k) => Matches(c)
    BY <1>1 DEF InCall
  <1>3. StagedBy(c, k) \in Staging
    BY <1>1, <1>2, StagedRows DEF Matches
  <1>4. /\ session' \in [Session -> SessionState]
        /\ session'[s].pc = k /\ session'[s].staged = StagedBy(c, k)
        /\ session'[s].committed = session[s].committed
        /\ session'[s].answer = session[s].answer /\ session'[s].call = c
        /\ \A t \in Session \ {s} : session'[t] = session[t]
    BY <1>3, Proceeded
  <1>5. UNCHANGED <<notificationRows, attemptRows, outboxRows>>
    BY DEF tables
  <1>6. TxType' /\ RowsStored'
    BY <1>1, <1>4, <1>5 DEF TxInv, TxType, RowsStored, Stored, RowFits, Coherent
  <1>7. /\ \A i \in Notification, t \in Session \ {s} : lock'[i] = t <=> lock[i] = t
        /\ \A i \in Notification : lock'[i] = s =>
                lock[i] = s \/ (i = c.id /\ Locks(c, k))
        /\ Locks(c, k) => lock'[c.id] = s
    BY <1>1, NullAssumption DEF InCall, TxInv, TxType
  <1>8. Busy(s)' /\ InCall(s)'
    <2>1. Busy(s)'
      BY <1>4 DEF Busy
    <2>2. StagedBy(c, k)' = StagedBy(c, k) /\ (Matches(c)' <=> Matches(c))
      BY <1>5 DEF StagedBy, RowWritten, RowBy, Matches
    <2>3. c.op = "create" => notificationRows[c.id] = NULL
      BY <1>1 DEF InCall
    <2> QED BY <1>1, <1>2, <1>4, <1>5, <1>7, <2>1, <2>2, <2>3 DEF InCall
  <1>9. \A i \in Notification : lock'[i] = s =>
            /\ Busy(s)' /\ session'[s].call.id = i
            /\ Locks(session'[s].call, session'[s].pc)
    <2> SUFFICES ASSUME NEW i \in Notification, lock'[i] = s
                 PROVE  i = c.id /\ Locks(c, k)
      BY <1>4, <1>8
    <2>1. CASE lock[i] = s
      <3>1. c.id = i /\ Locks(c, session[s].pc)
        BY <2>1 DEF TxInv, LocksHeld
      <3> QED BY <1>1, <3>1
    <2>2. CASE lock[i] # s
      BY <1>7, <2>2
    <2> QED BY <2>1, <2>2
  <1>10. \A i \in Notification : Creates(s, i)' => Creates(s, i)
    BY <1>4 DEF Creates
  <1> QED BY <1>1, <1>4, <1>5, <1>6, <1>7, <1>8, <1>9, <1>10, OneSession

-----------------------------------------------------------------------------
(***************************************************************************)
(* The statements keep the invariant                                       *)
(***************************************************************************)

LEMMA BeginKeeps ==
    ASSUME TxInv, NEW s \in Session, Begin(s)
    PROVE  TxInv' /\ UNCHANGED tables
  <1> DEFINE c == session[s].call
             k == session[s].pc
  <1>1. Busy(s) /\ Program(c)[k] = "begin" /\ UNCHANGED <<tables, made>>
    BY DEF Begin, At, Fails
  <1>2. InCall(s) /\ c \in Calls /\ k \in 1..End(c) /\ k \in Nat
    BY <1>1, AtCall
  <1>3. k = 1 /\ c.op \in {"create", "retry", "success", "failure"}
    BY <1>1, <1>2, Statements
  <1>4. CASE Succeeds /\ Proceed(s, Nothing) /\ UNCHANGED lock
    <2>1. 2 \in 1..End(c) /\ 2 = k + 1 /\ 2 - 1 = k
      BY <1>3 DEF End
    <2>2. StagedBy(c, 2) = Nothing
      BY <1>3 DEF StagedBy, Nothing, StagesRow, StagesAttempt, StagesEvent
    <2>3. ~Locks(c, 2) /\ ~Locks(c, 2 - 1)
      BY DEF Locks, StagesRow
    <2>4. ~session[s].committed
      BY <1>2, <1>3 DEF InCall
    <2>5. UNCHANGED errors /\ 2 \in Nat
      BY <1>4 DEF Succeeds
    <2> HIDE DEF c, k
    <2>6. c = session[s].call /\ k = session[s].pc
      BY DEF c, k
    <2>7. Proceed(s, StagedBy(c, 2)) /\ UNCHANGED lock
      BY <1>4, <2>2
    <2>8. ~(2 \in 3..6) /\ ~(c.op = "retry" /\ 2 = 6)
      OBVIOUS
    <2>9. TxInv'
      BY <1>1, <2>1, <2>3, <2>4, <2>5, <2>6, <2>7, <2>8, Advances
    <2> QED BY <1>1, <2>9
  <1>5. CASE Fails(s)
    BY <1>1, <1>5, Failing
  <1> QED BY <1>1, <1>4, <1>5 DEF Begin

\* The answers of a call that has committed nothing.
LEMMA ReturnsConflict ==
    ASSUME TxInv, NEW s \in Session, Busy(s), ~session[s].committed,
           NEW a \in {"ErrNotFound", "ErrConflict"}, Return(s, a), Succeeds,
           UNCHANGED <<tables, made>>
    PROVE  TxInv'
  <1>1. a \in Answers /\ a # "ok"
    BY DEF Answers
  <1>2. errors' \in Nat
    BY DEF Succeeds, TxInv, TxType
  <1> QED BY <1>1, <1>2, Returns

LEMMA GetFailedKeeps ==
    ASSUME TxInv, NEW s \in Session, GetFailed(s)
    PROVE  TxInv' /\ UNCHANGED tables
  <1> DEFINE c == session[s].call
             k == session[s].pc
             row == notificationRows[c.id]
  <1>1. Busy(s) /\ Program(c)[k] = "getFailed" /\ UNCHANGED <<tables, made>>
    BY DEF GetFailed, At, Fails
  <1>2. InCall(s) /\ c \in Calls /\ k \in 1..End(c) /\ k \in Nat
    BY <1>1, AtCall
  <1>3. k = 2 /\ c.op = "retry"
    BY <1>1, <1>2, Statements
  <1>4. ~session[s].committed
    BY <1>2, <1>3 DEF InCall
  <1>5. CASE Fails(s)
    BY <1>1, <1>5, Failing
  <1>6. CASE Succeeds /\ Return(s, "ErrNotFound")
    BY <1>1, <1>4, <1>6, ReturnsConflict
  <1>7. CASE Succeeds /\ Return(s, "ErrConflict")
    BY <1>1, <1>4, <1>7, ReturnsConflict
  <1>8. CASE Succeeds /\ row # NULL /\ Proceed(s, Nothing) /\ UNCHANGED lock
    <2>1. 3 \in 1..End(c) /\ 3 = k + 1 /\ 3 - 1 = k
      BY <1>3 DEF End
    <2>2. StagedBy(c, 3) = Nothing
      BY <1>3 DEF StagedBy, Nothing, StagesRow, StagesAttempt, StagesEvent
    <2>3. ~Locks(c, 3) /\ ~Locks(c, 3 - 1)
      BY <1>3 DEF Locks, StagesRow
    <2>5. UNCHANGED errors /\ 3 \in Nat /\ notificationRows[c.id] # NULL
      BY <1>8 DEF Succeeds
    <2> HIDE DEF c, k, row
    <2>6. c = session[s].call /\ k = session[s].pc
      BY DEF c, k
    <2>7. Proceed(s, StagedBy(c, 3)) /\ UNCHANGED lock
      BY <1>8, <2>2
    <2>8. ~(c.op = "retry" /\ 3 = 6)
      OBVIOUS
    <2>9. TxInv'
      BY <1>1, <1>4, <2>1, <2>3, <2>5, <2>6, <2>7, <2>8, Advances
    <2> QED BY <1>1, <2>9
  <1> QED BY <1>1, <1>5, <1>6, <1>7, <1>8 DEF GetFailed

LEMMA UpdateKeeps ==
    ASSUME TxInv, NEW s \in Session, Update(s)
    PROVE  TxInv' /\ UNCHANGED tables
  <1> DEFINE c == session[s].call
             k == session[s].pc
             m == NotificationUpdate[c]
             row == notificationRows[c.id]
  <1>1. Busy(s) /\ Program(c)[k] = "update" /\ UNCHANGED <<tables, made>>
    BY DEF Update, At, Fails
  <1>2. InCall(s) /\ c \in Calls /\ k \in 1..End(c) /\ k \in Nat /\ c.id \in Notification
    BY <1>1, AtCall
  <1>3. \/ k = 3 /\ c.op = "retry"
        \/ k = 2 /\ c.op \in {"success", "failure"}
    BY <1>1, <1>2, Statements
  <1>4. ~session[s].committed
    BY <1>2, <1>3 DEF InCall
  <1>5. CASE Fails(s)
    BY <1>1, <1>5, Failing
  <1>6. CASE Return(s, "ErrConflict") /\ Succeeds
    BY <1>1, <1>4, <1>6, ReturnsConflict
  <1>7. CASE /\ Matches(c) /\ lock[c.id] = NULL /\ Succeeds
             /\ IF UpdateAnswer(m, row) = "ok"
                THEN /\ lock' = [lock EXCEPT ![c.id] = s]
                     /\ Proceed(s, [Nothing EXCEPT !.notification =
                                        UpdatedRow(Defaulted(m), row)])
                ELSE Return(s, UpdateAnswer(m, row))
    <2>1. row # NULL /\ Stored(row) /\ c.op \in Updates
      BY <1>2, <1>3, <1>7 DEF Matches, TxInv, RowsStored, Updates
    <2>2. UpdateAnswer(m, row) = "ok" /\ UpdatedRow(Defaulted(m), row) = RowBy(c, row)
      BY <1>2, <2>1, UpdateByCall
    <2> DEFINE g == [Nothing EXCEPT !.notification = RowBy(c, row)]
    <2>3. lock' = [lock EXCEPT ![c.id] = s] /\ Proceed(s, g)
      BY <1>7, <2>2
    <2>4. k + 1 \in 1..End(c) /\ k + 1 \in Nat
      BY <1>3 DEF End
    <2>5. /\ StagesRow(c, k + 1) /\ ~StagesAttempt(c, k + 1) /\ ~StagesEvent(c, k + 1)
          /\ Locks(c, k + 1)
      BY <1>3 DEF StagesRow, StagesAttempt, StagesEvent, Locks
    <2>6. StagedBy(c, k + 1) = g
      BY <1>3, <2>5 DEF StagedBy, Nothing, RowWritten
    <2>7. ~(c.op = "retry" /\ k + 1 = 6)
      BY <1>3
    <2>8. UNCHANGED errors /\ Matches(c) /\ lock[c.id] = NULL
      BY <1>7 DEF Succeeds
    <2>9. Proceed(s, StagedBy(c, k + 1))
      BY <2>3, <2>6
    <2>10. notificationRows[c.id] # NULL
      BY <2>1
    <2> DEFINE j == k + 1
    <2>11. j = session[s].pc + 1
      OBVIOUS
    <2> HIDE DEF c, j
    <2>12. c = session[s].call
      BY DEF c
    <2>13. /\ j \in Nat /\ j \in 1..End(c) /\ Locks(c, j)
           /\ ~(c.op = "retry" /\ j = 6) /\ Proceed(s, StagedBy(c, j))
      BY <2>4, <2>5, <2>7, <2>9 DEF j
    <2>14. TxInv'
      BY <1>1, <1>4, <2>3, <2>8, <2>10, <2>11, <2>12, <2>13, Advances
    <2> QED BY <1>1, <2>14
  <1> QED BY <1>1, <1>5, <1>6, <1>7 DEF Update

\* An insert whose builder accepts it and that stages what belongs to the
\* next statement.
LEMMA InsertKeeps ==
    ASSUME TxInv, NEW s \in Session, Busy(s), NEW saved, NEW table, Insert(s, saved, table),
           saved.answer = "ok",
           NEW c, c = session[s].call, NEW k \in Nat, k = session[s].pc + 1,
           [session[s].staged EXCEPT ![table] = saved.row] = StagedBy(c, k),
           k \in 1..End(c), ~(c.op = "retry" /\ k = 6), ~session[s].committed,
           c.op = "retry" => notificationRows[c.id] # NULL,
           Locks(c, k) <=> Locks(c, k - 1)
    PROVE  TxInv' /\ UNCHANGED tables
  <1>1. UNCHANGED <<tables, made>>
    BY DEF Insert, Fails
  <1>2. CASE Fails(s)
    BY <1>1, <1>2, Failing
  <1>3. CASE Proceed(s, StagedBy(c, k)) /\ UNCHANGED lock /\ Succeeds
    <2>1. UNCHANGED errors
      BY <1>3 DEF Succeeds
    <2>2. TxInv'
      BY <1>1, <1>3, <2>1, Advances
    <2> QED BY <1>1, <2>2
  <1> QED BY <1>2, <1>3 DEF Insert

LEMMA InsertNotificationKeeps ==
    ASSUME TxInv, NEW s \in Session, InsertNotification(s)
    PROVE  TxInv' /\ UNCHANGED tables
  <1> DEFINE c == session[s].call
             k == session[s].pc
  <1>1. /\ Busy(s) /\ Program(c)[k] = "insertNotification"
        /\ Insert(s, NotificationSaved, "notification")
    BY DEF InsertNotification, At
  <1>2. InCall(s) /\ c \in Calls /\ k \in 1..End(c) /\ k \in Nat
    BY <1>1, AtCall
  <1>3. k = 2 /\ c.op = "create"
    BY <1>1, <1>2, Statements
  <1>4. /\ session[s].staged = StagedBy(c, 2) /\ ~session[s].committed
    BY <1>2, <1>3 DEF InCall
  <1>5. [session[s].staged EXCEPT !["notification"] = NotificationSaved.row] = StagedBy(c, 3)
    BY <1>3, <1>4 DEF StagedBy, StagesRow, StagesAttempt, StagesEvent, RowWritten
  <1>6. 3 \in Nat /\ 3 = k + 1 /\ 3 \in 1..End(c) /\ ~Locks(c, 3) /\ ~Locks(c, 3 - 1)
    BY <1>3 DEF End, Locks
  <1>7. NotificationSaved.answer = "ok"
    BY NotificationInserted
  <1> HIDE DEF c, k
  <1>8. c = session[s].call /\ k = session[s].pc /\ c.op # "retry"
    BY <1>3 DEF c, k
  <1> QED BY <1>1, <1>4, <1>5, <1>6, <1>7, <1>8, InsertKeeps

LEMMA InsertAttemptKeeps ==
    ASSUME TxInv, NEW s \in Session, InsertAttempt(s)
    PROVE  TxInv' /\ UNCHANGED tables
  <1> DEFINE c == session[s].call
             k == session[s].pc
  <1>1. /\ Busy(s) /\ Program(c)[k] = "insertAttempt"
        /\ Insert(s, AttemptSaved[c], "attempt")
    BY DEF InsertAttempt, At
  <1>2. InCall(s) /\ c \in Calls /\ k \in 1..End(c) /\ k \in Nat
    BY <1>1, AtCall
  <1>3. k = 3 /\ c.op \in {"success", "failure"}
    BY <1>1, <1>2, Statements
  <1>4. /\ session[s].staged = StagedBy(c, 3) /\ ~session[s].committed
    BY <1>2, <1>3 DEF InCall
  <1>5. [session[s].staged EXCEPT !["attempt"] = AttemptSaved[c].row] = StagedBy(c, 4)
    BY <1>3, <1>4 DEF StagedBy, StagesRow, StagesAttempt, StagesEvent
  <1>6. 4 \in Nat /\ 4 = k + 1 /\ 4 \in 1..End(c) /\ (Locks(c, 4) <=> Locks(c, 4 - 1))
    BY <1>3 DEF End, Locks, StagesRow
  <1>7. AttemptSaved[c].answer = "ok"
    BY <1>2, <1>3, AttemptInserted
  <1> HIDE DEF c, k
  <1>8. c = session[s].call /\ k = session[s].pc /\ c.op # "retry"
    BY <1>3 DEF c, k
  <1> QED BY <1>1, <1>4, <1>5, <1>6, <1>7, <1>8, InsertKeeps

LEMMA InsertEventKeeps ==
    ASSUME TxInv, NEW s \in Session, InsertEvent(s)
    PROVE  TxInv' /\ UNCHANGED tables
  <1> DEFINE c == session[s].call
             k == session[s].pc
             j == k + 1
  <1>1. /\ Busy(s) /\ Program(c)[k] = "insertEvent"
        /\ Insert(s, EventSaved[c], "event")
    BY DEF InsertEvent, At
  <1>2. InCall(s) /\ c \in Calls /\ k \in 1..End(c) /\ k \in Nat
    BY <1>1, AtCall
  <1>3. \/ k = 3 /\ c.op = "create"
        \/ k = 4 /\ c.op = "retry"
        \/ k = 4 /\ c.op = "failure" /\ c.next # NULL
    BY <1>1, <1>2, Statements
  <1>4. /\ session[s].staged = StagedBy(c, k) /\ ~session[s].committed
    BY <1>2, <1>3 DEF InCall
  <1>5. /\ StagesRow(c, k) /\ StagesRow(c, j)
        /\ StagesAttempt(c, k) <=> StagesAttempt(c, j)
        /\ ~StagesEvent(c, k) /\ StagesEvent(c, j)
        /\ Locks(c, j) <=> Locks(c, k)
    BY <1>3 DEF StagesRow, StagesAttempt, StagesEvent, Locks
  <1>6. [session[s].staged EXCEPT !["event"] = EventSaved[c].row] = StagedBy(c, j)
    BY <1>4, <1>5 DEF StagedBy
  <1>7. j \in Nat /\ j \in 1..End(c) /\ ~(c.op = "retry" /\ j = 6) /\ j - 1 = k
    BY <1>3 DEF End
  <1>8. EventSaved[c].answer = "ok"
    BY <1>2, <1>3, EventInserted DEF SetsNext
  <1>9. c.op = "retry" => notificationRows[c.id] # NULL
    BY <1>2, <1>3 DEF InCall
  <1>10. Locks(c, j) <=> Locks(c, j - 1)
    BY <1>5, <1>7
  <1>11. j = session[s].pc + 1
    OBVIOUS
  <1> HIDE DEF c, k, j
  <1>12. c = session[s].call
    BY DEF c
  <1> QED BY <1>1, <1>4, <1>6, <1>7, <1>8, <1>9, <1>10, <1>11, <1>12, InsertKeeps

LEMMA ReadKeeps ==
    ASSUME TxInv, NEW s \in Session, Read(s)
    PROVE  TxInv' /\ UNCHANGED tables
  <1> DEFINE c == session[s].call
             k == session[s].pc
             a == IF c.op # "list" /\ notificationRows[c.id] = NULL
                  THEN "ErrNotFound" ELSE "ok"
  <1>1. /\ Busy(s) /\ Program(c)[k] \in {"read", "reread"} /\ UNCHANGED <<tables, made>>
    BY DEF Read, At, Fails
  <1>2. InCall(s) /\ c \in Calls /\ k \in 1..End(c) /\ k \in Nat
    BY <1>1, AtCall
  <1>3. \/ k = 1 /\ c.op \in {"get", "list", "load"}
        \/ k = 6 /\ c.op = "retry"
    BY <1>1, <1>2, Statements
  <1>4. CASE Fails(s)
    BY <1>1, <1>4, Failing
  <1>5. CASE Return(s, a) /\ Succeeds
    <2>1. errors' \in Nat /\ a \in Answers
      BY <1>5 DEF Succeeds, TxInv, TxType, Answers
    <2>2. Writes(c) => session[s].committed /\ a = "ok"
      BY <1>2, <1>3 DEF Writes, InCall
    <2> HIDE DEF a
    <2>3. Writes(session[s].call) =>
                /\ a = "ok" => session[s].committed
                /\ a \in {"ErrNotFound", "ErrConflict"} => ~session[s].committed
      BY <2>2
    <2>4. TxInv'
      BY <1>1, <1>5, <2>1, <2>3, Returns
    <2> QED BY <1>1, <2>4
  <1> QED BY <1>4, <1>5 DEF Read

-----------------------------------------------------------------------------
(***************************************************************************)
(* The transaction of a call                                               *)
(***************************************************************************)

InsertsEvent(c) == c.op \in {"create", "retry"} \/ SetsNext(c)

Records(c) == c.op \in {"success", "failure"}

\* The tables change as the whole of a call's transaction changes them.
Transaction(c) ==
    /\ c \in Calls /\ c.op \in Updates \cup {"create"}
    /\ IF c.op = "create" THEN notificationRows[c.id] = NULL ELSE Matches(c)
    /\ notificationRows' = [notificationRows EXCEPT ![c.id] = RowWritten(c)]
    /\ attemptRows' = IF Records(c)
                      THEN [attemptRows EXCEPT ![c.id] = Append(@, AttemptSaved[c].row)]
                      ELSE attemptRows
    /\ outboxRows' = IF InsertsEvent(c) THEN Append(outboxRows, EventSaved[c].row)
                     ELSE outboxRows

\* A transaction leaves rows that the tables keep.
LEMMA TransactionStores ==
    ASSUME TxInv, NEW c, Transaction(c)
    PROVE  /\ c.id \in Notification
           /\ Stored(RowWritten(c)) /\ RowWritten(c) # NULL
           /\ notificationRows'[c.id] = RowWritten(c)
           /\ \A n \in Notification \ {c.id} : notificationRows'[n] = notificationRows[n]
           /\ notificationRows' \in [Notification -> Row("Notification") \cup {NULL}]
           /\ attemptRows' \in [Notification -> Seq(Row("DeliveryAttempt"))]
           /\ outboxRows' \in Seq(Row("OutboxEvent"))
           /\ RowsStored'
  <1>1. c \in Calls /\ c.id \in Notification
    BY CallShape DEF Transaction
  <1>2. Stored(RowWritten(c))
    <2>1. CASE c.op = "create"
      BY <2>1, NotificationInserted DEF RowWritten
    <2>2. CASE c.op # "create"
      <3>1. c.op \in Updates /\ notificationRows[c.id] # NULL
        BY <2>2 DEF Transaction, Matches
      <3>2. Stored(notificationRows[c.id])
        BY <1>1, <3>1 DEF TxInv, RowsStored
      <3> QED BY <1>1, <2>2, <3>1, <3>2, RowByStored DEF RowWritten
    <2> QED BY <2>1, <2>2
  <1>3. RowWritten(c) \in Row("Notification") /\ RowWritten(c) # NULL
    <2>1. "Notification" \in Entity
      BY DEF Entity
    <2> QED BY <1>2, <2>1, NullAssumption DEF Stored
  <1>4. /\ notificationRows \in [Notification -> Row("Notification") \cup {NULL}]
        /\ attemptRows \in [Notification -> Seq(Row("DeliveryAttempt"))]
        /\ outboxRows \in Seq(Row("OutboxEvent"))
    BY DEF TxInv, TxType
  <1>5. /\ notificationRows'[c.id] = RowWritten(c)
        /\ \A n \in Notification \ {c.id} : notificationRows'[n] = notificationRows[n]
        /\ notificationRows' \in [Notification -> Row("Notification") \cup {NULL}]
    BY <1>1, <1>3, <1>4 DEF Transaction
  <1>6. attemptRows' \in [Notification -> Seq(Row("DeliveryAttempt"))]
    <2>1. CASE Records(c)
      <3>1. AttemptSaved[c].row \in Row("DeliveryAttempt")
        BY <1>1, <2>1, AttemptInserted DEF Records
      <3>2. Append(attemptRows[c.id], AttemptSaved[c].row) \in Seq(Row("DeliveryAttempt"))
        BY <1>1, <1>4, <3>1
      <3> QED BY <1>1, <1>4, <2>1, <3>2 DEF Transaction
    <2>2. CASE ~Records(c)
      BY <1>4, <2>2 DEF Transaction
    <2> QED BY <2>1, <2>2
  <1>7. outboxRows' \in Seq(Row("OutboxEvent"))
    <2>1. CASE InsertsEvent(c)
      <3>1. EventSaved[c].row \in Row("OutboxEvent")
        BY <1>1, <2>1, EventInserted DEF InsertsEvent
      <3>2. outboxRows' = Append(outboxRows, EventSaved[c].row)
        BY <2>1 DEF Transaction
      <3> QED BY <1>4, <3>1, <3>2
    <2>2. CASE ~InsertsEvent(c)
      BY <1>4, <2>2 DEF Transaction
    <2> QED BY <2>1, <2>2
  <1>8. RowsStored'
    <2> SUFFICES ASSUME NEW n \in Notification, notificationRows'[n] # NULL
                 PROVE  Stored(notificationRows'[n])
      BY DEF RowsStored, Stored, RowFits, Coherent
    <2>1. CASE n = c.id
      BY <1>2, <1>5, <2>1
    <2>2. CASE n # c.id
      BY <1>5, <2>2 DEF TxInv, RowsStored
    <2> QED BY <2>1, <2>2
  <1> QED BY <1>1, <1>2, <1>3, <1>5, <1>6, <1>7, <1>8

\* Nobody else has locked, or is about to create, the row of a session that
\* writes it.
LEMMA WritesAlone ==
    ASSUME TxInv, NEW s \in Session, Busy(s), NEW c, c = session[s].call, Transaction(c),
           c.op = "create" \/ lock[c.id] \in {NULL, s}
    PROVE  /\ lock[c.id] \in {NULL, s}
           /\ \A t \in Session \ {s} : ~Creates(t, c.id)
  <1>1. c.id \in Notification
    BY TransactionStores
  <1>2. CASE c.op = "create"
    <2>1. \A t \in Session : lock[c.id] # t
      <3> SUFFICES ASSUME NEW t \in Session, lock[c.id] = t PROVE FALSE
        OBVIOUS
      <3>1. Busy(t) /\ session[t].call.id = c.id /\ Locks(session[t].call, session[t].pc)
        BY <1>1 DEF TxInv, LocksHeld
      <3>2. InCall(t)
        BY <3>1, AtCall
      <3>3. notificationRows[c.id] # NULL
        BY <3>1, <3>2 DEF InCall, Matches
      <3> QED BY <1>2, <3>3 DEF Transaction
    <2>2. lock[c.id] = NULL
      BY <1>1, <2>1 DEF TxInv, TxType
    <2>3. \A t \in Session \ {s} : ~Creates(t, c.id)
      <3>1. Creates(s, c.id)
        BY <1>2 DEF Creates
      <3> QED BY <1>1, <3>1 DEF TxInv, OneCreator
    <2> QED BY <2>2, <2>3
  <1>3. CASE c.op # "create"
    <2>1. notificationRows[c.id] # NULL
      BY <1>3 DEF Transaction, Matches
    <2> SUFFICES ASSUME NEW t \in Session \ {s}, Creates(t, c.id) PROVE FALSE
      BY <1>3
    <2>2. InCall(t) /\ session[t].call.op = "create" /\ session[t].call.id = c.id
      BY AtCall DEF Creates
    <2> QED BY <2>1, <2>2 DEF InCall
  <1> QED BY <1>2, <1>3

\* A session that has just committed.
LEMMA Committed ==
    ASSUME TxInv, NEW s \in Session, Busy(s), NEW c, c = session[s].call, Transaction(c),
           c.op = "create" \/ lock[c.id] \in {NULL, s},
           session' \in [Session -> SessionState], errors' \in Nat, UNCHANGED made,
           \A t \in Session \ {s} : session'[t] = session[t],
           lock' \in [Notification -> Session \cup {NULL}],
           \A n \in Notification : lock'[n] = IF lock[n] = s THEN NULL ELSE lock[n],
           session'[s].call = c, session'[s].committed = TRUE,
           \/ session'[s].pc = 0 /\ session'[s].answer \in {"ok", "error"}
           \/ session'[s].pc = 6 /\ c.op = "retry" /\ session'[s].staged = Nothing
    PROVE  TxInv'
  <1>1. /\ c.id \in Notification /\ RowWritten(c) # NULL
        /\ notificationRows'[c.id] = RowWritten(c)
        /\ \A n \in Notification \ {c.id} : notificationRows'[n] = notificationRows[n]
        /\ RowsStored'
    BY TransactionStores
  <1>2. TxType'
    BY TransactionStores DEF TxInv, TxType
  <1>3. lock[c.id] \in {NULL, s} /\ \A t \in Session \ {s} : ~Creates(t, c.id)
    BY WritesAlone
  <1>4. /\ \A i \in Notification, t \in Session \ {s} : lock'[i] = t <=> lock[i] = t
        /\ \A i \in Notification : lock'[i] # s
    BY NullAssumption
  <1>5. IF Busy(s)' THEN InCall(s)' ELSE Told(s)'
    <2>1. CASE session'[s].pc = 0 /\ session'[s].answer \in {"ok", "error"}
      <3>1. ~Busy(s)'
        BY <2>1 DEF Busy
      <3>2. Told(s)'
        BY <2>1 DEF Told
      <3> QED BY <3>1, <3>2
    <2>2. CASE session'[s].pc = 6 /\ c.op = "retry" /\ session'[s].staged = Nothing
      <3>1. Busy(s)'
        BY <2>2 DEF Busy
      <3>2. c \in Calls /\ 6 \in 1..End(c)
        BY <2>2 DEF End, Transaction
      <3>3. StagedBy(c, 6)' = Nothing /\ ~Locks(c, 6)
        BY <2>2 DEF StagedBy, Nothing, StagesRow, StagesAttempt, StagesEvent, Locks
      <3>4. notificationRows'[c.id] # NULL
        BY <1>1
      <3> QED BY <2>2, <3>1, <3>2, <3>3, <3>4 DEF InCall
    <2> QED BY <2>1, <2>2
  <1>6. \A i \in Notification : ~Creates(s, i)'
    BY DEF Creates, Busy
  <1> QED BY <1>1, <1>2, <1>3, <1>4, <1>5, <1>6, OneSession

LEMMA CommitKeeps ==
    ASSUME TxInv, NEW s \in Session, Commit(s)
    PROVE  TxInv' /\ (UNCHANGED tables \/ Transaction(session[s].call))
  <1> DEFINE c == session[s].call
             k == session[s].pc
             staged == session[s].staged
             more == k < Len(Program(c))
  <1>1. Busy(s) /\ Program(c)[k] = "commit" /\ UNCHANGED made
    BY DEF Commit, At
  <1>2. InCall(s) /\ c \in Calls /\ k \in 1..End(c) /\ k \in Nat /\ c.id \in Notification
    BY <1>1, AtCall
  <1>3. \/ k = 4 /\ c.op \in {"create", "success"}
        \/ k = 5 /\ c.op = "retry"
        \/ k = 4 /\ c.op = "failure" /\ c.next = NULL
        \/ k = 5 /\ c.op = "failure" /\ c.next # NULL
    BY <1>1, <1>2, Statements
  <1>4. CASE Fails(s)
    <2>1. TxInv'
      BY <1>1, <1>4, Failing
    <2> QED BY <1>4, <2>1 DEF Fails
  <1>5. ASSUME NEW ok \in BOOLEAN,
               notificationRows' = IF staged.notification = NULL THEN notificationRows
                    ELSE [notificationRows EXCEPT ![c.id] = staged.notification],
               attemptRows' = IF staged.attempt = NULL THEN attemptRows
                    ELSE [attemptRows EXCEPT ![staged.attempt.notification_id] =
                            Append(@, staged.attempt)],
               outboxRows' = IF staged.event = NULL THEN outboxRows
                    ELSE Append(outboxRows, staged.event),
               lock' = Unlocked(s),
               errors' = IF ok THEN errors ELSE errors + 1,
               session' = [session EXCEPT
                          ![s].pc = IF ok /\ more THEN @ + 1 ELSE 0,
                          ![s].staged = Nothing,
                          ![s].committed = TRUE,
                          ![s].answer = IF ~ok THEN "error"
                                        ELSE IF more THEN @ ELSE "ok"]
        PROVE  TxInv' /\ Transaction(c)
    <2>1. /\ StagesRow(c, k)
          /\ StagesAttempt(c, k) <=> Records(c)
          /\ StagesEvent(c, k) <=> InsertsEvent(c)
          /\ Locks(c, k) <=> c.op # "create"
          /\ c.op \in Updates \cup {"create"}
      BY <1>3 DEF StagesRow, StagesAttempt, StagesEvent, Locks, Records, InsertsEvent,
                  SetsNext, Updates
    <2>2. /\ staged = StagedBy(c, k)
          /\ c.op = "create" => notificationRows[c.id] = NULL
          /\ c.op # "create" => lock[c.id] = s /\ Matches(c)
      BY <1>2, <2>1 DEF InCall
    <2>3. Stored(RowWritten(c))
      BY <1>2, <2>1, <2>2, StagedRows DEF Matches
    <2>4. /\ "Notification" \in Entity /\ "DeliveryAttempt" \in Entity
          /\ "OutboxEvent" \in Entity
      BY DEF Entity
    <2>5. staged.notification = RowWritten(c) /\ RowWritten(c) # NULL
      BY <2>1, <2>2, <2>3, <2>4, NullAssumption DEF StagedBy, Stored
    <2>6. IF Records(c) THEN /\ staged.attempt = AttemptSaved[c].row /\ staged.attempt # NULL
                             /\ staged.attempt.notification_id = c.id
          ELSE staged.attempt = NULL
      <3>1. Records(c) => /\ AttemptSaved[c].row \in Row("DeliveryAttempt")
                          /\ AttemptSaved[c].row.notification_id = c.id
        BY <1>2, AttemptInserted DEF Records
      <3>2. Records(c) => AttemptSaved[c].row # NULL
        BY <2>4, <3>1, NullAssumption
      <3> QED BY <2>1, <2>2, <3>1, <3>2 DEF StagedBy
    <2>7. IF InsertsEvent(c) THEN staged.event = EventSaved[c].row /\ staged.event # NULL
          ELSE staged.event = NULL
      <3>1. InsertsEvent(c) => EventSaved[c].row \in Row("OutboxEvent")
        BY <1>2, EventInserted DEF InsertsEvent
      <3>2. InsertsEvent(c) => EventSaved[c].row # NULL
        BY <2>4, <3>1, NullAssumption
      <3> QED BY <2>1, <2>2, <3>2 DEF StagedBy
    <2>8. Transaction(c)
      <3>1. notificationRows' = [notificationRows EXCEPT ![c.id] = RowWritten(c)]
        BY <1>5, <2>5
      <3>2. attemptRows' = IF Records(c)
                           THEN [attemptRows EXCEPT ![c.id] = Append(@, AttemptSaved[c].row)]
                           ELSE attemptRows
        BY <1>5, <2>6
      <3>3. outboxRows' = IF InsertsEvent(c) THEN Append(outboxRows, EventSaved[c].row)
                          ELSE outboxRows
        BY <1>5, <2>7
      <3> QED BY <1>2, <2>1, <2>2, <3>1, <3>2, <3>3 DEF Transaction
    <2>9. more <=> c.op = "retry"
      <3>1. Len(Program(c)) = End(c)
        BY <1>2, Statements
      <3> QED BY <1>3, <3>1 DEF End
    <2> DEFINE p == IF ok /\ more THEN k + 1 ELSE 0
               a == IF ~ok THEN "error" ELSE IF more THEN session[s].answer ELSE "ok"
               r == [session[s] EXCEPT !.pc = p, !.staged = Nothing, !.committed = TRUE,
                                       !.answer = a]
    <2>10. session \in [Session -> SessionState] /\ session[s] \in SessionState
      BY DEF TxInv, TxType
    <2>11. session' = [session EXCEPT ![s] = r]
      BY <1>5, <2>10 DEF SessionState
    <2>12. /\ p \in Nat /\ a \in Answers
           /\ p = IF ok /\ c.op = "retry" THEN 6 ELSE 0
      BY <1>2, <1>3, <2>9, <2>10 DEF SessionState, Answers
    <2>13. p = 0 => a \in {"ok", "error"}
      BY <2>9, <2>12
    <2> HIDE DEF p, a
    <2>14. Nothing \in Staging
      BY DEF Nothing, Staging
    <2>15. r \in SessionState
      BY <2>10, <2>12, <2>14 DEF SessionState
    <2>16. /\ r.pc = p /\ r.staged = Nothing /\ r.committed = TRUE /\ r.answer = a
           /\ r.call = c
      BY <2>10 DEF SessionState
    <2> HIDE DEF r
    <2>17. /\ session' \in [Session -> SessionState] /\ session'[s] = r
           /\ \A t \in Session \ {s} : session'[t] = session[t]
      BY <2>10, <2>11, <2>15
    <2>18. /\ lock' \in [Notification -> Session \cup {NULL}]
           /\ \A n \in Notification : lock'[n] = IF lock[n] = s THEN NULL ELSE lock[n]
      BY <1>5 DEF Unlocked, TxInv, TxType
    <2>19. errors' \in Nat
      <3>1. errors \in Nat
        BY DEF TxInv, TxType
      <3>2. errors' = errors \/ errors' = errors + 1
        BY <1>5
      <3> QED BY <3>1, <3>2
    <2> HIDE DEF c, k, staged
    <2>20. c = session[s].call
      BY DEF c
    <2>21. \/ session'[s].pc = 0 /\ session'[s].answer \in {"ok", "error"}
           \/ session'[s].pc = 6 /\ c.op = "retry" /\ session'[s].staged = Nothing
      BY <2>12, <2>13, <2>16, <2>17
    <2>22. session'[s].call = c /\ session'[s].committed = TRUE
      BY <2>16, <2>17
    <2>23. c.op = "create" \/ lock[c.id] \in {NULL, s}
      BY <2>2
    <2>24. TxInv'
      BY <1>1, <2>8, <2>17, <2>18, <2>19, <2>20, <2>21, <2>22, <2>23, Committed
    <2> QED BY <2>8, <2>24
  <1> QED BY <1>4, <1>5 DEF Commit

LEMMA UpdateAloneKeeps ==
    ASSUME TxInv, NEW s \in Session, UpdateAlone(s)
    PROVE  TxInv' /\ (UNCHANGED tables \/ Transaction(session[s].call))
  <1> DEFINE c == session[s].call
             k == session[s].pc
             m == NotificationUpdate[c]
             row == notificationRows[c.id]
  <1>1. Busy(s) /\ Program(c)[k] = "updateAlone" /\ UNCHANGED made
    BY DEF UpdateAlone, At
  <1>2. InCall(s) /\ c \in Calls /\ k \in 1..End(c) /\ k \in Nat /\ c.id \in Notification
    BY <1>1, AtCall
  <1>3. k = 1 /\ c.op = "mark"
    BY <1>1, <1>2, Statements
  <1>4. ~session[s].committed
    BY <1>2, <1>3 DEF InCall
  <1>5. CASE Fails(s)
    <2>1. TxInv'
      BY <1>1, <1>5, Failing
    <2> QED BY <1>5, <2>1 DEF Fails
  <1>6. CASE Return(s, "ErrConflict") /\ Succeeds /\ UNCHANGED tables
    <2>1. TxInv'
      BY <1>1, <1>4, <1>6, ReturnsConflict
    <2> QED BY <1>6, <2>1
  <1>7. Matches(c) => UpdateAnswer(m, row) = "ok" /\ UpdatedRow(Defaulted(m), row) = RowBy(c, row)
    <2> SUFFICES ASSUME Matches(c)
                 PROVE  /\ UpdateAnswer(m, row) = "ok"
                        /\ UpdatedRow(Defaulted(m), row) = RowBy(c, row)
      OBVIOUS
    <2>1. row # NULL /\ Stored(row) /\ c.op \in Updates
      BY <1>2, <1>3 DEF Matches, TxInv, RowsStored, Updates
    <2> QED BY <1>2, <2>1, UpdateByCall
  <1>8. ASSUME Matches(c), lock[c.id] = NULL, NEW ok \in BOOLEAN,
               notificationRows' = [notificationRows EXCEPT ![c.id] = RowBy(c, row)],
               errors' = IF ok THEN errors ELSE errors + 1,
               session' = [session EXCEPT ![s] =
                              [Idle EXCEPT !.call = c, !.committed = TRUE,
                                           !.answer = IF ok THEN "ok" ELSE "error"]],
               UNCHANGED <<attemptRows, outboxRows, lock>>
        PROVE  TxInv' /\ Transaction(c)
    <2>1. Transaction(c)
      <3>1. RowWritten(c) = RowBy(c, row) /\ ~Records(c) /\ ~InsertsEvent(c)
        BY <1>3 DEF RowWritten, Records, InsertsEvent, SetsNext
      <3>2. c.op \in Updates \cup {"create"} /\ c.op # "create"
        BY <1>3 DEF Updates
      <3> QED BY <1>2, <1>8, <3>1, <3>2 DEF Transaction
    <2> DEFINE a == IF ok THEN "ok" ELSE "error"
               r == [Idle EXCEPT !.call = c, !.committed = TRUE, !.answer = a]
    <2>2. a \in {"ok", "error"} /\ a \in Answers
      BY DEF Answers
    <2> HIDE DEF a
    <2>3. Nothing \in Staging
      BY DEF Nothing, Staging
    <2>4. /\ r \in SessionState /\ r.pc = 0 /\ r.call = c /\ r.committed = TRUE
          /\ r.answer = a
      BY <1>2, <2>2, <2>3 DEF Idle, SessionState
    <2> HIDE DEF r
    <2>5. /\ session' \in [Session -> SessionState] /\ session'[s] = r
          /\ \A t \in Session \ {s} : session'[t] = session[t]
      BY <1>8, <2>4 DEF TxInv, TxType, r, a
    <2>6. \A n \in Notification : lock[n] # s
      <3> SUFFICES ASSUME NEW n \in Notification, lock[n] = s PROVE FALSE
        OBVIOUS
      <3>1. Locks(c, k)
        BY DEF TxInv, LocksHeld
      <3> QED BY <1>3, <3>1 DEF Locks, StagesRow
    <2>7. /\ lock' \in [Notification -> Session \cup {NULL}]
          /\ \A n \in Notification : lock'[n] = IF lock[n] = s THEN NULL ELSE lock[n]
      BY <1>8, <2>6 DEF TxInv, TxType
    <2>8. errors' \in Nat
      BY <1>8 DEF TxInv, TxType
    <2>9. c.op = "create" \/ lock[c.id] \in {NULL, s}
      BY <1>8
    <2> HIDE DEF c
    <2>10. c = session[s].call
      BY DEF c
    <2>11. /\ session'[s].pc = 0 /\ session'[s].answer \in {"ok", "error"}
           /\ session'[s].call = c /\ session'[s].committed = TRUE
      BY <2>2, <2>4, <2>5
    <2>12. TxInv'
      BY <1>1, <2>1, <2>5, <2>7, <2>8, <2>9, <2>10, <2>11, Committed
    <2> QED BY <2>1, <2>12
  <1> QED BY <1>5, <1>6, <1>7, <1>8 DEF UpdateAlone

-----------------------------------------------------------------------------
(***************************************************************************)
(* The invariant                                                           *)
(***************************************************************************)

LEMMA EnterKeeps ==
    ASSUME TxInv, NEW s \in Session, NEW c \in Calls, Enter(s, c), c.op = "create" => Fresh(c.id)
    PROVE  TxInv' /\ UNCHANGED tables
  <1>1. ~Busy(s) /\ UNCHANGED <<tables, lock, errors>> /\ c.id \in Notification
    BY CallShape DEF Enter
  <1>2. UNCHANGED <<notificationRows, attemptRows, outboxRows>>
    BY <1>1 DEF tables
  <1> DEFINE r == [Idle EXCEPT !.call = c, !.pc = 1]
  <1>3. Nothing \in Staging /\ "none" \in Answers
    BY DEF Nothing, Staging, Answers
  <1>4. /\ r \in SessionState /\ r.pc = 1 /\ r.call = c /\ r.committed = FALSE
        /\ r.staged = Nothing
    BY <1>3 DEF Idle, SessionState
  <1>5. session' = [session EXCEPT ![s] = r]
    BY DEF Enter
  <1> HIDE DEF r
  <1>6. /\ session' \in [Session -> SessionState] /\ session'[s] = r
        /\ \A t \in Session \ {s} : session'[t] = session[t]
    BY <1>4, <1>5 DEF TxInv, TxType
  <1>7. made' \in Nat
    BY DEF Enter, TxInv, TxType
  <1>8. TxType' /\ RowsStored'
    BY <1>1, <1>2, <1>6, <1>7 DEF TxInv, TxType, RowsStored, Stored, RowFits, Coherent
  <1>9. \A i \in Notification : lock[i] # s
    BY <1>1 DEF TxInv, LocksHeld
  <1>10. Busy(s)' /\ InCall(s)'
    <2>1. Busy(s)'
      BY <1>4, <1>6 DEF Busy
    <2>2. 1 \in 1..End(c)
      BY DEF End
    <2>3. StagedBy(c, 1)' = Nothing /\ ~Locks(c, 1)
      BY DEF StagedBy, Nothing, StagesRow, StagesAttempt, StagesEvent, Locks
    <2>4. c.op = "create" => notificationRows'[c.id] = NULL
      BY <1>2 DEF Fresh
    <2> QED BY <1>4, <1>6, <2>1, <2>2, <2>3, <2>4 DEF InCall
  <1>11. \A i \in Notification : Creates(s, i)' => \A t \in Session : ~Creates(t, i)
    BY <1>4, <1>6 DEF Creates, Fresh
  <1>12. TxInv'
    <2>1. \A i \in Notification, t \in Session \ {s} : lock'[i] = t <=> lock[i] = t
      BY <1>1
    <2>2. \A i \in Notification : lock'[i] # s
      BY <1>1, <1>9
    <2> QED BY <1>1, <1>2, <1>6, <1>8, <1>10, <1>11, <2>1, <2>2, OneSession
  <1> QED BY <1>1, <1>12

LEMMA TxInit ==
    ASSUME Init
    PROVE  TxInv
  <1>1. Nothing \in Staging /\ "none" \in Answers
    BY DEF Nothing, Staging, Answers
  <1>2. Idle \in SessionState /\ Idle.pc = 0 /\ Idle.call.op = "get" /\ Idle.answer = "none"
    BY <1>1 DEF Idle, SessionState, PlainCall, Call
  <1>3. <<>> \in Seq(Row("DeliveryAttempt")) /\ <<>> \in Seq(Row("OutboxEvent"))
    OBVIOUS
  <1>4. TxType
    BY <1>2, <1>3 DEF Init, TxType
  <1>5. \A s \in Session : ~Busy(s) /\ Told(s)
    BY <1>2 DEF Init, Busy, Told
  <1>6. \A n \in Notification : notificationRows[n] = NULL /\ lock[n] = NULL
    BY DEF Init
  <1>7. SessionsOK
    BY <1>5 DEF SessionsOK
  <1>8. RowsStored
    BY <1>6 DEF RowsStored
  <1>9. LocksHeld
    BY <1>6, NullAssumption DEF LocksHeld
  <1>10. OneCreator
    BY <1>5 DEF OneCreator, Creates
  <1> QED BY <1>4, <1>7, <1>8, <1>9, <1>10 DEF TxInv

\* Every step keeps the invariant, and changes no table or makes the whole
\* transaction of a call.
LEMMA TxNext ==
    ASSUME TxInv, Next
    PROVE  TxInv' /\ (UNCHANGED tables \/ \E c \in Calls : Transaction(c))
  <1>1. PICK s \in Session :
            \/ \E n \in Notification : Fresh(n) /\ Enter(s, PlainCall("create", n))
            \/ \E n \in Notification : \E c \in CallsOn(n) : Enter(s, c)
            \/ Step(s)
    BY DEF Next
  <1>2. CASE \E n \in Notification : Fresh(n) /\ Enter(s, PlainCall("create", n))
    <2>1. PICK n \in Notification : Fresh(n) /\ Enter(s, PlainCall("create", n))
      BY <1>2
    <2> DEFINE c == PlainCall("create", n)
    <2>2. c \in Calls /\ c.op = "create" /\ c.id = n
      BY DEF Calls, PlainCall, Call
    <2> HIDE DEF c
    <2>3. Enter(s, c)
      BY <2>1 DEF c
    <2>4. Fresh(c.id)
      BY <2>1, <2>2
    <2> QED BY <2>2, <2>3, <2>4, EnterKeeps
  <1>3. CASE \E n \in Notification : \E c \in CallsOn(n) : Enter(s, c)
    <2>0. PICK n \in Notification : \E c \in CallsOn(n) : Enter(s, c)
      BY <1>3
    <2>1. PICK c \in CallsOn(n) : Enter(s, c)
      BY <2>0
    <2>2. c \in Calls
      BY DEF Calls
    <2>3. c.op # "create"
      <3>1. CASE c \in {PlainCall(op, n) : op \in {"get", "list", "retry", "load", "mark"}}
        <4>1. PICK op \in {"get", "list", "retry", "load", "mark"} : c = PlainCall(op, n)
          BY <3>1
        <4> QED BY <4>1 DEF PlainCall, Call
      <3>2. CASE c \in {Call("success", n, k, 200, "", NULL) : k \in 1..MaxNumber}
        <4>1. PICK k \in 1..MaxNumber : c = Call("success", n, k, 200, "", NULL)
          BY <3>2
        <4> QED BY <4>1 DEF Call
      <3>3. CASE c \in {Call("failure", n, k, 0, "transport", NULL) : k \in 1..MaxNumber}
        <4>1. PICK k \in 1..MaxNumber : c = Call("failure", n, k, 0, "transport", NULL)
          BY <3>3
        <4> QED BY <4>1 DEF Call
      <3>4. CASE c \in {Call("failure", n, k, 503, "status", 1) : k \in 1..MaxNumber}
        <4>1. PICK k \in 1..MaxNumber : c = Call("failure", n, k, 503, "status", 1)
          BY <3>4
        <4> QED BY <4>1 DEF Call
      <3> QED BY <3>1, <3>2, <3>3, <3>4 DEF CallsOn
    <2> QED BY <2>1, <2>2, <2>3, EnterKeeps
  <1>4. CASE Step(s)
    <2>1. CASE Begin(s)
      BY <2>1, BeginKeeps
    <2>2. CASE GetFailed(s)
      BY <2>2, GetFailedKeeps
    <2>3. CASE Update(s)
      BY <2>3, UpdateKeeps
    <2>4. CASE UpdateAlone(s)
      BY <2>4, UpdateAloneKeeps DEF Transaction
    <2>5. CASE InsertNotification(s)
      BY <2>5, InsertNotificationKeeps
    <2>6. CASE InsertAttempt(s)
      BY <2>6, InsertAttemptKeeps
    <2>7. CASE InsertEvent(s)
      BY <2>7, InsertEventKeeps
    <2>8. CASE Commit(s)
      BY <2>8, CommitKeeps DEF Transaction
    <2>9. CASE Read(s)
      BY <2>9, ReadKeeps
    <2> QED BY <1>4, <2>1, <2>2, <2>3, <2>4, <2>5, <2>6, <2>7, <2>8, <2>9 DEF Step
  <1> QED BY <1>1, <1>2, <1>3, <1>4

LEMMA TxStutters ==
    ASSUME TxInv, UNCHANGED vars
    PROVE  TxInv' /\ UNCHANGED tables
  <1>1. UNCHANGED <<notificationRows, attemptRows, outboxRows, lock, session, made, errors>>
    BY DEF vars, tables
  <1>2. TxType' /\ RowsStored' /\ LocksHeld' /\ OneCreator'
    BY <1>1 DEF TxInv, TxType, RowsStored, Stored, RowFits, Coherent, LocksHeld, Locks,
                StagesRow, OneCreator, Creates, Busy
  <1>3. ASSUME NEW s \in Session PROVE IF Busy(s)' THEN InCall(s)' ELSE Told(s)'
    <2>1. Busy(s)' <=> Busy(s)
      BY <1>1 DEF Busy
    <2>2. Told(s)' <=> Told(s)
      BY <1>1 DEF Told, Writes
    <2>3. ASSUME NEW c, NEW k
          PROVE  StagedBy(c, k)' = StagedBy(c, k) /\ (Matches(c)' <=> Matches(c))
      BY <1>1 DEF StagedBy, RowWritten, RowBy, Matches
    <2>4. InCall(s)' <=> InCall(s)
      BY <1>1, <2>3 DEF InCall
    <2> QED BY <2>1, <2>2, <2>4 DEF TxInv, SessionsOK
  <1>4. SessionsOK'
    BY <1>3 DEF SessionsOK
  <1>5. UNCHANGED tables
    BY <1>1 DEF tables
  <1> QED BY <1>2, <1>4, <1>5 DEF TxInv

\* Whatever statements interleave and fail, a session has staged exactly what
\* the statements of its call before this one made, the row it has locked is
\* still the row its UPDATE saw, and the rows in the table are coherent.
THEOREM TxInvariant == Spec => []TxInv
  <1>1. Init => TxInv
    BY TxInit
  <1>2. TxInv /\ [Next]_vars => TxInv'
    BY TxNext, TxStutters
  <1> QED BY <1>1, <1>2, PTL DEF Spec

\* Whatever the interleaving and whatever fails, a caller that is told "ok"
\* has its transaction in the tables, and one that is told ErrNotFound or
\* ErrConflict has not.
THEOREM CallersToldTheTruth == Spec => []AnswersTruthful
  <1>1. TxInv => AnswersTruthful
    BY DEF TxInv, SessionsOK, Told, AnswersTruthful
  <1> QED BY <1>1, TxInvariant, PTL

\* The columns of every notification agree with its status.
THEOREM RowsCoherent == Spec => []ColumnsCoherent
  <1>1. TxInv => ColumnsCoherent
    BY DEF TxInv, RowsStored, Stored, Coherent, ColumnsCoherent
  <1> QED BY <1>1, TxInvariant, PTL

\* Neither ent's checks nor the constraints of the tables refuse a statement
\* of the repository.
THEOREM NoStatementRefused == Spec => []StatementsAccepted
  <1>1. TxInv => StatementsAccepted
    BY DEF TxInv, TxType, SessionState, Answers, StatementsAccepted
  <1> QED BY <1>1, TxInvariant, PTL

-----------------------------------------------------------------------------
(***************************************************************************)
(* One event per delivery                                                  *)
(***************************************************************************)

\* The columns of the row that an update makes.
LEMMA RowByColumns ==
    ASSUME NEW c \in Calls, c.op \in Updates, NEW row
    PROVE  /\ RowBy(c, row).status = StatusBy(c)
           /\ RowBy(c, row).attempt_count =
                    IF c.op = "mark" THEN row.attempt_count ELSE CountBy(c)
           /\ RowBy(c, row).max_attempts = row.max_attempts
           /\ RowBy(c, row).next_attempt_at = IF SetsNext(c) THEN c.next ELSE NULL
  <1>1. RowBy(c, row).status = StatusBy(c)
    BY SetValues, NotificationColumns DEF RowBy
  <1>2. RowBy(c, row).attempt_count = IF c.op = "mark" THEN row.attempt_count ELSE CountBy(c)
    BY SetValues, NotificationColumns DEF RowBy, SetColumns, Touched, ClearedBy
  <1>3. RowBy(c, row).max_attempts = row.max_attempts
    BY NotificationColumns DEF RowBy, SetColumns, Touched, ClearedBy
  <1>4. RowBy(c, row).next_attempt_at = IF SetsNext(c) THEN c.next ELSE NULL
    BY SetValues, NotificationColumns DEF RowBy, SetColumns, Touched, ClearedBy
  <1> QED BY <1>1, <1>2, <1>3, <1>4

\* What appending a row changes.
LEMMA Appended ==
    ASSUME NEW S, NEW q \in Seq(S), NEW e \in S
    PROVE  /\ DOMAIN q = 1..Len(q) /\ Len(q) \in Nat /\ Len(q) + 1 \notin DOMAIN q
           /\ Append(q, e) \in Seq(S)
           /\ Len(Append(q, e)) = Len(q) + 1
           /\ DOMAIN Append(q, e) = DOMAIN q \cup {Len(q) + 1}
           /\ \A i \in DOMAIN q : Append(q, e)[i] = q[i]
           /\ Append(q, e)[Len(q) + 1] = e
  OBVIOUS

\* The rows that are counted are finitely many.
LEMMA CountsFinite ==
    ASSUME TxInv, NEW n \in Notification
    PROVE  /\ IsFiniteSet(EventsOf(n)) /\ IsFiniteSet(Unsuccessful(n))
           /\ Cardinality(EventsOf(n)) \in Nat /\ Cardinality(Unsuccessful(n)) \in Nat
  <1>1. DOMAIN outboxRows = 1..Len(outboxRows) /\ Len(outboxRows) \in Nat
    BY DEF TxInv, TxType
  <1>2. DOMAIN attemptRows[n] = 1..Len(attemptRows[n]) /\ Len(attemptRows[n]) \in Nat
    <2>1. attemptRows[n] \in Seq(Row("DeliveryAttempt"))
      BY DEF TxInv, TxType
    <2> QED BY <2>1
  <1>3. IsFiniteSet(1..Len(outboxRows)) /\ IsFiniteSet(1..Len(attemptRows[n]))
    <2>1. 1 \in Int /\ Len(outboxRows) \in Int /\ Len(attemptRows[n]) \in Int
      BY <1>1, <1>2
    <2> QED BY <2>1, FS_Interval
  <1>4. EventsOf(n) \subseteq 1..Len(outboxRows) /\ Unsuccessful(n) \subseteq 1..Len(attemptRows[n])
    BY <1>1, <1>2 DEF EventsOf, Unsuccessful
  <1>5. IsFiniteSet(EventsOf(n)) /\ IsFiniteSet(Unsuccessful(n))
    BY <1>3, <1>4, FS_Subset
  <1> QED BY <1>5, FS_CardinalityType

\* The table of events after a transaction.
LEMMA OutboxAfter ==
    ASSUME TxInv, NEW c, Transaction(c)
    PROVE  LET last == Len(outboxRows) + 1
           IN  /\ Len(outboxRows) \in Nat /\ DOMAIN outboxRows = 1..Len(outboxRows)
               /\ ~InsertsEvent(c) => outboxRows' = outboxRows
               /\ InsertsEvent(c) =>
                    /\ DOMAIN outboxRows' = DOMAIN outboxRows \cup {last}
                    /\ last \notin DOMAIN outboxRows
                    /\ Len(outboxRows') = last
                    /\ \A i \in DOMAIN outboxRows : outboxRows'[i] = outboxRows[i]
                    /\ outboxRows'[last].notification_id = c.id
                    /\ outboxRows'[last].status = "pending"
                    /\ outboxRows'[last].scheduled_at = InstantBy(c)
  <1>1. c \in Calls /\ outboxRows \in Seq(Row("OutboxEvent"))
    BY DEF Transaction, TxInv, TxType
  <1>2. Len(outboxRows) \in Nat /\ DOMAIN outboxRows = 1..Len(outboxRows)
    BY <1>1
  <1>3. CASE ~InsertsEvent(c)
    BY <1>2, <1>3 DEF Transaction
  <1>4. CASE InsertsEvent(c)
    <2> DEFINE e == EventSaved[c].row
               x == Len(outboxRows) + 1
    <2>1. /\ e \in Row("OutboxEvent") /\ e.notification_id = c.id /\ e.status = "pending"
          /\ e.scheduled_at = InstantBy(c)
      BY <1>1, <1>4, EventInserted DEF InsertsEvent
    <2>2. outboxRows' = Append(outboxRows, e)
      BY <1>4 DEF Transaction
    <2>3. /\ DOMAIN outboxRows' = DOMAIN outboxRows \cup {x} /\ x \notin DOMAIN outboxRows
          /\ Len(outboxRows') = x
          /\ \A i \in DOMAIN outboxRows : outboxRows'[i] = outboxRows[i]
          /\ outboxRows'[x] = e
      BY <1>1, <2>1, <2>2, Appended
    <2> HIDE DEF e, x
    <2>4. x = Len(outboxRows) + 1
      BY DEF x
    <2> QED BY <1>2, <1>4, <2>1, <2>3, <2>4
  <1> QED BY <1>3, <1>4

\* The events of a notification after a transaction.
LEMMA EventsAfter ==
    ASSUME TxInv, NEW c, Transaction(c), NEW n \in Notification
    PROVE  Cardinality(EventsOf(n))' =
                Cardinality(EventsOf(n)) + (IF n = c.id /\ InsertsEvent(c) THEN 1 ELSE 0)
  <1> DEFINE x == Len(outboxRows) + 1
  <1>1. IsFiniteSet(EventsOf(n)) /\ Cardinality(EventsOf(n)) \in Nat
    BY CountsFinite
  <1>2. CASE ~InsertsEvent(c)
    <2>1. outboxRows' = outboxRows
      BY <1>2, OutboxAfter
    <2>2. EventsOf(n)' = EventsOf(n)
      BY <2>1 DEF EventsOf
    <2> QED BY <1>1, <1>2, <2>2
  <1>3. CASE InsertsEvent(c)
    <2>1. /\ DOMAIN outboxRows' = DOMAIN outboxRows \cup {x} /\ x \notin DOMAIN outboxRows
          /\ \A i \in DOMAIN outboxRows : outboxRows'[i] = outboxRows[i]
          /\ outboxRows'[x].notification_id = c.id
      BY <1>3, OutboxAfter
    <2> HIDE DEF x
    <2>2. EventsOf(n)' = IF n = c.id THEN EventsOf(n) \cup {x} ELSE EventsOf(n)
      BY <2>1 DEF EventsOf
    <2>3. x \notin EventsOf(n)
      BY <2>1 DEF EventsOf
    <2>4. Cardinality(EventsOf(n) \cup {x}) = Cardinality(EventsOf(n)) + 1
      BY <1>1, <2>3, FS_AddElement
    <2> QED BY <1>1, <1>3, <2>2, <2>4
  <1> QED BY <1>2, <1>3

\* The unsuccessful attempts of a notification after a transaction.
LEMMA UnsuccessfulAfter ==
    ASSUME TxInv, NEW c, Transaction(c), NEW n \in Notification
    PROVE  Cardinality(Unsuccessful(n))' =
                Cardinality(Unsuccessful(n)) + (IF n = c.id /\ c.op = "failure" THEN 1 ELSE 0)
  <1>1. c \in Calls /\ attemptRows[n] \in Seq(Row("DeliveryAttempt"))
    BY DEF Transaction, TxInv, TxType
  <1>2. IsFiniteSet(Unsuccessful(n)) /\ Cardinality(Unsuccessful(n)) \in Nat
    BY CountsFinite
  <1>3. CASE ~Records(c) \/ n # c.id
    <2>1. attemptRows'[n] = attemptRows[n]
      BY <1>3 DEF Transaction, TxInv, TxType
    <2>2. Unsuccessful(n)' = Unsuccessful(n)
      BY <2>1 DEF Unsuccessful
    <2> QED BY <1>2, <1>3, <2>2 DEF Records
  <1>4. CASE Records(c) /\ n = c.id
    <2> DEFINE a == AttemptSaved[c].row
               x == Len(attemptRows[n]) + 1
    <2>1. a \in Row("DeliveryAttempt") /\ a.status = StatusBy(c)
      BY <1>1, <1>4, AttemptInserted DEF Records
    <2>2. attemptRows'[n] = Append(attemptRows[n], a)
      BY <1>4 DEF Transaction, TxInv, TxType
    <2>3. /\ DOMAIN attemptRows'[n] = DOMAIN attemptRows[n] \cup {x}
          /\ x \notin DOMAIN attemptRows[n]
          /\ \A i \in DOMAIN attemptRows[n] : attemptRows'[n][i] = attemptRows[n][i]
          /\ attemptRows'[n][x] = a
      BY <1>1, <2>1, <2>2, Appended
    <2>4. a.status \in {"retrying", "failed"} <=> c.op = "failure"
      BY <1>4, <2>1 DEF Records, StatusBy
    <2> HIDE DEF a, x
    <2>5. Unsuccessful(n)' =
                IF c.op = "failure" THEN Unsuccessful(n) \cup {x} ELSE Unsuccessful(n)
      BY <2>3, <2>4 DEF Unsuccessful
    <2>6. x \notin Unsuccessful(n)
      BY <2>3 DEF Unsuccessful
    <2>7. Cardinality(Unsuccessful(n) \cup {x}) = Cardinality(Unsuccessful(n)) + 1
      BY <1>2, <2>6, FS_AddElement
    <2> QED BY <1>2, <1>4, <2>5, <2>7
  <1> QED BY <1>3, <1>4

\* A notification that is not in its table has no unsuccessful attempts.
NoOrphans == \A n \in Notification : notificationRows[n] = NULL => Cardinality(Unsuccessful(n)) = 0

LEMMA TransactionCounted ==
    ASSUME TxInv, OneEventPerDelivery, NoOrphans, NEW c, Transaction(c)
    PROVE  OneEventPerDelivery' /\ NoOrphans'
  <1> SUFFICES ASSUME NEW n \in Notification
               PROVE  /\ Cardinality(EventsOf(n))' =
                            IF notificationRows'[n] = NULL THEN 0
                            ELSE 1 + Cardinality(Unsuccessful(n))'
                                   - (IF notificationRows'[n].status = "failed" THEN 1 ELSE 0)
                      /\ notificationRows'[n] = NULL => Cardinality(Unsuccessful(n))' = 0
    BY DEF OneEventPerDelivery, NoOrphans
  <1> DEFINE E == Cardinality(EventsOf(n))
             U == Cardinality(Unsuccessful(n))
             row == notificationRows[n]
  <1>1. E \in Nat /\ U \in Nat
    BY CountsFinite
  <1>2. /\ E = IF row = NULL THEN 0 ELSE 1 + U - (IF row.status = "failed" THEN 1 ELSE 0)
        /\ row = NULL => U = 0
    BY DEF OneEventPerDelivery, NoOrphans
  <1>3. E' = E + (IF n = c.id /\ InsertsEvent(c) THEN 1 ELSE 0)
    BY EventsAfter
  <1>4. U' = U + (IF n = c.id /\ c.op = "failure" THEN 1 ELSE 0)
    BY UnsuccessfulAfter
  <1>5. /\ c \in Calls /\ c.id \in Notification /\ RowWritten(c) # NULL
        /\ notificationRows'[c.id] = RowWritten(c)
        /\ \A i \in Notification \ {c.id} : notificationRows'[i] = notificationRows[i]
    BY TransactionStores DEF Transaction
  <1>6. CASE n # c.id
    <2>1. row' = row /\ E' = E /\ U' = U
      BY <1>1, <1>3, <1>4, <1>5, <1>6
    <2> QED BY <1>2, <2>1
  <1>7. CASE n = c.id /\ c.op = "create"
    <2>1. row = NULL /\ row' # NULL /\ row'.status = "pending" /\ InsertsEvent(c)
      BY <1>5, <1>7, NotificationInserted DEF Transaction, RowWritten, InsertsEvent
    <2> HIDE DEF E, U, row
    <2>2. E' = 1 /\ U' = 0
      BY <1>1, <1>2, <1>3, <1>4, <1>7, <2>1
    <2> QED BY <2>1, <2>2 DEF E, U, row
  <1>8. CASE n = c.id /\ c.op # "create"
    <2>1. c.op \in Updates /\ Matches(c)
      BY <1>8 DEF Transaction
    <2>2. row # NULL /\ row' # NULL /\ row'.status = StatusBy(c)
      BY <1>5, <1>8, <2>1, RowByColumns DEF RowWritten, Matches
    <2>3. row.status = "failed" <=> c.op = "retry"
      BY <1>8, <2>1 DEF Matches, RetryWhere, MarkWhere, RecordWhere, Updates
    <2>4. /\ InsertsEvent(c) <=> c.op = "retry" \/ (c.op = "failure" /\ c.next # NULL)
          /\ StatusBy(c) = "failed" <=> c.op = "failure" /\ c.next = NULL
      BY <1>8, <2>1 DEF InsertsEvent, SetsNext, StatusBy, Updates
    <2> HIDE DEF E, U, row
    <2>5. E' = 1 + U' - (IF row'.status = "failed" THEN 1 ELSE 0)
      BY <1>1, <1>2, <1>3, <1>4, <1>8, <2>2, <2>3, <2>4
    <2> QED BY <2>2, <2>5 DEF E, U, row
  <1> QED BY <1>6, <1>7, <1>8

\* However creations, results and racing manual retries interleave and fail,
\* every delivery that was asked for has one outbox event.
THEOREM EventsCounted == Spec => []OneEventPerDelivery
  <1> DEFINE I == OneEventPerDelivery /\ NoOrphans
  <1>1. Init => I
    <2> SUFFICES ASSUME Init PROVE I
      OBVIOUS
    <2>1. ASSUME NEW n \in Notification
          PROVE  /\ notificationRows[n] = NULL
                 /\ Cardinality(EventsOf(n)) = 0 /\ Cardinality(Unsuccessful(n)) = 0
      <3>1. EventsOf(n) = {} /\ Unsuccessful(n) = {}
        BY DEF Init, EventsOf, Unsuccessful
      <3>2. Cardinality({}) = 0
        BY FS_EmptySet
      <3>3. notificationRows[n] = NULL
        BY DEF Init
      <3> QED BY <3>1, <3>2, <3>3
    <2> QED BY <2>1 DEF OneEventPerDelivery, NoOrphans
  <1>2. TxInv /\ I /\ [Next]_vars => I'
    <2> SUFFICES ASSUME TxInv, I, [Next]_vars PROVE I'
      OBVIOUS
    <2>1. CASE UNCHANGED tables
      <3>1. UNCHANGED <<notificationRows, attemptRows, outboxRows>>
        BY <2>1 DEF tables
      <3> QED BY <3>1 DEF OneEventPerDelivery, NoOrphans, EventsOf, Unsuccessful
    <2>2. CASE \E c \in Calls : Transaction(c)
      BY <2>2, TransactionCounted
    <2> QED BY <2>1, <2>2, TxNext, TxStutters
  <1>3. I => OneEventPerDelivery
    OBVIOUS
  <1> QED BY <1>1, <1>2, <1>3, TxInvariant, PTL DEF Spec

-----------------------------------------------------------------------------
(***************************************************************************)
(* One event at most for each call                                         *)
(***************************************************************************)

\* The sessions that may still commit.
Open == {s \in Session : Busy(s) /\ ~session[s].committed}

\* A statement that goes on or returns leaves alone what is committed.
LEMMA GoesOnOrReturns ==
    ASSUME TxInv, NEW s \in Session, Busy(s),
           (\E g : Proceed(s, g)) \/ (\E a : Return(s, a))
    PROVE  Open' \subseteq Open
  <1>1. session \in [Session -> SessionState] /\ session[s] \in SessionState
    BY DEF TxInv, TxType
  <1>2. /\ \A t \in Session \ {s} : session'[t] = session[t]
        /\ session'[s].committed = session[s].committed
    <2>1. CASE \E g : Proceed(s, g)
      BY <1>1, <2>1 DEF Proceed, SessionState
    <2>2. CASE \E a : Return(s, a)
      BY ZenonT(60), <1>1, <2>2 DEF Return, SessionState
    <2> QED BY <2>1, <2>2
  <1>3. \A t \in Session \ {s} : Busy(t)' <=> Busy(t)
    BY <1>2 DEF Busy
  <1> QED BY <1>2, <1>3 DEF Open

\* A session whose transaction is carried out may commit no more.
LEMMA CarriedOut ==
    ASSUME TxInv, NEW s \in Session, Busy(s), ~session[s].committed,
           \A t \in Session \ {s} : session'[t] = session[t],
           session'[s].committed
    PROVE  s \in Open /\ Open' \subseteq Open \ {s}
  <1>1. \A t \in Session \ {s} : Busy(t)' <=> Busy(t)
    BY DEF Busy
  <1> QED BY <1>1 DEF Open

\* Every step is an entry, changes no table, or makes the transaction of a
\* session that had not committed and now has.
LEMMA OpenStep ==
    ASSUME TxInv, Next
    PROVE  \/ UNCHANGED <<tables, made>> /\ Open' \subseteq Open
           \/ /\ UNCHANGED tables /\ made < MaxCalls /\ made' = made + 1
              /\ \E s \in Session : Open' \subseteq Open \cup {s}
           \/ /\ UNCHANGED made
              /\ \E c \in Calls : Transaction(c)
              /\ \E s \in Open : Open' \subseteq Open \ {s}
  <1>1. PICK s \in Session :
            \/ \E n \in Notification : Fresh(n) /\ Enter(s, PlainCall("create", n))
            \/ \E n \in Notification : \E c \in CallsOn(n) : Enter(s, c)
            \/ Step(s)
    BY DEF Next
  <1>2. CASE \E c : Enter(s, c)
    <2>1. PICK c : Enter(s, c)
      BY <1>2
    <2>2. \A t \in Session \ {s} : session'[t] = session[t]
      BY <2>1 DEF Enter, TxInv, TxType
    <2>3. \A t \in Session \ {s} : Busy(t)' <=> Busy(t)
      BY <2>2 DEF Busy
    <2>4. Open' \subseteq Open \cup {s}
      BY <2>2, <2>3 DEF Open
    <2> QED BY <2>1, <2>4 DEF Enter
  <1>3. CASE Begin(s) \/ GetFailed(s) \/ Update(s)
             \/ InsertNotification(s) \/ InsertAttempt(s) \/ InsertEvent(s) \/ Read(s)
    <2>1. UNCHANGED tables
      BY <1>3, BeginKeeps, GetFailedKeeps, UpdateKeeps, InsertNotificationKeeps,
         InsertAttemptKeeps, InsertEventKeeps, ReadKeeps
    <2>2. UNCHANGED made /\ Busy(s)
      BY <1>3 DEF Begin, GetFailed, Update, InsertNotification, InsertAttempt, InsertEvent,
                  Read, Insert, At
    <2>3. (\E g : Proceed(s, g)) \/ (\E a : Return(s, a))
      <3>1. CASE Begin(s)
        BY <3>1 DEF Begin, Fails
      <3>2. CASE GetFailed(s)
        BY <3>2 DEF GetFailed, Fails
      <3>3. CASE Update(s)
        BY <3>3 DEF Update, Fails
      <3>4. CASE Read(s)
        BY <3>4 DEF Read, Fails
      <3>5. CASE InsertNotification(s) \/ InsertAttempt(s) \/ InsertEvent(s)
        BY <3>5 DEF InsertNotification, InsertAttempt, InsertEvent, Insert, Fails
      <3> QED BY <1>3, <3>1, <3>2, <3>3, <3>4, <3>5
    <2>4. Open' \subseteq Open
      BY <2>2, <2>3, GoesOnOrReturns
    <2> QED BY <2>1, <2>2, <2>4
  <1>4. CASE Commit(s)
    <2>1. Busy(s) /\ UNCHANGED made
      BY <1>4 DEF Commit, At
    <2>2. UNCHANGED tables \/ Transaction(session[s].call)
      BY <1>4, CommitKeeps
    <2>3. CASE Fails(s)
      <3>1. Open' \subseteq Open
        BY <2>1, <2>3, GoesOnOrReturns DEF Fails
      <3> QED BY <2>1, <2>3, <3>1 DEF Fails
    <2>4. CASE ~Fails(s)
      <3>1. ~session[s].committed
        <4>1. session[s].call \in Calls /\ session[s].pc \in 1..End(session[s].call) /\ InCall(s)
          BY <2>1, AtCall
        <4>2. Program(session[s].call)[session[s].pc] = "commit"
          BY <1>4 DEF Commit, At
        <4>3. ~(session[s].call.op = "retry" /\ session[s].pc = 6)
          BY <4>1, <4>2, Statements
        <4> QED BY <4>1, <4>3 DEF InCall
      <3>2. session'[s].committed /\ \A t \in Session \ {s} : session'[t] = session[t]
        <4>1. session \in [Session -> SessionState] /\ session[s] \in SessionState
          BY DEF TxInv, TxType
        <4>2. PICK ok \in BOOLEAN : session' = [session EXCEPT
                          ![s].pc = IF ok /\ @ < Len(Program(session[s].call))
                                    THEN @ + 1 ELSE 0,
                          ![s].staged = Nothing,
                          ![s].committed = TRUE,
                          ![s].answer = IF ~ok THEN "error"
                                ELSE IF session[s].pc < Len(Program(session[s].call))
                                THEN @ ELSE "ok"]
          BY <1>4, <2>4 DEF Commit
        <4> QED BY <4>1, <4>2 DEF SessionState
      <3>3. s \in Open /\ Open' \subseteq Open \ {s}
        BY <2>1, <3>1, <3>2, CarriedOut
      <3> QED BY <2>1, <2>2, <3>3 DEF Transaction
    <2> QED BY <2>3, <2>4
  <1>5. CASE UpdateAlone(s)
    <2>1. Busy(s) /\ UNCHANGED made
      BY <1>5 DEF UpdateAlone, At
    <2>2. UNCHANGED tables \/ Transaction(session[s].call)
      BY <1>5, UpdateAloneKeeps
    <2>3. CASE \E a : Return(s, a) /\ UNCHANGED tables
      <3>1. Open' \subseteq Open
        BY <2>1, <2>3, GoesOnOrReturns
      <3> QED BY <2>1, <2>3, <3>1
    <2>4. CASE \E a : session' = [session EXCEPT ![s] =
                        [Idle EXCEPT !.call = session[s].call, !.committed = TRUE, !.answer = a]]
      <3>1. ~session[s].committed
        <4>1. session[s].call \in Calls /\ session[s].pc \in 1..End(session[s].call) /\ InCall(s)
          BY <2>1, AtCall
        <4>2. Program(session[s].call)[session[s].pc] = "updateAlone"
          BY <1>5 DEF UpdateAlone, At
        <4>3. session[s].pc = 1
          BY <4>1, <4>2, Statements
        <4> QED BY <4>1, <4>3 DEF InCall
      <3>2. session'[s].committed /\ \A t \in Session \ {s} : session'[t] = session[t]
        BY <2>4 DEF TxInv, TxType, Idle
      <3>3. s \in Open /\ Open' \subseteq Open \ {s}
        BY <2>1, <3>1, <3>2, CarriedOut
      <3> QED BY <2>1, <2>2, <3>3 DEF Transaction
    <2> QED BY <1>5, <2>3, <2>4 DEF UpdateAlone, Fails
  <1> QED BY <1>1, <1>2, <1>3, <1>4, <1>5 DEF Step

\* There is room for the events of the sessions that may still commit, and
\* the inserted events are pending.
Room ==
    /\ Len(outboxRows) + Cardinality(Open) <= made
    /\ made <= MaxCalls
    /\ \A e \in DOMAIN outboxRows : outboxRows[e].status = "pending"

LEMMA OpenFinite == IsFiniteSet(Open) /\ Cardinality(Open) \in Nat
  <1>1. IsFiniteSet(Open)
    BY TxAssumption, FS_Subset DEF Open
  <1> QED BY <1>1, FS_CardinalityType

LEMMA RoomInit ==
    ASSUME Init
    PROVE  Room
  <1>1. Open = {}
    BY DEF Init, Open, Busy, Idle
  <1>2. Cardinality(Open) = 0
    BY <1>1, FS_EmptySet
  <1>3. Len(outboxRows) = 0 /\ DOMAIN outboxRows = {} /\ made = 0
    BY DEF Init
  <1> QED BY <1>2, <1>3, TxAssumption DEF Room

LEMMA RoomNext ==
    ASSUME TxInv, Room, Next
    PROVE  Room'
  <1>1. /\ IsFiniteSet(Open) /\ Cardinality(Open) \in Nat
        /\ IsFiniteSet(Open)' /\ Cardinality(Open)' \in Nat
    <2>1. IsFiniteSet(Open') /\ Cardinality(Open') \in Nat
      <3>1. Open' \subseteq Session
        BY DEF Open
      <3>2. IsFiniteSet(Open')
        BY <3>1, TxAssumption, FS_Subset
      <3> QED BY <3>2, FS_CardinalityType
    <2> QED BY <2>1, OpenFinite
  <1>2. made \in Nat /\ Len(outboxRows) \in Nat /\ MaxCalls \in Nat
    BY TxAssumption DEF TxInv, TxType
  <1>3. CASE UNCHANGED <<tables, made>> /\ Open' \subseteq Open
    <2>1. Cardinality(Open') <= Cardinality(Open)
      BY <1>1, <1>3, FS_Subset
    <2>2. outboxRows' = outboxRows /\ made' = made
      BY <1>3 DEF tables
    <2> QED BY <1>1, <1>2, <2>1, <2>2 DEF Room
  <1>4. CASE /\ UNCHANGED tables /\ made < MaxCalls /\ made' = made + 1
             /\ \E s \in Session : Open' \subseteq Open \cup {s}
    <2>1. PICK s \in Session : Open' \subseteq Open \cup {s}
      BY <1>4
    <2>2. /\ IsFiniteSet(Open \cup {s})
          /\ Cardinality(Open \cup {s}) <= Cardinality(Open) + 1
      <3>1. CASE s \in Open
        <4>1. Open \cup {s} = Open
          BY <3>1
        <4>2. Cardinality(Open) <= Cardinality(Open) + 1
          BY <1>1
        <4> QED BY <1>1, <4>1, <4>2, Zenon
      <3>2. CASE s \notin Open
        <4>1. /\ IsFiniteSet(Open \cup {s})
              /\ Cardinality(Open \cup {s}) = Cardinality(Open) + 1
          BY <1>1, <3>2, FS_AddElement
        <4> HIDE DEF Open
        <4> QED BY <1>1, <4>1
      <3> QED BY <3>1, <3>2
    <2>3. Cardinality(Open') <= Cardinality(Open \cup {s}) /\ Cardinality(Open \cup {s}) \in Nat
      BY <2>1, <2>2, FS_Subset, FS_CardinalityType
    <2>4. outboxRows' = outboxRows
      BY <1>4 DEF tables
    <2> QED BY <1>1, <1>2, <1>4, <2>2, <2>3, <2>4 DEF Room
  <1>5. CASE /\ UNCHANGED made
             /\ \E c \in Calls : Transaction(c)
             /\ \E s \in Open : Open' \subseteq Open \ {s}
    <2>1. PICK c \in Calls : Transaction(c)
      BY <1>5
    <2>2. PICK s \in Open : Open' \subseteq Open \ {s}
      BY <1>5
    <2>3. IsFiniteSet(Open \ {s}) /\ Cardinality(Open \ {s}) = Cardinality(Open) - 1
      BY <1>1, FS_RemoveElement
    <2>4. Cardinality(Open') <= Cardinality(Open \ {s})
      BY <2>2, <2>3, FS_Subset
    <2>5. Len(outboxRows') <= Len(outboxRows) + 1 /\ Len(outboxRows') \in Nat
      BY <1>2, <2>1, OutboxAfter
    <2>6. \A e \in DOMAIN outboxRows' : outboxRows'[e].status = "pending"
      BY <2>1, OutboxAfter DEF Room
    <2>7. made' = made
      BY <1>5
    <2> QED BY <1>1, <1>2, <2>3, <2>4, <2>5, <2>6, <2>7 DEF Room
  <1> QED BY <1>3, <1>4, <1>5, OpenStep

-----------------------------------------------------------------------------
(***************************************************************************)
(* The repository implements AtomicStore                                   *)
(***************************************************************************)

\* The tables as AtomicStore sees them.
StoreRows == [n \in Notification |-> AbstractRow(n)]
StoreAttempts == [n \in Notification |-> AbstractAttempts(n)]
StoreEvents == [e \in 1..MaxCalls |-> AbstractEvent(e)]

\* The greatest of a set of numbers that all are at most x.
LEMMA MaxIsLast ==
    ASSUME NEW S, S \subseteq Nat, NEW x \in S, \A y \in S : y <= x
    PROVE  Max(S) = x
  <1>1. \A y \in S : x >= y
    OBVIOUS
  <1>2. ASSUME NEW z \in S, \A y \in S : z >= y PROVE z = x
    <2>1. z >= x /\ z <= x /\ z \in Nat /\ x \in Nat
      BY <1>2
    <2> QED BY <2>1
  <1> QED BY <1>1, <1>2 DEF Max

\* A transaction leaves the other notifications alone.
LEMMA OtherRowsStay ==
    ASSUME TxInv, NEW c, Transaction(c), NEW n \in Notification \ {c.id}
    PROVE  AbstractRow(n)' = AbstractRow(n) /\ AbstractAttempts(n)' = AbstractAttempts(n)
  <1>1. notificationRows'[n] = notificationRows[n]
    BY TransactionStores
  <1>2. attemptRows'[n] = attemptRows[n]
    BY DEF Transaction, TxInv, TxType
  <1>3. EventsOf(n)' = EventsOf(n) /\ \A e \in EventsOf(n) : outboxRows'[e] = outboxRows[e]
    BY OutboxAfter DEF EventsOf
  <1>4. ASSUME NEW i PROVE LastEventAt(n, i)' = LastEventAt(n, i)
    <2>1. {e \in EventsOf(n)' : outboxRows'[e].scheduled_at = i}
            = {e \in EventsOf(n) : outboxRows[e].scheduled_at = i}
      BY <1>3
    <2> QED BY <2>1 DEF LastEventAt
  <1>5. AbstractRow(n)' = AbstractRow(n)
    BY <1>1, <1>4 DEF AbstractRow
  <1> QED BY <1>2, <1>5 DEF AbstractAttempts

\* The notification of a transaction, as AtomicStore sees it before and after.
LEMMA RowAfterCreate ==
    ASSUME TxInv, NEW c, Transaction(c), c.op = "create"
    PROVE  /\ AbstractRow(c.id).status = "absent"
           /\ AbstractRow(c.id)' =
                [ status |-> "pending", attempt_count |-> 0, max_attempts |-> 3,
                  next_attempt_at |-> 0 ]
  <1>1. notificationRows[c.id] = NULL /\ RowWritten(c) = NotificationSaved.row
    BY DEF Transaction, RowWritten
  <1>2. notificationRows'[c.id] = NotificationSaved.row /\ NotificationSaved.row # NULL
    BY <1>1, TransactionStores
  <1> QED BY <1>1, <1>2, NotificationInserted DEF AbstractRow

LEMMA RowAfterUpdate ==
    ASSUME TxInv, NEW c, Transaction(c), c.op # "create"
    PROVE  LET row == notificationRows[c.id]
               abs == AbstractRow(c.id)
           IN  /\ abs = [ status |-> row.status, attempt_count |-> row.attempt_count,
                          max_attempts |-> row.max_attempts,
                          next_attempt_at |-> abs.next_attempt_at ]
               /\ abs' = [ status |-> StatusBy(c),
                           attempt_count |-> IF c.op = "mark" THEN row.attempt_count
                                             ELSE CountBy(c),
                           max_attempts |-> row.max_attempts,
                           next_attempt_at |-> IF SetsNext(c) THEN Len(outboxRows) + 1 ELSE 0 ]
  <1> DEFINE row == notificationRows[c.id]
  <1>0. PICK new : new = RowBy(c, row)
    OBVIOUS
  <1>1. row # NULL /\ c \in Calls /\ c.op \in Updates
    BY DEF Transaction, Matches
  <1>2. notificationRows'[c.id] = new /\ new # NULL
    BY <1>0, TransactionStores DEF RowWritten
  <1>3. /\ new.status = StatusBy(c)
        /\ new.attempt_count = IF c.op = "mark" THEN row.attempt_count ELSE CountBy(c)
        /\ new.max_attempts = row.max_attempts
        /\ new.next_attempt_at = IF SetsNext(c) THEN c.next ELSE NULL
    BY <1>0, <1>1, RowByColumns
  <1>4. SetsNext(c) => c.next # NULL /\ LastEventAt(c.id, c.next)' = Len(outboxRows) + 1
    <2> SUFFICES ASSUME SetsNext(c)
                 PROVE  c.next # NULL /\ LastEventAt(c.id, c.next)' = Len(outboxRows) + 1
      OBVIOUS
    <2> DEFINE x == Len(outboxRows) + 1
               S == {e \in EventsOf(c.id)' : outboxRows'[e].scheduled_at = c.next}
    <2>1. /\ c.next # NULL /\ InsertsEvent(c) /\ InstantBy(c) = c.next
      BY DEF SetsNext, InsertsEvent, InstantBy
    <2>2. /\ Len(outboxRows) \in Nat /\ DOMAIN outboxRows = 1..Len(outboxRows)
          /\ DOMAIN outboxRows' = DOMAIN outboxRows \cup {x}
          /\ outboxRows'[x].notification_id = c.id
          /\ outboxRows'[x].scheduled_at = c.next
      BY <2>1, OutboxAfter
    <2>3. x \in S /\ S \subseteq DOMAIN outboxRows'
      BY <2>2 DEF EventsOf
    <2>4. \A y \in DOMAIN outboxRows' : y \in Nat /\ y <= x
      BY <2>2
    <2>5. Max(S) = x
      <3> HIDE DEF S, x
      <3> QED BY <2>3, <2>4, MaxIsLast
    <2> QED BY <2>1, <2>5 DEF LastEventAt
  <1>5. AbstractRow(c.id)' =
            [ status |-> new.status, attempt_count |-> new.attempt_count,
              max_attempts |-> new.max_attempts,
              next_attempt_at |-> IF new.next_attempt_at = NULL THEN 0
                                  ELSE LastEventAt(c.id, new.next_attempt_at)' ]
    BY <1>2 DEF AbstractRow
  <1>6. (IF new.next_attempt_at = NULL THEN 0 ELSE LastEventAt(c.id, new.next_attempt_at)')
            = IF SetsNext(c) THEN Len(outboxRows) + 1 ELSE 0
    BY <1>3, <1>4
  <1> QED BY <1>1, <1>3, <1>5, <1>6 DEF AbstractRow

\* The attempts of a transaction's notification.
LEMMA AttemptsAfter ==
    ASSUME TxInv, NEW c, Transaction(c)
    PROVE  AbstractAttempts(c.id)' =
                IF Records(c)
                THEN Append(AbstractAttempts(c.id),
                            [attempt_number |-> c.number, status |-> StatusBy(c)])
                ELSE AbstractAttempts(c.id)
  <1> DEFINE q == attemptRows[c.id]
             A == AbstractAttempts(c.id)
             r == [attempt_number |-> c.number, status |-> StatusBy(c)]
  <1>1. c \in Calls /\ c.id \in Notification /\ q \in Seq(Row("DeliveryAttempt"))
    BY TransactionStores DEF Transaction, TxInv, TxType
  <1>2. CASE ~Records(c)
    <2>1. attemptRows'[c.id] = q
      BY <1>2 DEF Transaction
    <2> QED BY <1>2, <2>1 DEF AbstractAttempts
  <1>3. CASE Records(c)
    <2> DEFINE a == AttemptSaved[c].row
               x == Len(q) + 1
    <2>1. a \in Row("DeliveryAttempt") /\ a.attempt_number = c.number /\ a.status = StatusBy(c)
      BY <1>1, <1>3, AttemptInserted DEF Records
    <2>2. attemptRows'[c.id] = Append(q, a)
      BY <1>1, <1>3 DEF Transaction, TxInv, TxType
    <2>3. /\ DOMAIN q = 1..Len(q) /\ Len(q) \in Nat /\ x \notin DOMAIN q
          /\ DOMAIN Append(q, a) = DOMAIN q \cup {x}
          /\ \A i \in DOMAIN q : Append(q, a)[i] = q[i]
          /\ Append(q, a)[x] = a
      BY <1>1, <2>1, Appended
    <2> DEFINE B == [i \in DOMAIN q \cup {x} |-> IF i = x THEN r ELSE A[i]]
               F(z) == [attempt_number |-> z.attempt_number, status |-> z.status]
               S == {A[i] : i \in DOMAIN q} \cup {r}
    <2>4. AbstractAttempts(c.id)' = [i \in DOMAIN Append(q, a) |-> F(Append(q, a)[i])]
      BY <2>2 DEF AbstractAttempts
    <2>5. A = [i \in DOMAIN q |-> F(q[i])]
      BY DEF AbstractAttempts
    <2>6. AbstractAttempts(c.id)' = B
      <3>1. F(a) = r
        BY <2>1
      <3> HIDE DEF F, r, a, x, q, A
      <3> QED BY <2>3, <2>4, <2>5, <3>1
    <2>7. A \in Seq(S) /\ Len(A) = Len(q)
      <3>1. DOMAIN A = 1..Len(q) /\ A = [i \in 1..Len(q) |-> A[i]]
        BY <2>3, <2>5
      <3>2. \A i \in 1..Len(q) : A[i] \in S
        BY <2>3
      <3> HIDE DEF A, S
      <3> QED BY <2>3, <3>1, <3>2
    <2>8. Append(A, r) = B
      <3>1. r \in S
        OBVIOUS
      <3> HIDE DEF A, S, r
      <3>2. /\ DOMAIN Append(A, r) = DOMAIN A \cup {Len(A) + 1}
            /\ DOMAIN A = 1..Len(A) /\ Len(A) + 1 \notin DOMAIN A
            /\ \A i \in DOMAIN A : Append(A, r)[i] = A[i]
            /\ Append(A, r)[Len(A) + 1] = r /\ Append(A, r) \in Seq(S)
        BY <2>7, <3>1, Appended
      <3> DEFINE T == Append(A, r)
      <3> HIDE DEF T
      <3>3. T \in [1..Len(T) -> S]
        BY <3>2, LenProperties DEF T
      <3>4. T = [i \in DOMAIN T |-> T[i]]
        BY <3>3
      <3>5. /\ DOMAIN T = DOMAIN q \cup {x} /\ x = Len(A) + 1 /\ DOMAIN A = DOMAIN q
            /\ \A i \in DOMAIN q : T[i] = A[i]
            /\ T[x] = r /\ x \notin DOMAIN q
        BY <2>3, <2>7, <3>2 DEF T
      <3> HIDE DEF x, q
      <3>6. T = B
        BY <3>4, <3>5
      <3> QED BY <3>6 DEF T
    <2> QED BY <1>3, <2>6, <2>8
  <1> QED BY <1>2, <1>3

\* The tables of a transaction as AtomicStore sees them.
LEMMA StoreAfter ==
    ASSUME TxInv, NEW c, Transaction(c), NEW row, row = AbstractRow(c.id)'
    PROVE  /\ StoreRows' = [StoreRows EXCEPT ![c.id] = row]
           /\ StoreAttempts' =
                IF Records(c)
                THEN Store!WithAttempt(c.id, c.number, StatusBy(c)) ELSE StoreAttempts
           /\ ~InsertsEvent(c) => StoreEvents' = StoreEvents
  <1>1. c.id \in Notification
    BY TransactionStores
  <1>2. \A n \in Notification \ {c.id} :
            AbstractRow(n)' = AbstractRow(n) /\ AbstractAttempts(n)' = AbstractAttempts(n)
    BY OtherRowsStay
  <1>3. StoreRows' = [StoreRows EXCEPT ![c.id] = row]
    BY <1>1, <1>2 DEF StoreRows
  <1> DEFINE a == [attempt_number |-> c.number, status |-> StatusBy(c)]
  <1>4. StoreAttempts' = IF Records(c)
                         THEN [StoreAttempts EXCEPT ![c.id] = Append(@, a)] ELSE StoreAttempts
    <2>1. AbstractAttempts(c.id)' = IF Records(c) THEN Append(AbstractAttempts(c.id), a)
                                    ELSE AbstractAttempts(c.id)
      BY AttemptsAfter
    <2> HIDE DEF a
    <2> QED BY <1>1, <1>2, <2>1 DEF StoreAttempts
  <1>5. Store!WithAttempt(c.id, c.number, StatusBy(c))
            = [StoreAttempts EXCEPT ![c.id] = Append(@, a)]
    BY DEF Store!WithAttempt, StoreAttempts
  <1>6. ~InsertsEvent(c) => StoreEvents' = StoreEvents
    <2>1. ~InsertsEvent(c) => outboxRows' = outboxRows
      BY OutboxAfter
    <2> QED BY <2>1 DEF StoreEvents, AbstractEvent
  <1> QED BY <1>3, <1>4, <1>5, <1>6

\* The event of a transaction takes the first free id.
LEMMA EventStored ==
    ASSUME TxInv, Room, NEW c, Transaction(c), InsertsEvent(c),
           NEW x, x = Len(outboxRows) + 1, x <= MaxCalls
    PROVE  /\ x \in Store!EventID
           /\ Store!NextEvent(x)
           /\ StoreEvents' = Store!WithEvent(x, c.id, InstantBy(c) = 0)
  <1>1. /\ Len(outboxRows) \in Nat /\ DOMAIN outboxRows = 1..Len(outboxRows)
        /\ DOMAIN outboxRows' = DOMAIN outboxRows \cup {x}
        /\ x \notin DOMAIN outboxRows
        /\ \A i \in DOMAIN outboxRows : outboxRows'[i] = outboxRows[i]
        /\ outboxRows'[x].notification_id = c.id
        /\ outboxRows'[x].status = "pending"
        /\ outboxRows'[x].scheduled_at = InstantBy(c)
    BY OutboxAfter
  <1>2. x \in 1..MaxCalls /\ \A f \in 1..(x - 1) : f \in DOMAIN outboxRows /\ f \in 1..MaxCalls
    BY <1>1, TxAssumption
  <1>3. StoreEvents[x].status = "absent"
    BY <1>1, <1>2 DEF StoreEvents, AbstractEvent
  <1>4. \A f \in 1..(x - 1) : StoreEvents[f].status = "pending"
    BY <1>2 DEF StoreEvents, AbstractEvent, Room
  <1>5. Store!NextEvent(x)
    BY <1>3, <1>4 DEF Store!NextEvent, Store!Absent, StoreEvents
  <1> DEFINE r == [ notification_id |-> c.id, status |-> "pending", due |-> (InstantBy(c) = 0),
                    locked_by |-> "none", lock_expired |-> FALSE ]
  <1>6. Store!WithEvent(x, c.id, InstantBy(c) = 0) = [StoreEvents EXCEPT ![x] = r]
    BY DEF Store!WithEvent, StoreEvents
  <1>7. StoreEvents' = [StoreEvents EXCEPT ![x] = r]
    <2>1. AbstractEvent(x)' = r
      BY <1>1 DEF AbstractEvent
    <2>2. ASSUME NEW e \in 1..MaxCalls, e # x PROVE AbstractEvent(e)' = AbstractEvent(e)
      BY <1>1, <2>2 DEF AbstractEvent
    <2> HIDE DEF r
    <2> QED BY <1>2, <2>1, <2>2 DEF StoreEvents
  <1> QED BY <1>2, <1>5, <1>6, <1>7 DEF Store!EventID

\* The transaction of a creation is AtomicStore's.
LEMMA CreateStored ==
    ASSUME TxInv, Room, NEW c, Transaction(c), c.op = "create", Len(outboxRows) + 1 <= MaxCalls
    PROVE  Store!StoreNext
  <1>1. PICK row : row = AbstractRow(c.id)'
    OBVIOUS
  <1>2. PICK x : x = Len(outboxRows) + 1
    OBVIOUS
  <1>3. /\ InsertsEvent(c) /\ ~Records(c) /\ InstantBy(c) = 0 /\ c.id \in Notification
    BY TransactionStores DEF InsertsEvent, Records, InstantBy
  <1>4. StoreRows' = [StoreRows EXCEPT ![c.id] = row] /\ StoreAttempts' = StoreAttempts
    BY <1>1, <1>3, StoreAfter
  <1>5. /\ x \in Store!EventID /\ Store!NextEvent(x)
        /\ StoreEvents' = Store!WithEvent(x, c.id, InstantBy(c) = 0)
    BY <1>2, <1>3, EventStored
  <1>6. StoreEvents' = Store!WithEvent(x, c.id, TRUE)
    BY <1>3, <1>5
  <1>7. /\ row = [ status |-> "pending", attempt_count |-> 0, max_attempts |-> 3,
                   next_attempt_at |-> 0 ]
        /\ StoreRows[c.id].status = "absent"
    BY <1>1, <1>3, RowAfterCreate DEF StoreRows
  <1>8. Store!CreateNotification(c.id, 3)
    BY <1>4, <1>5, <1>6, <1>7
       DEF Store!CreateNotification, Store!Absent, Store!NoEvent, StoreRows, StoreAttempts,
           StoreEvents
  <1> QED BY <1>3, <1>8 DEF Store!StoreNext, Store!StoreStep

\* The row that AtomicStore's transactions make is the row that the update
\* of the call makes.
LEMMA MovedRow ==
    ASSUME TxInv, NEW c, Transaction(c), c.op # "create",
           NEW row, row = AbstractRow(c.id)'
    PROVE  LET old == StoreRows[c.id]
           IN  /\ c.id \in Notification
               /\ old.status = notificationRows[c.id].status
               /\ old.attempt_count = notificationRows[c.id].attempt_count
               /\ row = Store!Moved(old, StatusBy(c),
                            IF c.op = "mark" THEN old.attempt_count ELSE CountBy(c),
                            IF SetsNext(c) THEN Len(outboxRows) + 1 ELSE 0)
  <1> DEFINE r == notificationRows[c.id]
             old == AbstractRow(c.id)
             N == IF SetsNext(c) THEN Len(outboxRows) + 1 ELSE 0
             C == IF c.op = "mark" THEN r.attempt_count ELSE CountBy(c)
  <1>1. c.id \in Notification /\ StoreRows[c.id] = old
    BY TransactionStores DEF StoreRows
  <1>2. /\ old = [ status |-> r.status, attempt_count |-> r.attempt_count,
                   max_attempts |-> r.max_attempts,
                   next_attempt_at |-> old.next_attempt_at ]
        /\ row = [ status |-> StatusBy(c), attempt_count |-> C,
                   max_attempts |-> r.max_attempts, next_attempt_at |-> N ]
    BY RowAfterUpdate
  <1>3. PICK next : next = old.next_attempt_at
    OBVIOUS
  <1>4. old = [ status |-> r.status, attempt_count |-> r.attempt_count,
                max_attempts |-> r.max_attempts, next_attempt_at |-> next ]
    BY <1>2, <1>3
  <1> HIDE DEF old, N, r
  <1>5. old.attempt_count = r.attempt_count /\ old.status = r.status
    BY <1>4
  <1>6. Store!Moved(old, StatusBy(c), C, N) =
            [ status |-> StatusBy(c), attempt_count |-> C,
              max_attempts |-> r.max_attempts, next_attempt_at |-> N ]
    <2> HIDE DEF C
    <2>1. Store!Moved(old, StatusBy(c), C, N) =
            [old EXCEPT !.status = StatusBy(c), !.attempt_count = C, !.next_attempt_at = N]
      BY DEF Store!Moved
    <2> QED BY <1>4, <2>1
  <1> QED BY <1>1, <1>2, <1>5, <1>6 DEF old, N, r

\* The transactions of the other calls are AtomicStore's.
LEMMA UpdateStored ==
    ASSUME TxInv, Room, NEW c, Transaction(c), c.op # "create",
           InsertsEvent(c) => Len(outboxRows) + 1 <= MaxCalls
    PROVE  Store!StoreNext
  <1>1. PICK row : row = AbstractRow(c.id)'
    OBVIOUS
  <1>2. PICK x : x = Len(outboxRows) + 1
    OBVIOUS
  <1> DEFINE old == StoreRows[c.id]
             n == c.id
  <1>3. /\ n \in Notification
        /\ old.status = notificationRows[n].status
        /\ old.attempt_count = notificationRows[n].attempt_count
        /\ row = Store!Moved(old, StatusBy(c),
                     IF c.op = "mark" THEN old.attempt_count ELSE CountBy(c),
                     IF SetsNext(c) THEN x ELSE 0)
    BY <1>1, <1>2, MovedRow
  <1>4. /\ StoreRows' = [StoreRows EXCEPT ![n] = row]
        /\ StoreAttempts' = IF Records(c) THEN Store!WithAttempt(n, c.number, StatusBy(c))
                            ELSE StoreAttempts
        /\ ~InsertsEvent(c) => StoreEvents' = StoreEvents
    BY <1>1, StoreAfter
  <1>5. InsertsEvent(c) =>
            /\ x \in Store!EventID /\ Store!NextEvent(x)
            /\ StoreEvents' = Store!WithEvent(x, n, InstantBy(c) = 0)
    BY <1>2, EventStored
  <1>6. c \in Calls /\ c.op \in Updates /\ Matches(c)
    BY DEF Transaction
  <1>7. CASE c.op = "retry"
    <2>1. old.status = "failed"
      BY <1>3, <1>6, <1>7 DEF Matches, RetryWhere
    <2>2. row = Store!Moved(old, "pending", 0, 0) /\ InsertsEvent(c) /\ ~Records(c)
      BY <1>3, <1>7 DEF StatusBy, CountBy, SetsNext, InsertsEvent, Records
    <2>3. InstantBy(c) = 0
      BY <1>7 DEF InstantBy
    <2>4. StoreEvents' = Store!WithEvent(x, n, TRUE)
      BY <1>5, <2>2, <2>3
    <2>5. Store!RetryFailedNotification(n)
      BY <1>4, <1>5, <2>1, <2>2, <2>4
         DEF Store!RetryFailedNotification, Store!CanRetry, Store!NoEvent, StoreRows,
             StoreAttempts, StoreEvents
    <2> QED BY <1>3, <2>5 DEF Store!StoreNext, Store!StoreStep
  <1>8. CASE c.op = "mark"
    <2>1. old.status \in {"pending", "retrying"}
      BY <1>3, <1>6, <1>8 DEF Matches, MarkWhere
    <2>2. row = Store!Moved(old, "delivering", old.attempt_count, 0)
      BY <1>3, <1>8 DEF StatusBy, SetsNext
    <2>3. ~InsertsEvent(c) /\ ~Records(c)
      BY <1>8 DEF InsertsEvent, Records, SetsNext
    <2>4. Store!MarkDelivering(n)
      BY <1>4, <2>1, <2>2, <2>3
         DEF Store!MarkDelivering, Store!CanStartDelivery, Store!NoEvent, StoreRows,
             StoreAttempts, StoreEvents
    <2> QED BY <1>3, <2>4 DEF Store!StoreNext, Store!StoreStep
  <1>9. CASE c.op \in {"success", "failure"}
    <2>1. c.number \in 1..20 /\ CountBy(c) = c.number /\ Records(c)
      BY <1>6, <1>9, CallShape DEF CountBy, Records
    <2>2. Store!InFlightAttempt(n, c.number)
      <3>1. old.status = "delivering" /\ old.attempt_count = c.number - 1
        BY <1>3, <1>6, <1>9 DEF Matches, RecordWhere
      <3> QED BY <3>1 DEF Store!InFlightAttempt, StoreRows
    <2>3. StoreAttempts' = Store!WithAttempt(n, c.number, StatusBy(c))
      BY <1>4, <2>1
    <2>4. CASE c.op = "success"
      <3>1. row = Store!Moved(old, "succeeded", c.number, 0) /\ StatusBy(c) = "succeeded"
        BY <1>3, <2>1, <2>4 DEF StatusBy, SetsNext
      <3>2. ~InsertsEvent(c)
        BY <2>4 DEF InsertsEvent, SetsNext
      <3>3. Store!RecordSuccess(n, c.number)
        BY <1>4, <2>2, <2>3, <3>1, <3>2
           DEF Store!RecordSuccess, Store!NoEvent, StoreRows, StoreAttempts, StoreEvents
      <3> QED BY <1>3, <2>1, <3>3 DEF Store!StoreNext, Store!StoreStep
    <2>5. CASE c.op = "failure" /\ c.next = NULL
      <3>1. row = Store!Moved(old, "failed", c.number, 0) /\ StatusBy(c) = "failed"
        BY <1>3, <2>1, <2>5 DEF StatusBy, SetsNext
      <3>2. ~InsertsEvent(c)
        BY <2>5 DEF InsertsEvent, SetsNext
      <3>3. Store!RecordTerminalFailure(n, c.number)
        BY <1>4, <2>2, <2>3, <3>1, <3>2
           DEF Store!RecordTerminalFailure, Store!NoEvent, StoreRows, StoreAttempts,
               StoreEvents
      <3>4. Store!RecordFailure(n, c.number, FALSE)
        BY <3>3 DEF Store!RecordFailure
      <3> QED BY <1>3, <2>1, <3>4 DEF Store!StoreNext, Store!StoreStep
    <2>6. CASE c.op = "failure" /\ c.next # NULL
      <3>1. /\ row = Store!Moved(old, "retrying", c.number, x) /\ StatusBy(c) = "retrying"
            /\ InsertsEvent(c)
        BY <1>3, <2>1, <2>6 DEF StatusBy, SetsNext, InsertsEvent
      <3>2. InstantBy(c) = 1
        BY <1>6, <2>6, CallShape DEF InstantBy
      <3>3. (InstantBy(c) = 0) = FALSE
        BY <3>2
      <3>4. StoreEvents' = Store!WithEvent(x, n, FALSE)
        BY <1>5, <3>1, <3>3
      <3>5. Store!RecordRetryableFailure(n, c.number)
        BY <1>4, <1>5, <2>2, <2>3, <3>1, <3>4
           DEF Store!RecordRetryableFailure, StoreRows, StoreAttempts, StoreEvents
      <3>6. Store!RecordFailure(n, c.number, TRUE)
        BY <3>5 DEF Store!RecordFailure
      <3> QED BY <1>3, <2>1, <3>6 DEF Store!StoreNext, Store!StoreStep
    <2> QED BY <1>9, <2>4, <2>5, <2>6
  <1> QED BY <1>6, <1>7, <1>8, <1>9 DEF Updates

\* The statements of concurrent calls, as they interleave and fail, change
\* the tables by whole transactions of AtomicStore.
THEOREM RepositoryIsAtomic == Spec => ImplementsAtomicStore
  <1>1. Init => Store!StoreInit
    <2> SUFFICES ASSUME Init PROVE Store!StoreInit
      OBVIOUS
    <2>1. ASSUME NEW n \in Notification
          PROVE  /\ AbstractRow(n) = [ status |-> "absent", attempt_count |-> 0,
                                       max_attempts |-> 0, next_attempt_at |-> 0 ]
                 /\ AbstractAttempts(n) = <<>>
      BY DEF Init, AbstractRow, AbstractAttempts
    <2>2. ASSUME NEW e \in 1..MaxCalls
          PROVE  AbstractEvent(e) = [ notification_id |-> "none", status |-> "absent",
                                      due |-> FALSE, locked_by |-> "none",
                                      lock_expired |-> FALSE ]
      BY DEF Init, AbstractEvent
    <2> QED BY <2>1, <2>2 DEF Store!StoreInit, Store!Absent, Store!NoEvent, Store!EventID
  <1>2. TxInv /\ Room /\ [Next]_vars => [Store!StoreNext]_(Store!storeVars)
    <2> SUFFICES ASSUME TxInv, Room, [Next]_vars
                 PROVE  Store!StoreNext \/ UNCHANGED Store!storeVars
      OBVIOUS
    <2>1. CASE UNCHANGED tables
      <3>1. UNCHANGED <<notificationRows, attemptRows, outboxRows>>
        BY <2>1 DEF tables
      <3> QED BY <3>1 DEF Store!storeVars, AbstractRow, AbstractAttempts, AbstractEvent,
                          LastEventAt, EventsOf
    <2>2. CASE (\E c \in Calls : Transaction(c)) /\ (\E s \in Open : TRUE)
      <3>1. PICK c \in Calls : Transaction(c)
        BY <2>2
      <3>2. Cardinality(Open) >= 1 /\ Cardinality(Open) \in Nat
        <4>1. PICK s \in Open : TRUE
          BY <2>2
        <4>2. IsFiniteSet(Open \ {s}) /\ Cardinality(Open \ {s}) = Cardinality(Open) - 1
          BY OpenFinite, FS_RemoveElement
        <4>3. Cardinality(Open \ {s}) \in Nat
          BY <4>2, FS_CardinalityType
        <4> QED BY <4>2, <4>3, OpenFinite
      <3>3. Len(outboxRows) + 1 <= MaxCalls
        <4>1. Len(outboxRows) \in Nat /\ made \in Nat /\ MaxCalls \in Nat
          BY TxAssumption DEF TxInv, TxType
        <4> QED BY <3>2, <4>1 DEF Room
      <3> QED BY <3>1, <3>3, CreateStored, UpdateStored
    <2> QED BY <2>1, <2>2, OpenStep, TxStutters
  <1>3. TxInv /\ Room /\ [Next]_vars => Room'
    <2>1. CASE UNCHANGED vars
      BY <2>1 DEF vars, tables, Room, Open, Busy
    <2> QED BY <2>1, RoomNext
  <1>4. Init => Room
    BY RoomInit
  <1> QED BY <1>1, <1>2, <1>3, <1>4, TxInvariant, PTL
     DEF Spec, ImplementsAtomicStore, Store!StoreSpec
=============================================================================
