------------------------------ MODULE EntQuery ------------------------------
(***************************************************************************)
(* The generated query and delete builders (ent/*_query.go, *_delete.go,   *)
(* ent/<entity>/where.go): a caller keeps a builder, adds predicates,      *)
(* limits and orderings to it, clones it and reads through it more than    *)
(* once.  A read changes the builder it runs on: First and Only leave      *)
(* their limit behind, IDs and Exist the column they select.               *)
(*                                                                         *)
(* A behaviour is about one column of one table ("focus"); the values are  *)
(* ranks in the column's order.  A text predicate (Contains, HasPrefix...) *)
(* stands for the set of values it matches.  Interceptors, edges, grouping *)
(* and aggregation are left out: no caller registers or uses any.          *)
(***************************************************************************)
EXTENDS EntSchema, Sequences, SequencesExt

CONSTANTS Slot,             \* builders the caller keeps
          MaxQueryCalls     \* bound: calls the caller makes

ASSUME QueryAssumption == Slot # {} /\ MaxQueryCalls \in Nat

-----------------------------------------------------------------------------
(***************************************************************************)
(* The predicates each entity's package offers, by column.                 *)
(***************************************************************************)
Membership == {"EQ", "NEQ", "In", "NotIn"}
Comparable == Membership \cup {"GT", "GTE", "LT", "LTE"}
Nullable   == {"IsNil", "NotNil"}
Textual    == Comparable \cup {"Contains", "HasPrefix", "HasSuffix", "EqualFold", "ContainsFold"}

NotificationIDPredicates      == [id |-> Comparable]
NotificationTargetPredicates  == [url |-> Textual, method |-> Textual]
NotificationPayloadPredicates == [headers |-> Nullable, body |-> Comparable \cup Nullable]
NotificationProgressPredicates ==
    [status |-> Membership, attempt_count |-> Comparable, max_attempts |-> Comparable]
NotificationErrorPredicates   == [last_error |-> Textual \cup Nullable]
NotificationTimePredicates ==
    [next_attempt_at |-> Comparable \cup Nullable,
     created_at |-> Comparable, updated_at |-> Comparable]

DeliveryAttemptIDPredicates     == [id |-> Comparable]
DeliveryAttemptResultPredicates ==
    [notification_id |-> Comparable, attempt_number |-> Comparable, status |-> Membership]
DeliveryAttemptAnswerPredicates ==
    [http_status |-> Comparable \cup Nullable, error_message |-> Textual \cup Nullable]
DeliveryAttemptTimingPredicates == [duration_ms |-> Comparable, created_at |-> Comparable]

OutboxEventIDPredicates   == [id |-> Comparable]
OutboxEventTaskPredicates == [notification_id |-> Comparable, event_type |-> Textual]
OutboxEventStatePredicates == [status |-> Membership, scheduled_at |-> Comparable]
OutboxEventClaimPredicates ==
    [stream_id |-> Textual \cup Nullable, locked_by |-> Textual \cup Nullable]
OutboxEventFailurePredicates ==
    [locked_at |-> Comparable \cup Nullable, last_error |-> Textual \cup Nullable]
OutboxEventTimePredicates ==
    [published_at |-> Comparable \cup Nullable,
     created_at |-> Comparable, updated_at |-> Comparable]

Predicates ==
    [Notification    |-> NotificationIDPredicates @@ NotificationTargetPredicates
                            @@ NotificationPayloadPredicates @@ NotificationProgressPredicates
                            @@ NotificationErrorPredicates @@ NotificationTimePredicates,
     DeliveryAttempt |-> DeliveryAttemptIDPredicates @@ DeliveryAttemptResultPredicates
                            @@ DeliveryAttemptAnswerPredicates @@ DeliveryAttemptTimingPredicates,
     OutboxEvent     |-> OutboxEventIDPredicates @@ OutboxEventTaskPredicates
                            @@ OutboxEventStatePredicates @@ OutboxEventClaimPredicates
                            @@ OutboxEventFailurePredicates @@ OutboxEventTimePredicates]

-----------------------------------------------------------------------------
(***************************************************************************)
(* How a predicate selects rows.  SQL has three truth values: a comparison *)
(* with NULL is unknown, and WHERE keeps a row only when it is true.       *)
(***************************************************************************)

\* What WHERE sees of a row: its id, and its value of the focus column.
TableRow == [id : 1..3, val : (1..3) \cup {NULL}]

\* A value v # NULL against an argument: a set lists what matches.
Compare(op, v, arg) ==
    CASE op = "EQ"    -> v = arg
      [] op = "NEQ"   -> v # arg
      [] op = "GT"    -> v > arg
      [] op = "GTE"   -> v >= arg
      [] op = "LT"    -> v < arg
      [] op = "LTE"   -> v <= arg
      [] op = "NotIn" -> v \notin arg
      [] OTHER        -> v \in arg

AtomTruth(op, v, arg) ==
    IF op \in Nullable THEN IF (v = NULL) = (op = "IsNil") THEN "true" ELSE "false"
    ELSE IF v = NULL THEN "unknown"
    ELSE IF Compare(op, v, arg) THEN "true" ELSE "false"

\* A predicate gives every row its truth value.
Atom(op, f, arg) ==
    [r \in TableRow |-> AtomTruth(op, IF f = "id" THEN r.id ELSE r.val, arg)]

And(p, q) ==
    [r \in TableRow |->
        LET t == {p[r], q[r]}
        IN  IF "false" \in t THEN "false" ELSE IF "unknown" \in t THEN "unknown" ELSE "true"]

Or(p, q) ==
    [r \in TableRow |->
        LET t == {p[r], q[r]}
        IN  IF "true" \in t THEN "true" ELSE IF "unknown" \in t THEN "unknown" ELSE "false"]

Not(p) ==
    [r \in TableRow |->
        CASE p[r] = "true" -> "false" [] p[r] = "false" -> "true" [] OTHER -> "unknown"]

Selected(rows, where) ==
    {r \in rows : \A i \in 1..Len(where) : where[i][r] = "true"}

-----------------------------------------------------------------------------
VARIABLES focus,    \* <<entity, column>> the behaviour is about
          given,    \* the predicate the caller uses
          table,    \* rows [id, val]: the table's id and focus columns
          query,    \* per slot: the builder, NULL before it is made
          ctx,      \* per slot: the QueryContext a builder may point to
          asked,    \* per slot: what the caller itself asked of the builder
          answer,   \* what the read just made returned, else NULL
          calls

queryVars == <<focus, given, table, query, ctx, asked, answer, calls>>

\* What the caller gives Where first: an atom of the focus column, alone
\* or combined with a predicate on the id.
Given(e, f) ==
    LET atoms == {Atom(op, f, IF op \in {"EQ", "NEQ", "GT", "GTE", "LT", "LTE"}
                              THEN 2 ELSE {2}) : op \in Predicates[e][f]}
        first == Atom("EQ", "id", 1)
    IN  UNION {{a, Or(Not(a), And(a, first))} : a \in atoms}

\* Three rows, of which the predicates select none, one, two or all.
StoredRows(e, f) ==
    LET val == IF f = "id" THEN <<1, 2, 3>>
               ELSE IF f \in Table[e].nullable THEN <<2, NULL, 1>> ELSE <<2, 1, 2>>
    IN  {[id |-> i, val |-> val[i]] : i \in 1..3}

NoOrder == "none"
NoContext == [limit |-> NULL, offset |-> NULL, fields |-> <<>>]

\* Query().Where(p): no ordering, a QueryContext of its own.
NewQuery(s, p) == [ctx |-> s, where |-> <<p>>, order |-> NoOrder]

AskedAtFirst(p) == [where |-> <<p>>, order |-> NoOrder, limit |-> NULL, offset |-> NULL,
                 narrowed |-> FALSE, read |-> FALSE]

QueryInit ==
    /\ focus \in UNION {{<<e, f>> : f \in DOMAIN Predicates[e]} : e \in Entity}
    /\ given \in Given(focus[1], focus[2])
    /\ table = StoredRows(focus[1], focus[2])
    /\ LET s == CHOOSE t \in Slot : TRUE
       IN  query = [t \in Slot |-> IF t = s THEN NewQuery(s, given) ELSE NULL]
    /\ ctx = [s \in Slot |-> NoContext]
    /\ asked = [s \in Slot |-> AskedAtFirst(given)]
    /\ answer = NULL
    /\ calls = 0

NoQuery ==
    /\ focus = <<"none", "none">> /\ given = NULL /\ table = {}
    /\ query = [s \in Slot |-> NULL] /\ ctx = [s \in Slot |-> NoContext]
    /\ asked = [s \in Slot |-> NULL]
    /\ answer = NULL /\ calls = MaxQueryCalls

Call == calls < MaxQueryCalls /\ calls' = calls + 1

C(s) == ctx[query[s].ctx]

\* The QueryContext the builder in slot s points to, with new contents.
SetContext(s, c) == ctx' = [ctx EXCEPT ![query[s].ctx] = c]

-----------------------------------------------------------------------------
(***************************************************************************)
(* Configuring a builder                                                   *)
(***************************************************************************)
Where(s, p) ==
    /\ Call /\ query[s] # NULL /\ Len(query[s].where) = 1
    /\ query' = [query EXCEPT ![s].where = Append(@, p)]
    /\ asked' = [asked EXCEPT ![s].where = Append(@, p)]
    /\ answer' = NULL
    /\ UNCHANGED <<focus, given, table, ctx>>

Limit(s, n) ==
    /\ Call /\ query[s] # NULL /\ asked[s].limit = NULL
    /\ SetContext(s, [C(s) EXCEPT !.limit = n])
    /\ asked' = [asked EXCEPT ![s].limit = n]
    /\ answer' = NULL
    /\ UNCHANGED <<focus, given, table, query>>

Offset(s, n) ==
    /\ Call /\ query[s] # NULL /\ asked[s].offset = NULL
    /\ SetContext(s, [C(s) EXCEPT !.offset = n])
    /\ asked' = [asked EXCEPT ![s].offset = n]
    /\ answer' = NULL
    /\ UNCHANGED <<focus, given, table, query>>

\* Order(ByX()) or Order(ByX(sql.OrderDesc()))
Order(s, dir) ==
    /\ Call /\ query[s] # NULL /\ query[s].order = NoOrder
    /\ query' = [query EXCEPT ![s].order = dir]
    /\ asked' = [asked EXCEPT ![s].order = dir]
    /\ answer' = NULL
    /\ UNCHANGED <<focus, given, table, ctx>>

Select(s, f) ==
    /\ Call /\ query[s] # NULL /\ ~asked[s].narrowed
    /\ SetContext(s, [C(s) EXCEPT !.fields = Append(@, f)])
    /\ asked' = [asked EXCEPT ![s].narrowed = TRUE]
    /\ answer' = NULL
    /\ UNCHANGED <<focus, given, table, query>>

\* Mutant: the clone keeps the pointer to the QueryContext.
CloneSharing(s, t) ==
    /\ Call /\ query[s] # NULL /\ query[t] = NULL
    /\ query' = [query EXCEPT ![t] = query[s]]
    /\ asked' = [asked EXCEPT ![t] = asked[s]]
    /\ answer' = NULL
    /\ UNCHANGED <<focus, given, table, ctx>>

Clone(s, t) ==
    /\ Call /\ query[s] # NULL /\ query[t] = NULL
    /\ query' = [query EXCEPT ![t] = [query[s] EXCEPT !.ctx = t]]
    /\ ctx' = [ctx EXCEPT ![t] = C(s)]
    /\ asked' = [asked EXCEPT ![t] = asked[s]]
    /\ answer' = NULL
    /\ UNCHANGED <<focus, given, table>>

-----------------------------------------------------------------------------
(***************************************************************************)
(* Reading                                                                 *)
(***************************************************************************)

\* prepareQuery: every selected name must be a column.
ValidColumns(fields) ==
    \A i \in 1..Len(fields) : fields[i] \in {"id"} \cup Table[focus[1]].columns

\* PostgreSQL sorts NULL after every value.
Before(a, b) == a # NULL /\ (b = NULL \/ a < b)

Sorted(rows, order) ==
    {r \in SetToSeqs(rows) :
        \A i, j \in 1..Len(r) : i < j =>
            CASE order = "asc"  -> ~Before(r[j].val, r[i].val)
              [] order = "desc" -> ~Before(r[i].val, r[j].val)
              [] OTHER          -> TRUE}

\* OFFSET and LIMIT.
Window(r, offset, limit) ==
    LET skip == IF offset = NULL THEN 0 ELSE offset
        rest == IF Len(r) > skip THEN Len(r) - skip ELSE 0
        size == IF limit # NULL /\ limit < rest THEN limit ELSE rest
    IN  [i \in 1..size |-> r[skip + i]]

\* querySpec: the row sequences the SELECT may return.
Rows(b, c) ==
    {Window(r, c.offset, c.limit) : r \in Sorted(Selected(table, b.where), b.order)}

\* scanValues, assignValues: a NULL becomes the type's zero value, or a nil
\* pointer in a field that is one; a column that was not selected likewise.
NotificationPointers    == {"next_attempt_at"}
DeliveryAttemptPointers == {}
OutboxEventPointers     == {"locked_at", "published_at"}
Pointers == [Notification |-> NotificationPointers, DeliveryAttempt |-> DeliveryAttemptPointers,
             OutboxEvent |-> OutboxEventPointers]

Zero == 0
Empty == IF focus[2] \in Pointers[focus[1]] THEN NULL ELSE Zero

Node(row, fields) ==
    [id |-> row.id,
     val |-> IF row.val = NULL \/ (fields # <<>> /\ focus[2] \notin Range(fields) \cup {"id"})
             THEN Empty ELSE row.val]

Nodes(r, fields) == [i \in 1..Len(r) |-> Node(r[i], fields)]
Ids(r) == [i \in 1..Len(r) |-> r[i].id]

Answered(call, s, out, got) ==
    answer' = [call |-> call, slot |-> s, out |-> out, got |-> got, asked |-> asked[s]]

\* What reading nodes through context c gives: an error, or one of the rows.
Outcome(call, s, c, Result(_)) ==
    IF ~ValidColumns(c.fields) THEN Answered(call, s, "ValidationError", <<>>)
    ELSE \E r \in Rows(query[s], c) : Result(r)

All(s) ==
    /\ Call /\ query[s] # NULL
    /\ LET Result(r) == Answered("All", s, "ok", Nodes(r, C(s).fields))
       IN  Outcome("All", s, C(s), Result)
    /\ asked' = [asked EXCEPT ![s].read = TRUE]
    /\ UNCHANGED <<focus, given, table, query, ctx>>

First(s) ==
    LET c == [C(s) EXCEPT !.limit = 1]
        Result(r) == IF r = <<>> THEN Answered("First", s, "NotFoundError", <<>>)
                     ELSE Answered("First", s, "ok", <<Node(r[1], c.fields)>>)
    IN  /\ Call /\ query[s] # NULL
        /\ SetContext(s, c)
        /\ Outcome("First", s, c, Result)
        /\ asked' = [asked EXCEPT ![s].read = TRUE]
        /\ UNCHANGED <<focus, given, table, query>>

\* Mutant: Only fetches no more than it returns.
OnlyFetched1(c) == [c EXCEPT !.limit = 1]

\* Only fetches two rows, to tell one from several.
OnlyFetched(c) == [c EXCEPT !.limit = 2]

Single(call, s, r, got) ==
    CASE Len(r) = 0 -> Answered(call, s, "NotFoundError", <<>>)
      [] Len(r) = 1 -> Answered(call, s, "ok", got)
      [] OTHER      -> Answered(call, s, "NotSingularError", <<>>)

Only(s) ==
    LET c == OnlyFetched(C(s))
        Result(r) == Single("Only", s, r, Nodes(r, c.fields))
    IN  /\ Call /\ query[s] # NULL
        /\ SetContext(s, c)
        /\ Outcome("Only", s, c, Result)
        /\ asked' = [asked EXCEPT ![s].read = TRUE]
        /\ UNCHANGED <<focus, given, table, query>>

\* Select(FieldID).Scan: the ids fit a slice only when no other column, and
\* no id of an earlier call, is selected too.
ScanIds(call, s, c, Result(_)) ==
    LET with == [c EXCEPT !.fields = Append(@, "id")]
    IN  /\ SetContext(s, with)
        /\ IF ValidColumns(with.fields) /\ Len(with.fields) > 1
           THEN Answered(call, s, "ScanError", <<>>)
           ELSE Outcome(call, s, with, Result)

IDs(s) ==
    /\ Call /\ query[s] # NULL
    /\ LET Result(r) == Answered("IDs", s, "ok", Ids(r))
       IN  ScanIds("IDs", s, C(s), Result)
    /\ asked' = [asked EXCEPT ![s].read = TRUE]
    /\ UNCHANGED <<focus, given, table, query>>

FirstID(s) ==
    /\ Call /\ query[s] # NULL
    /\ LET Result(r) == IF r = <<>> THEN Answered("FirstID", s, "NotFoundError", <<>>)
                        ELSE Answered("FirstID", s, "ok", <<r[1].id>>)
       IN  ScanIds("FirstID", s, [C(s) EXCEPT !.limit = 1], Result)
    /\ asked' = [asked EXCEPT ![s].read = TRUE]
    /\ UNCHANGED <<focus, given, table, query>>

OnlyID(s) ==
    /\ Call /\ query[s] # NULL
    /\ LET Result(r) == Single("OnlyID", s, r, Ids(r))
       IN  ScanIds("OnlyID", s, OnlyFetched(C(s)), Result)
    /\ asked' = [asked EXCEPT ![s].read = TRUE]
    /\ UNCHANGED <<focus, given, table, query>>

\* Exist asks FirstID and turns its NotFoundError into false.
Exist(s) ==
    /\ Call /\ query[s] # NULL
    /\ LET Result(r) == Answered("Exist", s, "ok", <<r # <<>>>>)
       IN  ScanIds("Exist", s, [C(s) EXCEPT !.limit = 1], Result)
    /\ asked' = [asked EXCEPT ![s].read = TRUE]
    /\ UNCHANGED <<focus, given, table, query>>

-----------------------------------------------------------------------------
(***************************************************************************)
(* Deleting, through a builder of its own                                  *)
(***************************************************************************)
Delete ==
    /\ Call
    /\ table' = table \ Selected(table, <<given>>)
    /\ answer' = NULL
    /\ UNCHANGED <<focus, given, query, ctx, asked>>

\* DeleteOneID(id).Exec: the NotFoundError of an absent row changes nothing.
DeleteOneID(id) ==
    /\ Call
    /\ table' = table \ Selected(table, <<Atom("EQ", "id", id)>>)
    /\ answer' = NULL
    /\ UNCHANGED <<focus, given, query, ctx, asked>>

QueryStep ==
    \/ \E s \in Slot :
         \/ Where(s, Not(Atom("EQ", "id", 1))) \/ Limit(s, 1) \/ Offset(s, 1)
         \/ \E dir \in {"asc", "desc"} : Order(s, dir)
         \/ \E f \in {focus[2], "no_such_column"} : Select(s, f)
         \/ All(s) \/ First(s) \/ FirstID(s) \/ Only(s) \/ OnlyID(s) \/ IDs(s) \/ Exist(s)
         \/ \E t \in Slot : Clone(s, t)
    \/ Delete
    \/ DeleteOneID(1)

-----------------------------------------------------------------------------
(***************************************************************************)
(* What a caller may rely on                                               *)
(***************************************************************************)

Matching == Selected(table, answer.asked.where)

\* All (notification_query.go:163) on a builder that no read ran on, and
\* that was not cloned from one a read ran on, returns what its own caller
\* asked for: every matching row once unless a limit or offset was asked,
\* in the order asked, each node with its column.  Whatever was done through
\* clones of the builder, before or after, does not matter.
UnreadBuilderReturnsAsked ==
    (answer # NULL /\ answer.call = "All" /\ answer.out = "ok" /\ ~answer.asked.read) =>
        \E r \in Sorted(Matching, answer.asked.order) :
            LET w == Window(r, answer.asked.offset, answer.asked.limit)
            IN  /\ Ids(answer.got) = Ids(w)
                /\ \A i \in 1..Len(w) :
                     answer.got[i].val = (IF w[i].val = NULL THEN Empty ELSE w[i].val)

\* Only and OnlyID (notification_query.go:110, 137) count exactly, whatever
\* limit the caller or an earlier First or Exist left in the builder: without
\* an offset they answer NotFoundError for no matching row, the row for one
\* and NotSingularError for more.
OnlyCountsExactly ==
    (/\ answer # NULL /\ answer.call \in {"Only", "OnlyID"}
     /\ answer.out \notin {"ValidationError", "ScanError"}
     /\ answer.asked.offset = NULL) =>
        answer.out = CASE Matching = {}                        -> "NotFoundError"
                       [] \E r \in Matching : Matching = {r}   -> "ok"
                       [] OTHER                                -> "NotSingularError"
=============================================================================
