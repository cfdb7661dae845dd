-------------------------- MODULE EntClient_proofs --------------------------
(***************************************************************************)
(* The generated client's builders, for any number of calls.               *)
(***************************************************************************)
EXTENDS EntClient, NatRecursion, FiniteSetTheorems, SequenceTheorems

-----------------------------------------------------------------------------
(***************************************************************************)
(* Sequences                                                               *)
(***************************************************************************)

\* A function on 1..n is a sequence of length n.
LEMMA FunctionIsSeq ==
    ASSUME NEW S, NEW n \in Nat, NEW g \in [1..n -> S]
    PROVE  g \in Seq(S) /\ Len(g) = n
  <1>1. g \in Seq(S)
    BY SeqDef
  <1>2. Len(g) \in Nat /\ DOMAIN g = 1..Len(g)
    BY <1>1, LenProperties
  <1>3. 1..Len(g) = 1..n
    BY <1>2
  <1>4. Len(g) = n
    BY <1>2, <1>3
  <1> QED BY <1>1, <1>4

\* The sequences of a finite set are as long as the set is large.
LEMMA SortedLength ==
    ASSUME NEW S, IsFiniteSet(S), NEW order, NEW r \in Sorted(S, order)
    PROVE  r \in Seq(S) /\ Len(r) = Cardinality(S)
  <1>1. Cardinality(S) \in Nat
    BY FS_CardinalityType
  <1>2. r \in [1..Cardinality(S) -> S]
    BY DEF Sorted, SetToSeqs
  <1> QED BY <1>1, <1>2, FunctionIsSeq

\* The window is what is left after the offset, cut at the limit.
LEMMA WindowLength ==
    ASSUME NEW S, NEW r \in Seq(S),
           NEW offset \in Nat \cup {NULL}, NEW limit \in Nat \cup {NULL}
    PROVE  LET skip == IF offset = NULL THEN 0 ELSE offset
               rest == IF Len(r) > skip THEN Len(r) - skip ELSE 0
           IN  /\ Window(r, offset, limit) \in Seq(S)
               /\ Len(Window(r, offset, limit)) =
                    IF limit # NULL /\ limit < rest THEN limit ELSE rest
  <1> DEFINE skip == IF offset = NULL THEN 0 ELSE offset
             rest == IF Len(r) > skip THEN Len(r) - skip ELSE 0
             size == IF limit # NULL /\ limit < rest THEN limit ELSE rest
             w    == [i \in 1..size |-> r[skip + i]]
  <1>1. Len(r) \in Nat /\ \A i \in 1..Len(r) : r[i] \in S
    BY LenProperties
  <1>2. skip \in Nat
    OBVIOUS
  <1> HIDE DEF skip
  <1>3. (rest \in Nat /\ skip + rest <= Len(r)) \/ rest = 0
    BY <1>1, <1>2
  <1> HIDE DEF rest
  <1>4. size \in Nat /\ size <= rest
    BY <1>3
  <1> HIDE DEF size
  <1>5. \A i \in 1..size : r[skip + i] \in S
    BY <1>1, <1>2, <1>3, <1>4
  <1>6. w \in [1..size -> S]
    BY <1>5
  <1> HIDE DEF w
  <1>7. w \in Seq(S) /\ Len(w) = size
    BY <1>4, <1>6, FunctionIsSeq
  <1>8. Window(r, offset, limit) = w
    BY DEF Window, w, size, rest, skip
  <1> QED BY <1>7, <1>8 DEF size, rest, skip

-----------------------------------------------------------------------------
(***************************************************************************)
(* The query builders.  A builder owns its QueryContext, and holds the     *)
(* predicates, the ordering and the offset its caller asked for; the limit *)
(* and the selected columns are the caller's only until the first read.    *)
(***************************************************************************)

AskedFields == {"where", "order", "limit", "offset", "narrowed", "read"}

QueryContext(f) ==
    [limit : Nat \cup {NULL}, offset : Nat \cup {NULL}, fields : Seq({f, "id", "no_such_column"})]

AsAsked(s) ==
    /\ query[s] = [ctx |-> s, where |-> asked[s].where, order |-> asked[s].order]
    /\ DOMAIN asked[s] = AskedFields
    /\ ctx[s].offset = asked[s].offset
    /\ ~asked[s].read =>
         /\ ctx[s].limit = asked[s].limit
         /\ \A i \in 1..Len(ctx[s].fields) : ctx[s].fields[i] \in {focus[2], "no_such_column"}

QueryInv ==
    /\ DOMAIN query = Slot /\ DOMAIN asked = Slot
    /\ ctx \in [Slot -> QueryContext(focus[2])]
    /\ IsFiniteSet(table)
    /\ \A s \in Slot : query[s] # NULL => AsAsked(s) /\ focus[1] \in Entity

LEMMA QueryInvNone == NoQuery => QueryInv
  <1> SUFFICES ASSUME NoQuery PROVE QueryInv
    OBVIOUS
  <1>1. NoContext \in QueryContext(focus[2])
    BY DEF NoContext, QueryContext
  <1>2. IsFiniteSet({})
    BY FS_EmptySet
  <1> QED BY <1>1, <1>2 DEF NoQuery, QueryInv

LEMMA QueryInvInit == QueryInit => QueryInv
  <1> SUFFICES ASSUME QueryInit PROVE QueryInv
    OBVIOUS
  <1>1. PICK s : query = [t \in Slot |-> IF t = s THEN NewQuery(s, given) ELSE NULL]
    BY DEF QueryInit
  <1>2. /\ asked = [t \in Slot |-> AskedAtFirst(given)]
        /\ ctx = [t \in Slot |-> NoContext]
    BY DEF QueryInit
  <1>3. NoContext \in QueryContext(focus[2]) /\ Len(NoContext.fields) = 0
        /\ NoContext.offset = NULL /\ NoContext.limit = NULL
    BY DEF NoContext, QueryContext
  <1>4. focus[1] \in Entity
    BY DEF QueryInit
  <1>5. IsFiniteSet(table)
    <2> DEFINE v == IF focus[2] = "id" THEN <<1, 2, 3>>
                    ELSE IF focus[2] \in Table[focus[1]].nullable THEN <<2, NULL, 1>>
                    ELSE <<2, 1, 2>>
               r(i) == [id |-> i, val |-> v[i]]
    <2>1. table = {r(i) : i \in 1..3}
      BY DEF QueryInit, StoredRows
    <2> HIDE DEF r
    <2>2. table = {r(1), r(2), r(3)}
      <3>1. 1..3 = {1, 2, 3}
        OBVIOUS
      <3> QED BY <2>1, <3>1
    <2>3. IsFiniteSet({}) /\ \A T, x : IsFiniteSet(T) => IsFiniteSet(T \cup {x})
      BY FS_EmptySet, FS_AddElement
    <2>4. {r(1), r(2), r(3)} = (({} \cup {r(1)}) \cup {r(2)}) \cup {r(3)}
      OBVIOUS
    <2>5. IsFiniteSet({} \cup {r(1)})
      BY <2>3
    <2>6. IsFiniteSet(({} \cup {r(1)}) \cup {r(2)})
      BY <2>3, <2>5
    <2>7. IsFiniteSet((({} \cup {r(1)}) \cup {r(2)}) \cup {r(3)})
      BY <2>3, <2>6
    <2> QED BY <2>2, <2>4, <2>7
  <1>6. ASSUME NEW t \in Slot, query[t] # NULL PROVE AsAsked(t)
    <2>1. t = s
      BY <1>1, <1>6
    <2>2. query[t] = [ctx |-> t, where |-> <<given>>, order |-> NoOrder]
      BY <1>1, <2>1 DEF NewQuery
    <2>3. /\ asked[t].where = <<given>> /\ asked[t].order = NoOrder
          /\ asked[t].limit = NULL /\ asked[t].offset = NULL
          /\ DOMAIN asked[t] = AskedFields
      BY <1>2 DEF AskedAtFirst, AskedFields
    <2>4. ctx[t] = NoContext
      BY <1>2
    <2>5. 1..0 = {}
      OBVIOUS
    <2> QED BY <1>3, <2>2, <2>3, <2>4, <2>5 DEF AsAsked
  <1> QED BY <1>1, <1>2, <1>3, <1>4, <1>5, <1>6 DEF QueryInv

\* What an action that keeps the table's finiteness has to show.
LEMMA QueryInvKept ==
    ASSUME QueryInv,
           DOMAIN query' = Slot, DOMAIN asked' = Slot, ctx' \in [Slot -> QueryContext(focus[2])],
           IsFiniteSet(table'), focus' = focus, NEW s \in Slot,
           \A t \in Slot \ {s} : query'[t] = query[t] /\ asked'[t] = asked[t] /\ ctx'[t] = ctx[t],
           query'[s] # NULL => AsAsked(s)' /\ focus[1] \in Entity
    PROVE  QueryInv'
  <1>1. ASSUME NEW t \in Slot, query'[t] # NULL PROVE AsAsked(t)' /\ focus'[1] \in Entity
    <2>1. CASE t = s
      BY <1>1, <2>1
    <2>2. CASE t # s
      BY <1>1, <2>2 DEF QueryInv, AsAsked
    <2> QED BY <2>1, <2>2
  <1> QED BY <1>1 DEF QueryInv

LEMMA WhereKeeps ==
    ASSUME QueryInv, NEW s \in Slot, NEW p, Where(s, p)
    PROVE  QueryInv'
  <1>1. query[s] # NULL /\ AsAsked(s) /\ focus[1] \in Entity
    BY DEF Where, QueryInv
  <1>2. /\ query' = [query EXCEPT ![s].where = Append(query[s].where, p)]
        /\ asked' = [asked EXCEPT ![s].where = Append(asked[s].where, p)]
        /\ focus' = focus /\ table' = table /\ ctx' = ctx
    BY DEF Where
  <1>3. /\ DOMAIN query' = Slot /\ DOMAIN asked' = Slot
        /\ \A t \in Slot \ {s} : query'[t] = query[t] /\ asked'[t] = asked[t]
    BY <1>2 DEF QueryInv
  <1>4. query'[s] = [query[s] EXCEPT !.where = Append(query[s].where, p)]
    BY <1>2 DEF QueryInv
  <1>5. asked'[s] = [asked[s] EXCEPT !.where = Append(asked[s].where, p)]
    BY <1>2 DEF QueryInv
  <1>6. AsAsked(s)'
    <2> DEFINE w == Append(asked[s].where, p)
    <2>1. query[s] = [ctx |-> s, where |-> asked[s].where, order |-> asked[s].order]
      BY <1>1 DEF AsAsked
    <2> HIDE DEF w
    <2>2. query'[s] = [ctx |-> s, where |-> w, order |-> asked[s].order]
      <3>1. query[s].where = asked[s].where
        BY <2>1
      <3>2. query'[s] = [query[s] EXCEPT !.where = w]
        BY <1>4, <3>1 DEF w
      <3> QED BY <2>1, <3>2
    <2>3. /\ DOMAIN asked'[s] = AskedFields
          /\ asked'[s].where = w /\ asked'[s].order = asked[s].order
          /\ asked'[s].offset = asked[s].offset /\ asked'[s].limit = asked[s].limit
          /\ asked'[s].read = asked[s].read
      <3>1. asked'[s] = [asked[s] EXCEPT !.where = w]
        BY <1>5 DEF w
      <3>2. DOMAIN asked[s] = AskedFields
        BY <1>1 DEF AsAsked
      <3> QED BY <3>1, <3>2 DEF AskedFields
    <2> QED BY <1>1, <1>2, <2>2, <2>3 DEF AsAsked
  <1>7. ctx' \in [Slot -> QueryContext(focus[2])] /\ IsFiniteSet(table')
    BY <1>2 DEF QueryInv
  <1> QED BY <1>1, <1>2, <1>3, <1>6, <1>7, QueryInvKept

LEMMA OrderKeeps ==
    ASSUME QueryInv, NEW s \in Slot, NEW dir, Order(s, dir)
    PROVE  QueryInv'
  <1>1. query[s] # NULL /\ AsAsked(s) /\ focus[1] \in Entity
    BY DEF Order, QueryInv
  <1>2. /\ query' = [query EXCEPT ![s].order = dir]
        /\ asked' = [asked EXCEPT ![s].order = dir]
        /\ focus' = focus /\ table' = table /\ ctx' = ctx
    BY DEF Order
  <1>3. /\ DOMAIN query' = Slot /\ DOMAIN asked' = Slot
        /\ \A t \in Slot \ {s} : query'[t] = query[t] /\ asked'[t] = asked[t]
    BY <1>2 DEF QueryInv
  <1>4. query'[s] = [query[s] EXCEPT !.order = dir]
    BY <1>2 DEF QueryInv
  <1>5. asked'[s] = [asked[s] EXCEPT !.order = dir]
    BY <1>2 DEF QueryInv
  <1>6. AsAsked(s)'
    BY <1>1, <1>2, <1>4, <1>5 DEF AsAsked, AskedFields
  <1>7. ctx' \in [Slot -> QueryContext(focus[2])] /\ IsFiniteSet(table')
    BY <1>2 DEF QueryInv
  <1> QED BY <1>1, <1>2, <1>3, <1>6, <1>7, QueryInvKept

\* An action that changes what the builder's context and its caller's wishes
\* hold, and nothing else.
ContextStep(s, c, a) ==
    /\ query[s] # NULL
    /\ ctx' = [ctx EXCEPT ![query[s].ctx] = c]
    /\ asked' = [asked EXCEPT ![s] = a]
    /\ UNCHANGED <<focus, table, query>>

LEMMA ContextStepKeeps ==
    ASSUME QueryInv, NEW s \in Slot, NEW c \in QueryContext(focus[2]), NEW a, ContextStep(s, c, a),
           DOMAIN a = AskedFields, a.where = asked[s].where, a.order = asked[s].order,
           c.offset = a.offset,
           ~a.read => /\ c.limit = a.limit
                      /\ \A i \in 1..Len(c.fields) : c.fields[i] \in {focus[2], "no_such_column"}
    PROVE  QueryInv'
  <1>1. AsAsked(s) /\ focus[1] \in Entity
    BY DEF ContextStep, QueryInv
  <1>2. query[s].ctx = s
    BY <1>1 DEF AsAsked
  <1>3. /\ ctx' = [ctx EXCEPT ![s] = c] /\ asked' = [asked EXCEPT ![s] = a]
        /\ focus' = focus /\ table' = table /\ query' = query
    BY <1>2 DEF ContextStep
  <1>4. /\ DOMAIN query' = Slot /\ DOMAIN asked' = Slot /\ ctx' \in [Slot -> QueryContext(focus[2])]
        /\ \A t \in Slot \ {s} : ctx'[t] = ctx[t] /\ asked'[t] = asked[t] /\ query'[t] = query[t]
        /\ ctx'[s] = c /\ asked'[s] = a /\ query'[s] = query[s]
    BY <1>3 DEF QueryInv
  <1>5. AsAsked(s)'
    BY <1>1, <1>3, <1>4 DEF AsAsked
  <1>6. IsFiniteSet(table')
    BY <1>3 DEF QueryInv
  <1> QED BY <1>1, <1>3, <1>4, <1>5, <1>6, QueryInvKept

\* The context of a builder is its own.
LEMMA OwnContext ==
    ASSUME QueryInv, NEW s \in Slot, query[s] # NULL
    PROVE  /\ AsAsked(s) /\ focus[1] \in Entity
           /\ C(s) = ctx[s] /\ C(s) \in QueryContext(focus[2])
           /\ DOMAIN asked[s] = AskedFields
  BY DEF QueryInv, AsAsked, C

LEMMA LimitKeeps ==
    ASSUME QueryInv, NEW s \in Slot, NEW n \in Nat, Limit(s, n)
    PROVE  QueryInv'
  <1> DEFINE c == [C(s) EXCEPT !.limit = n]
             a == [asked[s] EXCEPT !.limit = n]
  <1>1. query[s] # NULL
    BY DEF Limit
  <1>2. ContextStep(s, c, a)
    BY DEF Limit, ContextStep, SetContext
  <1>3. c \in QueryContext(focus[2]) /\ c.offset = ctx[s].offset
        /\ c.limit = n /\ c.fields = ctx[s].fields
    BY <1>1, OwnContext DEF QueryContext
  <1>4. /\ DOMAIN a = AskedFields /\ a.where = asked[s].where /\ a.order = asked[s].order
        /\ a.offset = asked[s].offset /\ a.limit = n /\ a.read = asked[s].read
    BY <1>1, OwnContext DEF AskedFields
  <1> HIDE DEF c, a
  <1>5. AsAsked(s)
    BY <1>1, OwnContext
  <1>6. /\ c.offset = a.offset
        /\ ~a.read => /\ c.limit = a.limit
                      /\ \A i \in 1..Len(c.fields) : c.fields[i] \in {focus[2], "no_such_column"}
    BY <1>3, <1>4, <1>5 DEF AsAsked
  <1> QED BY <1>2, <1>3, <1>4, <1>6, ContextStepKeeps

LEMMA OffsetKeeps ==
    ASSUME QueryInv, NEW s \in Slot, NEW n \in Nat, Offset(s, n)
    PROVE  QueryInv'
  <1> DEFINE c == [C(s) EXCEPT !.offset = n]
             a == [asked[s] EXCEPT !.offset = n]
  <1>1. query[s] # NULL
    BY DEF Offset
  <1>2. ContextStep(s, c, a)
    BY DEF Offset, ContextStep, SetContext
  <1>3. c \in QueryContext(focus[2]) /\ c.offset = n
        /\ c.limit = ctx[s].limit /\ c.fields = ctx[s].fields
    BY <1>1, OwnContext DEF QueryContext
  <1>4. /\ DOMAIN a = AskedFields /\ a.where = asked[s].where /\ a.order = asked[s].order
        /\ a.offset = n /\ a.limit = asked[s].limit /\ a.read = asked[s].read
    BY <1>1, OwnContext DEF AskedFields
  <1> HIDE DEF c, a
  <1>5. AsAsked(s)
    BY <1>1, OwnContext
  <1>6. /\ c.offset = a.offset
        /\ ~a.read => /\ c.limit = a.limit
                      /\ \A i \in 1..Len(c.fields) : c.fields[i] \in {focus[2], "no_such_column"}
    BY <1>3, <1>4, <1>5 DEF AsAsked
  <1> QED BY <1>2, <1>3, <1>4, <1>6, ContextStepKeeps

LEMMA SelectKeeps ==
    ASSUME QueryInv, NEW s \in Slot, NEW f \in {focus[2], "no_such_column"}, Select(s, f)
    PROVE  QueryInv'
  <1> DEFINE c == [C(s) EXCEPT !.fields = Append(C(s).fields, f)]
             a == [asked[s] EXCEPT !.narrowed = TRUE]
  <1>1. query[s] # NULL
    BY DEF Select
  <1>2. ContextStep(s, c, a)
    BY DEF Select, ContextStep, SetContext
  <1>3. C(s) = ctx[s] /\ ctx[s] \in QueryContext(focus[2]) /\ AsAsked(s)
    BY <1>1, OwnContext
  <1>4. PICK F : F = {focus[2], "id", "no_such_column"}
    OBVIOUS
  <1>5. ctx[s].fields \in Seq(F) /\ f \in F
    BY <1>3, <1>4 DEF QueryContext
  <1>6. PICK g : g = Append(ctx[s].fields, f)
    OBVIOUS
  <1>7. /\ g \in Seq(F) /\ Len(g) = Len(ctx[s].fields) + 1 /\ Len(ctx[s].fields) \in Nat
        /\ \A i \in 1..Len(g) : \/ g[i] = ctx[s].fields[i] /\ i \in 1..Len(ctx[s].fields)
                                \/ g[i] = f
    BY <1>5, <1>6
  <1>8. c = [ctx[s] EXCEPT !.fields = g]
    BY <1>3, <1>6
  <1>9. c \in QueryContext(focus[2]) /\ c.offset = ctx[s].offset
        /\ c.limit = ctx[s].limit /\ c.fields = g
    BY <1>3, <1>4, <1>7, <1>8 DEF QueryContext
  <1>10. /\ DOMAIN a = AskedFields /\ a.where = asked[s].where /\ a.order = asked[s].order
         /\ a.offset = asked[s].offset /\ a.limit = asked[s].limit /\ a.read = asked[s].read
    BY <1>1, OwnContext DEF AskedFields
  <1> HIDE DEF c, a
  <1>11. /\ c.offset = a.offset
         /\ ~a.read => /\ c.limit = a.limit
                       /\ \A i \in 1..Len(c.fields) : c.fields[i] \in {focus[2], "no_such_column"}
    BY <1>3, <1>7, <1>9, <1>10 DEF AsAsked
  <1> QED BY <1>2, <1>9, <1>10, <1>11, ContextStepKeeps

\* A clone has a context of its own, and what its original has been asked.
LEMMA CloneKeeps ==
    ASSUME QueryInv, NEW s \in Slot, NEW t \in Slot, Clone(s, t)
    PROVE  QueryInv'
  <1>1. query[s] # NULL
    BY DEF Clone
  <1>2. AsAsked(s) /\ C(s) = ctx[s] /\ ctx[s] \in QueryContext(focus[2]) /\ focus[1] \in Entity
    BY <1>1, OwnContext
  <1>3. /\ query' = [query EXCEPT ![t] = [query[s] EXCEPT !.ctx = t]]
        /\ ctx' = [ctx EXCEPT ![t] = ctx[s]] /\ asked' = [asked EXCEPT ![t] = asked[s]]
        /\ focus' = focus /\ table' = table
    BY <1>2 DEF Clone
  <1>4. /\ DOMAIN query' = Slot /\ DOMAIN asked' = Slot /\ ctx' \in [Slot -> QueryContext(focus[2])]
        /\ \A u \in Slot \ {t} : query'[u] = query[u] /\ asked'[u] = asked[u] /\ ctx'[u] = ctx[u]
        /\ ctx'[t] = ctx[s] /\ asked'[t] = asked[s]
        /\ query'[t] = [query[s] EXCEPT !.ctx = t]
    BY <1>2, <1>3 DEF QueryInv
  <1>5. query'[t] = [ctx |-> t, where |-> asked[s].where, order |-> asked[s].order]
    BY <1>2, <1>4 DEF AsAsked
  <1>6. AsAsked(t)'
    BY <1>2, <1>3, <1>4, <1>5 DEF AsAsked
  <1>7. IsFiniteSet(table')
    BY <1>3 DEF QueryInv
  <1> QED BY <1>2, <1>3, <1>4, <1>6, <1>7, QueryInvKept

LEMMA DeleteKeeps ==
    ASSUME QueryInv, NEW p, table' = table \ Selected(table, p),
           UNCHANGED <<focus, query, ctx, asked>>
    PROVE  QueryInv'
  <1>1. IsFiniteSet(table')
    BY FS_Subset DEF QueryInv
  <1> QED BY <1>1 DEF QueryInv, AsAsked

\* A read leaves the offset alone, whatever limit or column it leaves behind.
LEMMA ReadKeeps ==
    ASSUME QueryInv, NEW s \in Slot, query[s] # NULL, NEW c \in QueryContext(focus[2]),
           c.offset = ctx[s].offset, SetContext(s, c),
           asked' = [asked EXCEPT ![s].read = TRUE], UNCHANGED <<focus, table, query>>
    PROVE  QueryInv'
  <1> DEFINE a == [asked[s] EXCEPT !.read = TRUE]
  <1>1. ContextStep(s, c, a)
    BY DEF ContextStep, SetContext
  <1>2. /\ DOMAIN a = AskedFields /\ a.where = asked[s].where /\ a.order = asked[s].order
        /\ a.offset = asked[s].offset /\ a.read = TRUE
    BY OwnContext DEF AskedFields
  <1> HIDE DEF a
  <1>3. c.offset = a.offset
    BY <1>2, OwnContext DEF AsAsked
  <1> QED BY <1>1, <1>2, <1>3, ContextStepKeeps

\* The contexts that reads leave behind.
LEMMA ContextsLeft ==
    ASSUME QueryInv, NEW s \in Slot, query[s] # NULL, NEW n \in Nat
    PROVE  LET limited == [C(s) EXCEPT !.limit = n]
               ids(c)  == [c EXCEPT !.fields = Append(@, "id")]
           IN  \A c \in {C(s), limited, ids(C(s)), ids(limited)} :
                    c \in QueryContext(focus[2]) /\ c.offset = ctx[s].offset
  <1>1. C(s) = ctx[s] /\ C(s) \in QueryContext(focus[2])
    BY OwnContext
  <1>2. PICK F : F = {focus[2], "id", "no_such_column"}
    OBVIOUS
  <1>3. \A g \in Seq(F) : Append(g, "id") \in Seq(F)
    BY <1>2
  <1>4. ASSUME NEW c \in QueryContext(focus[2])
        PROVE  LET d == [c EXCEPT !.fields = Append(@, "id")]
               IN  d \in QueryContext(focus[2]) /\ d.offset = c.offset
    BY <1>2, <1>3 DEF QueryContext
  <1>5. LET limited == [C(s) EXCEPT !.limit = n]
        IN  limited \in QueryContext(focus[2]) /\ limited.offset = ctx[s].offset
    BY <1>1 DEF QueryContext
  <1> QED BY <1>1, <1>4, <1>5

-----------------------------------------------------------------------------
(***************************************************************************)
(* What the reads answer                                                   *)
(***************************************************************************)

AnswerOk == UnreadBuilderReturnsAsked /\ OnlyCountsExactly

\* The properties are about All, Only and OnlyID.
LEMMA OtherAnswers ==
    ASSUME answer' = NULL \/ answer'.call \notin {"All", "Only", "OnlyID"}
    PROVE  AnswerOk'
  BY DEF AnswerOk, UnreadBuilderReturnsAsked, OnlyCountsExactly

LEMMA NoSuchColumn ==
    ASSUME NEW e \in Entity
    PROVE  "no_such_column" \notin {"id"} \cup Table[e].columns
  BY DEF Entity, Table, NotificationsTable, DeliveryAttemptsTable, OutboxEventsTable

\* A node holds its column when the columns selected are valid and the
\* caller's.
LEMMA NodeHoldsColumn ==
    ASSUME focus[1] \in Entity, NEW r,
           NEW F, NEW fields \in Seq(F), ValidColumns(fields),
           \A i \in 1..Len(fields) : fields[i] \in {focus[2], "no_such_column"}
    PROVE  /\ Node(r, fields).id = r.id
           /\ Node(r, fields).val = IF r.val = NULL THEN Empty ELSE r.val
  <1>1. fields # <<>> => focus[2] \in Range(fields)
    <2> SUFFICES ASSUME fields # <<>> PROVE focus[2] \in Range(fields)
      OBVIOUS
    <2>1. Len(fields) \in Nat /\ Len(fields) # 0 /\ DOMAIN fields = 1..Len(fields)
      BY EmptySeq, LenProperties
    <2>2. 1 \in 1..Len(fields)
      BY <2>1
    <2>3. fields[1] # "no_such_column"
      BY <2>2, NoSuchColumn DEF ValidColumns
    <2>4. fields[1] = focus[2]
      BY <2>2, <2>3
    <2> QED BY <2>1, <2>2, <2>4 DEF Range
  <1> QED BY <1>1 DEF Node

\* The rows a builder reads are those its caller asked for.
LEMMA RowsAsked ==
    ASSUME QueryInv, NEW s \in Slot, query[s] # NULL, NEW c, NEW w \in Rows(query[s], c)
    PROVE  \E r \in Sorted(Selected(table, asked[s].where), asked[s].order) :
                w = Window(r, c.offset, c.limit)
  <1>1. query[s] = [ctx |-> s, where |-> asked[s].where, order |-> asked[s].order]
    BY OwnContext DEF AsAsked
  <1>2. query[s].where = asked[s].where /\ query[s].order = asked[s].order
    BY <1>1
  <1> QED BY <1>2 DEF Rows

LEMMA AllAnswers ==
    ASSUME QueryInv, NEW s \in Slot, All(s)
    PROVE  AnswerOk'
  <1> DEFINE Result(r) == Answered("All", s, "ok", Nodes(r, C(s).fields))
  <1>1. query[s] # NULL /\ table' = table /\ focus' = focus
    BY DEF All
  <1>2. AsAsked(s) /\ C(s) = ctx[s] /\ ctx[s] \in QueryContext(focus[2]) /\ focus[1] \in Entity
    BY <1>1, OwnContext
  <1>3. IF ~ValidColumns(C(s).fields) THEN Answered("All", s, "ValidationError", <<>>)
        ELSE \E r \in Rows(query[s], C(s)) : Answered("All", s, "ok", Nodes(r, C(s).fields))
    BY DEF All, Outcome
  <1>4. CASE ~ValidColumns(C(s).fields)
    <2>1. answer'.call = "All" /\ answer'.out = "ValidationError"
      BY <1>3, <1>4 DEF Answered
    <2> QED BY <2>1 DEF AnswerOk, UnreadBuilderReturnsAsked, OnlyCountsExactly
  <1>5. CASE ValidColumns(C(s).fields)
    <2>1. PICK w \in Rows(query[s], C(s)) : Answered("All", s, "ok", Nodes(w, C(s).fields))
      BY <1>3, <1>5
    <2>2. /\ answer'.call = "All" /\ answer'.got = Nodes(w, ctx[s].fields)
          /\ answer'.asked = asked[s]
      BY <1>2, <2>1 DEF Answered
    <2>3. PICK r \in Sorted(Selected(table, asked[s].where), asked[s].order) :
                w = Window(r, ctx[s].offset, ctx[s].limit)
      BY <1>1, <1>2, <2>1, RowsAsked
    <2>4. w \in Seq(table) /\ Len(w) \in Nat
      <3>1. IsFiniteSet(Selected(table, asked[s].where))
            /\ Selected(table, asked[s].where) \subseteq table
        BY FS_Subset DEF QueryInv, Selected
      <3>2. r \in Seq(Selected(table, asked[s].where))
        BY <2>3, <3>1, SortedLength
      <3>3. ctx[s].offset \in Nat \cup {NULL} /\ ctx[s].limit \in Nat \cup {NULL}
        BY <1>2 DEF QueryContext
      <3>4. w \in Seq(Selected(table, asked[s].where))
        BY <2>3, <3>2, <3>3, WindowLength
      <3> QED BY <3>1, <3>4, SeqMonotonic, LenProperties
    <2>5. CASE asked[s].read
      BY <2>2, <2>5 DEF AnswerOk, UnreadBuilderReturnsAsked, OnlyCountsExactly
    <2>6. CASE ~asked[s].read
      <3>1. /\ ctx[s].limit = asked[s].limit /\ ctx[s].offset = asked[s].offset
            /\ \A i \in 1..Len(ctx[s].fields) : ctx[s].fields[i] \in {focus[2], "no_such_column"}
        BY <1>2, <2>6 DEF AsAsked
      <3>2. \A x : /\ Node(x, ctx[s].fields).id = x.id
                   /\ Node(x, ctx[s].fields).val = IF x.val = NULL THEN Empty ELSE x.val
        <4>1. ctx[s].fields \in Seq({focus[2], "id", "no_such_column"})
          BY <1>2 DEF QueryContext
        <4> QED BY <1>2, <1>5, <3>1, <4>1, NodeHoldsColumn
      <3>3. \A i \in 1..Len(w) : answer'.got[i] = Node(w[i], ctx[s].fields)
        BY <2>2 DEF Nodes
      <3>4. Len(answer'.got) = Len(w)
        <4> DEFINE N == {Node(w[i], ctx[s].fields) : i \in 1..Len(w)}
        <4>1. answer'.got \in [1..Len(w) -> N]
          BY <2>2 DEF Nodes
        <4> HIDE DEF N
        <4> QED BY <2>4, <4>1, FunctionIsSeq
      <3>5. Ids(answer'.got) = Ids(w)
        BY <3>2, <3>3, <3>4 DEF Ids
      <3>6. \A i \in 1..Len(w) :
                answer'.got[i].val = IF w[i].val = NULL THEN Empty ELSE w[i].val
        BY <3>2, <3>3
      <3>7. Matching' = Selected(table, asked[s].where)
        BY <1>1, <2>2 DEF Matching, Selected
      <3>8. w = Window(r, answer'.asked.offset, answer'.asked.limit)
        BY <2>2, <2>3, <3>1
      <3>9. Empty' = Empty
        BY <1>1 DEF Empty
      <3>10. r \in Sorted(Matching', answer'.asked.order)
        BY <2>2, <2>3, <3>7
      <3>11. UnreadBuilderReturnsAsked'
        BY <3>5, <3>6, <3>8, <3>9, <3>10 DEF UnreadBuilderReturnsAsked
      <3>12. OnlyCountsExactly'
        BY <2>2 DEF OnlyCountsExactly
      <3> QED BY <3>11, <3>12 DEF AnswerOk
    <2> QED BY <2>5, <2>6
  <1> QED BY <1>4, <1>5

\* Two rows tell none, one and several apart.
LEMMA TwoRowsSuffice ==
    ASSUME NEW S, IsFiniteSet(S), NEW order, NEW r \in Sorted(S, order)
    PROVE  LET w == Window(r, NULL, 2)
           IN  /\ Len(w) \in Nat
               /\ Len(w) = 0 <=> S = {}
               /\ Len(w) = 1 <=> \E x \in S : S = {x}
  <1> DEFINE w == Window(r, NULL, 2)
  <1>1. r \in Seq(S) /\ Len(r) = Cardinality(S) /\ Cardinality(S) \in Nat
    BY SortedLength, FS_CardinalityType
  <1>2. Len(w) = IF 2 # NULL /\ 2 < (IF Len(r) > 0 THEN Len(r) - 0 ELSE 0)
                 THEN 2 ELSE (IF Len(r) > 0 THEN Len(r) - 0 ELSE 0)
    <2>1. NULL \in Nat \cup {NULL} /\ 2 \in Nat \cup {NULL}
      OBVIOUS
    <2> QED BY <1>1, <2>1, WindowLength
  <1> HIDE DEF w
  <1>3. Len(w) \in Nat /\ (Len(w) = 0 <=> Cardinality(S) = 0) /\ (Len(w) = 1 <=> Cardinality(S) = 1)
    BY <1>1, <1>2
  <1>4. Cardinality(S) = 0 <=> S = {}
    BY FS_EmptySet
  <1>5. Cardinality(S) = 1 <=> \E x \in S : S = {x}
    <2>1. ASSUME Cardinality(S) = 1 PROVE \E x \in S : S = {x}
      BY <2>1, FS_Singleton
    <2>2. ASSUME NEW x \in S, S = {x} PROVE Cardinality(S) = 1
      BY <2>2, FS_Singleton
    <2> QED BY <2>1, <2>2
  <1> QED BY <1>3, <1>4, <1>5 DEF w

LEMMA SingleAnswers ==
    ASSUME QueryInv, NEW s \in Slot, query[s] # NULL, NEW c,
           c.limit = 2, c.offset = ctx[s].offset,
           NEW w \in Rows(query[s], c), NEW call \in {"Only", "OnlyID"}, NEW got,
           Single(call, s, w, got), table' = table
    PROVE  AnswerOk'
  <1> DEFINE S == Selected(table, asked[s].where)
  <1>1. PICK r \in Sorted(S, asked[s].order) : w = Window(r, ctx[s].offset, 2)
    BY RowsAsked
  <1>2. ctx[s].offset = asked[s].offset
    BY OwnContext DEF AsAsked
  <1>3. IsFiniteSet(S)
    BY FS_Subset DEF QueryInv, Selected
  <1> HIDE DEF S
  <1>4. /\ Len(w) = 0 => answer'.out = "NotFoundError"
        /\ Len(w) = 1 => answer'.out = "ok"
        /\ Len(w) # 0 /\ Len(w) # 1 => answer'.out = "NotSingularError"
        /\ answer'.call = call /\ answer'.asked = asked[s]
    <2>1. CASE Len(w) = 0
      BY <2>1 DEF Single, Answered
    <2>2. CASE Len(w) = 1
      BY <2>2 DEF Single, Answered
    <2>3. CASE Len(w) # 0 /\ Len(w) # 1
      BY <2>3 DEF Single, Answered
    <2> QED BY <2>1, <2>2, <2>3
  <1>5. Matching' = S
    BY <1>4 DEF Matching, Selected, S
  <1>6. CASE asked[s].offset = NULL
    <2>1. w = Window(r, NULL, 2)
      BY <1>1, <1>2, <1>6
    <2>2. (Len(w) = 0 <=> S = {}) /\ (Len(w) = 1 <=> \E x \in S : S = {x})
      BY <1>1, <1>3, <2>1, TwoRowsSuffice
    <2>3. CASE S = {}
      BY <1>4, <1>5, <2>2, <2>3 DEF AnswerOk, UnreadBuilderReturnsAsked, OnlyCountsExactly
    <2>4. CASE S # {} /\ \E x \in S : S = {x}
      <3>1. answer'.out = "ok"
        BY <1>4, <2>2, <2>4
      <3> QED BY <1>4, <1>5, <2>4, <3>1 DEF AnswerOk, UnreadBuilderReturnsAsked, OnlyCountsExactly
    <2>5. CASE S # {} /\ ~\E x \in S : S = {x}
      <3>1. answer'.out = "NotSingularError"
        BY <1>4, <2>2, <2>5
      <3> QED BY <1>4, <1>5, <2>5, <3>1 DEF AnswerOk, UnreadBuilderReturnsAsked, OnlyCountsExactly
    <2> QED BY <2>3, <2>4, <2>5
  <1>7. CASE asked[s].offset # NULL
    BY <1>4, <1>7 DEF AnswerOk, UnreadBuilderReturnsAsked, OnlyCountsExactly
  <1> QED BY <1>6, <1>7

\* An error of the read itself says nothing about the rows.
LEMMA ErrorAnswers ==
    ASSUME answer'.out \in {"ValidationError", "ScanError"}
    PROVE  AnswerOk'
  BY DEF AnswerOk, UnreadBuilderReturnsAsked, OnlyCountsExactly

LEMMA OnlyAnswers ==
    ASSUME QueryInv, NEW s \in Slot, Only(s)
    PROVE  AnswerOk'
  <1> DEFINE c == OnlyFetched(C(s))
  <1>1. query[s] # NULL /\ table' = table
    BY DEF Only
  <1>2. c.limit = 2 /\ c.offset = ctx[s].offset
    BY <1>1, OwnContext DEF OnlyFetched, QueryContext
  <1>3. IF ~ValidColumns(c.fields) THEN Answered("Only", s, "ValidationError", <<>>)
        ELSE \E r \in Rows(query[s], c) : Single("Only", s, r, Nodes(r, c.fields))
    BY DEF Only, Outcome
  <1> HIDE DEF c
  <1>4. CASE ~ValidColumns(c.fields)
    BY <1>3, <1>4, ErrorAnswers DEF Answered
  <1>5. CASE ValidColumns(c.fields)
    <2>1. PICK r \in Rows(query[s], c) : Single("Only", s, r, Nodes(r, c.fields))
      BY <1>3, <1>5
    <2> QED BY <1>1, <1>2, <2>1, SingleAnswers
  <1> QED BY <1>4, <1>5

LEMMA OnlyIDAnswers ==
    ASSUME QueryInv, NEW s \in Slot, OnlyID(s)
    PROVE  AnswerOk'
  <1> DEFINE c == OnlyFetched(C(s))
             d == [c EXCEPT !.fields = Append(c.fields, "id")]
  <1>1. query[s] # NULL /\ table' = table
    BY DEF OnlyID
  <1>2. d.limit = 2 /\ d.offset = ctx[s].offset
    BY <1>1, OwnContext DEF OnlyFetched, QueryContext
  <1>3. IF ValidColumns(d.fields) /\ Len(d.fields) > 1
        THEN Answered("OnlyID", s, "ScanError", <<>>)
        ELSE IF ~ValidColumns(d.fields) THEN Answered("OnlyID", s, "ValidationError", <<>>)
             ELSE \E r \in Rows(query[s], d) : Single("OnlyID", s, r, Ids(r))
    BY DEF OnlyID, ScanIds, Outcome
  <1> HIDE DEF c, d
  <1>4. CASE ValidColumns(d.fields) /\ Len(d.fields) > 1
    BY <1>3, <1>4, ErrorAnswers DEF Answered
  <1>5. CASE ~ValidColumns(d.fields)
    BY <1>3, <1>5, ErrorAnswers DEF Answered
  <1>6. CASE ValidColumns(d.fields) /\ ~(Len(d.fields) > 1)
    <2>1. PICK r \in Rows(query[s], d) : Single("OnlyID", s, r, Ids(r))
      BY <1>3, <1>6
    <2> QED BY <1>1, <1>2, <2>1, SingleAnswers
  <1> QED BY <1>4, <1>5, <1>6

\* The other reads.
LEMMA OtherReads ==
    ASSUME NEW s \in Slot, First(s) \/ FirstID(s) \/ IDs(s) \/ Exist(s)
    PROVE  AnswerOk'
  <1>1. answer'.call \notin {"All", "Only", "OnlyID"}
    <2>1. CASE First(s)
      BY <2>1 DEF First, Outcome, Answered
    <2>2. CASE FirstID(s)
      BY <2>2 DEF FirstID, ScanIds, Outcome, Answered
    <2>3. CASE IDs(s)
      BY <2>3 DEF IDs, ScanIds, Outcome, Answered
    <2>4. CASE Exist(s)
      BY <2>4 DEF Exist, ScanIds, Outcome, Answered
    <2> QED BY <2>1, <2>2, <2>3, <2>4
  <1> QED BY <1>1, OtherAnswers

-----------------------------------------------------------------------------

LEMMA ReadsKeep ==
    ASSUME QueryInv, NEW s \in Slot,
           All(s) \/ First(s) \/ FirstID(s) \/ Only(s) \/ OnlyID(s) \/ IDs(s) \/ Exist(s)
    PROVE  QueryInv'
  <1>0. query[s] # NULL
    BY DEF All, First, FirstID, Only, OnlyID, IDs, Exist
  <1>1. CASE All(s)
    <2>1. ctx' = ctx
      BY <1>1 DEF All
    <2>2. SetContext(s, C(s))
      BY <1>0, <2>1, OwnContext DEF SetContext, AsAsked, QueryInv
    <2>3. C(s) \in QueryContext(focus[2]) /\ C(s).offset = ctx[s].offset
      BY <1>0, OwnContext
    <2> QED BY <1>0, <1>1, <2>2, <2>3, ReadKeeps DEF All
  <1>2. CASE First(s)
    <2> DEFINE c == [C(s) EXCEPT !.limit = 1]
    <2>1. c \in QueryContext(focus[2]) /\ c.offset = ctx[s].offset
      BY <1>0, ContextsLeft
    <2>2. /\ SetContext(s, c) /\ asked' = [asked EXCEPT ![s].read = TRUE]
          /\ UNCHANGED <<focus, table, query>>
      BY <1>2 DEF First
    <2> HIDE DEF c
    <2> QED BY <1>0, <2>1, <2>2, ReadKeeps
  <1>3. CASE Only(s)
    <2> DEFINE c == [C(s) EXCEPT !.limit = 2]
    <2>1. c \in QueryContext(focus[2]) /\ c.offset = ctx[s].offset
      BY <1>0, ContextsLeft
    <2>2. /\ SetContext(s, c) /\ asked' = [asked EXCEPT ![s].read = TRUE]
          /\ UNCHANGED <<focus, table, query>>
      BY <1>3 DEF Only, OnlyFetched
    <2> HIDE DEF c
    <2> QED BY <1>0, <2>1, <2>2, ReadKeeps
  <1>4. CASE IDs(s)
    <2> DEFINE c == [C(s) EXCEPT !.fields = Append(@, "id")]
    <2>1. c \in QueryContext(focus[2]) /\ c.offset = ctx[s].offset
      BY <1>0, ContextsLeft
    <2>2. /\ SetContext(s, c) /\ asked' = [asked EXCEPT ![s].read = TRUE]
          /\ UNCHANGED <<focus, table, query>>
      BY <1>4 DEF IDs, ScanIds
    <2> HIDE DEF c
    <2> QED BY <1>0, <2>1, <2>2, ReadKeeps
  <1>5. CASE FirstID(s) \/ Exist(s)
    <2> DEFINE c == [[C(s) EXCEPT !.limit = 1] EXCEPT !.fields = Append(@, "id")]
    <2>1. c \in QueryContext(focus[2]) /\ c.offset = ctx[s].offset
      BY <1>0, ContextsLeft
    <2>2. /\ SetContext(s, c) /\ asked' = [asked EXCEPT ![s].read = TRUE]
          /\ UNCHANGED <<focus, table, query>>
      BY <1>5 DEF FirstID, Exist, ScanIds
    <2> HIDE DEF c
    <2> QED BY <1>0, <2>1, <2>2, ReadKeeps
  <1>6. CASE OnlyID(s)
    <2> DEFINE c == [[C(s) EXCEPT !.limit = 2] EXCEPT !.fields = Append(@, "id")]
    <2>1. c \in QueryContext(focus[2]) /\ c.offset = ctx[s].offset
      BY <1>0, ContextsLeft
    <2>2. /\ SetContext(s, c) /\ asked' = [asked EXCEPT ![s].read = TRUE]
          /\ UNCHANGED <<focus, table, query>>
      BY <1>6 DEF OnlyID, ScanIds, OnlyFetched
    <2> HIDE DEF c
    <2> QED BY <1>0, <2>1, <2>2, ReadKeeps
  <1> QED BY <1>1, <1>2, <1>3, <1>4, <1>5, <1>6

LEMMA QueryStepKeeps ==
    ASSUME QueryInv, QueryStep
    PROVE  QueryInv' /\ AnswerOk'
  <1>1. ASSUME NEW s \in Slot, NEW p, Where(s, p) PROVE QueryInv' /\ AnswerOk'
    <2>1. answer' = NULL
      BY <1>1 DEF Where
    <2> QED BY <1>1, <2>1, WhereKeeps, OtherAnswers
  <1>2. ASSUME NEW s \in Slot, Limit(s, 1) PROVE QueryInv' /\ AnswerOk'
    <2>1. answer' = NULL /\ 1 \in Nat
      BY <1>2 DEF Limit
    <2> QED BY <1>2, <2>1, LimitKeeps, OtherAnswers
  <1>3. ASSUME NEW s \in Slot, Offset(s, 1) PROVE QueryInv' /\ AnswerOk'
    <2>1. answer' = NULL /\ 1 \in Nat
      BY <1>3 DEF Offset
    <2> QED BY <1>3, <2>1, OffsetKeeps, OtherAnswers
  <1>4. ASSUME NEW s \in Slot, NEW dir, Order(s, dir) PROVE QueryInv' /\ AnswerOk'
    <2>1. answer' = NULL
      BY <1>4 DEF Order
    <2> QED BY <1>4, <2>1, OrderKeeps, OtherAnswers
  <1>5. ASSUME NEW s \in Slot, NEW f \in {focus[2], "no_such_column"}, Select(s, f)
        PROVE  QueryInv' /\ AnswerOk'
    <2>1. answer' = NULL
      BY <1>5 DEF Select
    <2> QED BY <1>5, <2>1, SelectKeeps, OtherAnswers
  <1>6. ASSUME NEW s \in Slot,
               All(s) \/ First(s) \/ FirstID(s) \/ Only(s) \/ OnlyID(s) \/ IDs(s) \/ Exist(s)
        PROVE  QueryInv' /\ AnswerOk'
    <2>1. QueryInv'
      BY <1>6, ReadsKeep
    <2>2. AnswerOk'
      BY <1>6, AllAnswers, OnlyAnswers, OnlyIDAnswers, OtherReads
    <2> QED BY <2>1, <2>2
  <1>7. ASSUME NEW s \in Slot, NEW t \in Slot, Clone(s, t) PROVE QueryInv' /\ AnswerOk'
    <2>1. answer' = NULL
      BY <1>7 DEF Clone
    <2> QED BY <1>7, <2>1, CloneKeeps, OtherAnswers
  <1>8. CASE Delete \/ DeleteOneID(1)
    <2>1. answer' = NULL
      BY <1>8 DEF Delete, DeleteOneID
    <2>2. QueryInv'
      BY <1>8, DeleteKeeps DEF Delete, DeleteOneID
    <2> QED BY <2>1, <2>2, OtherAnswers
  <1> QED BY <1>1, <1>2, <1>3, <1>4, <1>5, <1>6, <1>7, <1>8 DEF QueryStep

LEMMA QueryInductive ==
    /\ Init => QueryInv /\ AnswerOk
    /\ (QueryInv /\ AnswerOk) /\ [Next]_vars => (QueryInv /\ AnswerOk)'
  <1>1. ASSUME Init PROVE QueryInv /\ AnswerOk
    <2>1. answer = NULL
      BY <1>1 DEF Init, NoQuery, QueryInit
    <2>2. AnswerOk
      BY <2>1 DEF AnswerOk, UnreadBuilderReturnsAsked, OnlyCountsExactly
    <2> QED BY <1>1, <2>2, QueryInvNone, QueryInvInit DEF Init
  <1>2. ASSUME QueryInv, AnswerOk, [Next]_vars PROVE QueryInv' /\ AnswerOk'
    <2>1. CASE QueryStep
      BY <1>2, <2>1, QueryStepKeeps
    <2>2. CASE UNCHANGED queryVars
      <3>1. QueryInv'
        BY <1>2, <2>2 DEF queryVars, QueryInv, AsAsked
      <3>2. AnswerOk'
        BY <1>2, <2>2 DEF queryVars, AnswerOk, UnreadBuilderReturnsAsked, OnlyCountsExactly,
                          Matching, Empty
      <3> QED BY <3>1, <3>2
    <2> QED BY <1>2, <2>1, <2>2 DEF Next, vars
  <1> QED BY <1>1, <1>2

\* All returns what was asked of a builder no read ran on, for any number
\* of builders and calls: a clone shares nothing with its original.
THEOREM UnreadReturnsAsked == Spec => []UnreadBuilderReturnsAsked
  <1>1. AnswerOk => UnreadBuilderReturnsAsked
    BY DEF AnswerOk
  <1> QED BY <1>1, QueryInductive, PTL DEF Spec

\* Only and OnlyID tell no row, one row and several apart, whatever limit
\* earlier calls left in the builder.
THEOREM OnlyCounts == Spec => []OnlyCountsExactly
  <1>1. AnswerOk => OnlyCountsExactly
    BY DEF AnswerOk
  <1> QED BY <1>1, QueryInductive, PTL DEF Spec

-----------------------------------------------------------------------------
(***************************************************************************)
(* The create and update builders.  First, how the positions that the      *)
(* properties read off a log move when a call is added to it.              *)
(***************************************************************************)

Kinds == Setters \cup {"add", "clear", "reset"}

\* The calls a builder of entity e is given: no setter but a nillable one
\* has a nil argument, and amounts are numbers.
BuilderCall(e) ==
    {c \in [call : Kinds, field : Fields(e), arg : Int \cup Words \cup {NULL}] :
        /\ c.call \in {"set", "named"} => c.arg # NULL
        /\ c.call = "add" /\ FieldKinds[e][c.field].numeric => c.arg \in Int}

IsLog(b) == b.calls \in Seq(BuilderCall(b.entity))

\* Log d is log b with one more call.
Extended(d, b, c) ==
    d.entity = b.entity /\ d.op = b.op /\ d.calls = Append(b.calls, c)

\* Call c is on f, of one of these kinds, and does something.
Counts(e, c, f, kinds) ==
    /\ c.field = f /\ c.call \in kinds
    /\ c.call = "nillable" => c.arg # NULL
    /\ c.call = "add"   => FieldKinds[e][f].numeric
    /\ c.call = "clear" => FieldKinds[e][f].optional

LEMMA OnRange ==
    ASSUME NEW b, IsLog(b), NEW f, NEW K, NEW k
    PROVE  /\ Len(b.calls) \in Nat /\ DOMAIN b.calls = 1..Len(b.calls)
           /\ On(b, f, K, k) =
                {i \in 1..Len(b.calls) : i > k /\ Counts(b.entity, b.calls[i], f, K)}
           /\ On(b, f, K, k) \subseteq 1..Len(b.calls)
  <1>1. Len(b.calls) \in Nat /\ DOMAIN b.calls = 1..Len(b.calls)
    BY LenProperties DEF IsLog
  <1> QED BY <1>1 DEF On, Counts

LEMMA OnAppend ==
    ASSUME NEW b, IsLog(b), NEW c \in BuilderCall(b.entity), NEW d, Extended(d, b, c),
           NEW f, NEW K, NEW k \in 0..Len(b.calls)
    PROVE  On(d, f, K, k) = IF Counts(b.entity, c, f, K)
                            THEN On(b, f, K, k) \cup {Len(b.calls) + 1} ELSE On(b, f, K, k)
  <1> DEFINE n == Len(b.calls)
  <1>1. /\ n \in Nat /\ DOMAIN b.calls = 1..n /\ Len(d.calls) = n + 1
        /\ \A i \in 1..n : d.calls[i] = b.calls[i]
        /\ d.calls[n + 1] = c /\ IsLog(d) /\ d.entity = b.entity
    BY AppendProperties, LenProperties DEF IsLog, Extended
  <1> HIDE DEF n
  <1>2. On(d, f, K, k) = {i \in 1..(n + 1) : i > k /\ Counts(b.entity, d.calls[i], f, K)}
    BY <1>1, OnRange
  <1>3. On(b, f, K, k) = {i \in 1..n : i > k /\ Counts(b.entity, b.calls[i], f, K)}
    BY OnRange DEF n
  <1>4. 1..(n + 1) = 1..n \cup {n + 1} /\ k \in Int /\ n + 1 > k
    BY <1>1 DEF n
  <1>5. \A i \in 1..n : Counts(b.entity, d.calls[i], f, K) <=> Counts(b.entity, b.calls[i], f, K)
    BY <1>1
  <1>6. Counts(b.entity, d.calls[n + 1], f, K) <=> Counts(b.entity, c, f, K)
    BY <1>1
  <1> HIDE DEF Counts
  <1>7. On(d, f, K, k) = {i \in 1..n : i > k /\ Counts(b.entity, d.calls[i], f, K)}
                          \cup {i \in {n + 1} : Counts(b.entity, d.calls[i], f, K)}
    BY <1>2, <1>4
  <1>8. {i \in 1..n : i > k /\ Counts(b.entity, d.calls[i], f, K)} = On(b, f, K, k)
    BY <1>3, <1>5
  <1>9. {i \in {n + 1} : Counts(b.entity, d.calls[i], f, K)} =
            IF Counts(b.entity, c, f, K) THEN {n + 1} ELSE {}
    BY <1>6
  <1> QED BY <1>7, <1>8, <1>9 DEF n

\* Nothing comes after the last position.
LEMMA OnNone ==
    ASSUME NEW b, IsLog(b), NEW f, NEW K, NEW k \in Nat, k >= Len(b.calls)
    PROVE  On(b, f, K, k) = {}
  <1>1. Len(b.calls) \in Nat /\ \A i \in On(b, f, K, k) : i \in 1..Len(b.calls) /\ i > k
    BY OnRange
  <1> QED BY <1>1

LEMMA LastOfRange ==
    ASSUME NEW n \in Nat, NEW S, S \subseteq 1..n
    PROVE  /\ LastOf(S) \in 0..n
           /\ LastOf(S) = 0 <=> S = {}
           /\ S # {} => LastOf(S) \in S
           /\ LastOf(S \cup {n + 1}) = n + 1
  <1>1. LastOf(S \cup {n + 1}) = n + 1
    <2> DEFINE T == S \cup {n + 1}
    <2>1. n + 1 \in T /\ T # {} /\ \A y \in T : y \in Int /\ n + 1 >= y
      OBVIOUS
    <2> HIDE DEF T
    <2>2. \E x \in T : \A y \in T : x >= y
      BY <2>1
    <2>3. Max(T) \in T /\ \A y \in T : Max(T) >= y
      BY <2>2 DEF Max
    <2>4. Max(T) = n + 1
      BY <2>1, <2>3
    <2> QED BY <2>1, <2>4 DEF LastOf, T
  <1>2. CASE S = {}
    BY <1>1, <1>2 DEF LastOf
  <1>3. CASE S # {}
    <2>1. \E x \in S : \A y \in S : y <= x
      <3>1. S \subseteq Nat /\ \A x \in S : x <= n
        OBVIOUS
      <3> QED BY <1>3, <3>1, GreatestNatural
    <2>2. \E x \in S : \A y \in S : x >= y
      BY <2>1
    <2>3. LastOf(S) \in S
      BY <1>3, <2>2 DEF LastOf, Max
    <2>4. LastOf(S) \in 1..n
      BY <2>3
    <2>5. LastOf(S) \in 0..n /\ LastOf(S) # 0
      BY <2>4
    <2> QED BY <1>1, <1>3, <2>3, <2>5
  <1> QED BY <1>2, <1>3

\* The last call of some kinds on f: the new one if it counts.
LEMMA LastAppend ==
    ASSUME NEW b, IsLog(b), NEW c \in BuilderCall(b.entity), NEW d, Extended(d, b, c),
           NEW f, NEW K, NEW k \in 0..Len(b.calls)
    PROVE  LastOf(On(d, f, K, k)) = IF Counts(b.entity, c, f, K)
                                    THEN Len(b.calls) + 1 ELSE LastOf(On(b, f, K, k))
  <1>1. Len(b.calls) \in Nat /\ On(b, f, K, k) \subseteq 1..Len(b.calls)
    BY OnRange
  <1>2. LastOf(On(b, f, K, k) \cup {Len(b.calls) + 1}) = Len(b.calls) + 1
    BY <1>1, LastOfRange
  <1>3. On(d, f, K, k) = IF Counts(b.entity, c, f, K)
                         THEN On(b, f, K, k) \cup {Len(b.calls) + 1} ELSE On(b, f, K, k)
    BY OnAppend
  <1>4. CASE Counts(b.entity, c, f, K)
    <2>1. On(d, f, K, k) = On(b, f, K, k) \cup {Len(b.calls) + 1}
      BY <1>3, <1>4
    <2> QED BY <1>2, <1>4, <2>1
  <1>5. CASE ~Counts(b.entity, c, f, K)
    <2>1. On(d, f, K, k) = On(b, f, K, k)
      BY <1>3, <1>5
    <2> QED BY <1>5, <2>1
  <1> QED BY <1>4, <1>5

\* Where the last word on f is counted from: its last setter, or else its
\* clear, or else its start.
Since(b, f) == IF LastSet(b, f) > 0 THEN LastSet(b, f)
               ELSE IF Cleared(b, f) > 0 THEN Cleared(b, f) ELSE Start(b, f)

LEMMA PositionsRange ==
    ASSUME NEW b, IsLog(b), NEW f
    PROVE  LET n == Len(b.calls)
           IN  /\ n \in Nat /\ Start(b, f) \in 0..n /\ Cleared(b, f) \in 0..n
               /\ LastSet(b, f) \in 0..n /\ Since(b, f) \in 0..n
               /\ LastOf(On(b, f, {"reset"}, 0)) \in 0..n
               /\ LastOf(On(b, f, {"set", "nillable"}, 0)) \in 0..n
               /\ LastSet(b, f) > 0 => Counts(b.entity, b.calls[LastSet(b, f)], f, Setters)
  <1> DEFINE n == Len(b.calls)
  <1>1. n \in Nat /\ \A K, k : On(b, f, K, k) \subseteq 1..n
    BY OnRange
  <1> HIDE DEF n
  <1>2. \A K, k : LastOf(On(b, f, K, k)) \in 0..n
    BY <1>1, LastOfRange
  <1>3. Start(b, f) \in 0..n
    BY <1>1, <1>2 DEF Start
  <1>4. Cleared(b, f) \in 0..n /\ LastSet(b, f) \in 0..n
    BY <1>2 DEF Cleared, LastSet
  <1>5. LastSet(b, f) > 0 => Counts(b.entity, b.calls[LastSet(b, f)], f, Setters)
    <2> DEFINE k == IF Cleared(b, f) > 0 THEN Cleared(b, f) ELSE Start(b, f)
    <2>1. LastSet(b, f) = LastOf(On(b, f, Setters, k))
      BY DEF LastSet
    <2> HIDE DEF k
    <2>2. PICK S : S = On(b, f, Setters, k)
      OBVIOUS
    <2>3. S \subseteq 1..n /\ LastSet(b, f) = LastOf(S)
      BY <1>1, <2>1, <2>2
    <2>4. LastSet(b, f) # 0 => LastSet(b, f) \in S
      BY <1>1, <2>3, LastOfRange
    <2>5. LastSet(b, f) > 0 => LastSet(b, f) \in S
      BY <1>4, <2>4
    <2> QED BY <2>2, <2>5, OnRange
  <1> QED BY <1>1, <1>2, <1>3, <1>4, <1>5 DEF Since, n

\* What one more call does to the start: a reset moves it to the call, a
\* setter that resets to just before it.
Whole(b, f) == b.op # "create" /\ FieldKinds[b.entity][f].numeric

LEMMA StartAppend ==
    ASSUME NEW b, IsLog(b), NEW c \in BuilderCall(b.entity), NEW d, Extended(d, b, c), NEW f
    PROVE  Start(d, f) =
             IF Counts(b.entity, c, f, {"reset"}) THEN Len(b.calls) + 1
             ELSE IF Whole(b, f) /\ Counts(b.entity, c, f, {"set", "nillable"}) THEN Len(b.calls)
             ELSE Start(b, f)
  <1> DEFINE n == Len(b.calls)
             reset(x) == LastOf(On(x, f, {"reset"}, 0))
             setter(x) == LastOf(On(x, f, {"set", "nillable"}, 0))
             R == Counts(b.entity, c, f, {"reset"})
             W == Counts(b.entity, c, f, {"set", "nillable"})
  <1>1. n \in Nat /\ 0 \in 0..n /\ reset(b) \in 0..n /\ setter(b) \in 0..n
    BY PositionsRange
  <1>2. reset(d) = IF R THEN n + 1 ELSE reset(b)
    BY <1>1, LastAppend
  <1>3. setter(d) = IF W THEN n + 1 ELSE setter(b)
    BY <1>1, LastAppend
  <1>4. ~(R /\ W)
    BY DEF Counts
  <1>5. d.entity = b.entity /\ d.op = b.op
    BY DEF Extended
  <1> DEFINE whole(x) == IF Whole(b, f) THEN setter(x) ELSE 0
  <1>6. /\ Start(d, f) = IF whole(d) > reset(d) THEN whole(d) - 1 ELSE reset(d)
        /\ Start(b, f) = IF whole(b) > reset(b) THEN whole(b) - 1 ELSE reset(b)
    BY <1>5 DEF Start, Whole
  <1> HIDE DEF n, reset, setter, R, W
  <1>7. Start(d, f) = IF R THEN n + 1 ELSE IF Whole(b, f) /\ W THEN n ELSE Start(b, f)
    <2>1. CASE R
      <3>1. reset(d) = n + 1 /\ setter(d) = setter(b)
        BY <1>2, <1>3, <1>4, <2>1
      <3> QED BY <1>1, <1>6, <2>1, <3>1
    <2>2. CASE ~R /\ Whole(b, f) /\ W
      <3>1. reset(d) = reset(b) /\ whole(d) = n + 1
        BY <1>2, <1>3, <2>2
      <3> QED BY <1>1, <1>6, <2>2, <3>1
    <2>3. CASE ~R /\ ~(Whole(b, f) /\ W)
      <3>1. reset(d) = reset(b) /\ whole(d) = whole(b)
        BY <1>2, <1>3, <2>3
      <3> QED BY <1>6, <2>3, <3>1
    <2> QED BY <2>1, <2>2, <2>3
  <1> QED BY <1>7 DEF n, R, W

\* A call on another field, or one without effect.
LEMMA IdleCall ==
    ASSUME NEW b, IsLog(b), NEW c \in BuilderCall(b.entity), NEW d, Extended(d, b, c), NEW f,
           ~Counts(b.entity, c, f, Kinds)
    PROVE  /\ Start(d, f) = Start(b, f) /\ Cleared(d, f) = Cleared(b, f)
           /\ LastSet(d, f) = LastSet(b, f) /\ Since(d, f) = Since(b, f)
           /\ \A k \in 0..Len(b.calls) : AddsFrom(d, f, k) = AddsFrom(b, f, k)
  <1>1. \A K \in SUBSET Kinds : ~Counts(b.entity, c, f, K)
    BY DEF Counts
  <1>2. /\ {"reset"} \in SUBSET Kinds /\ {"set", "nillable"} \in SUBSET Kinds
        /\ {"clear"} \in SUBSET Kinds /\ Setters \in SUBSET Kinds /\ {"add"} \in SUBSET Kinds
    BY DEF Kinds, Setters
  <1>3. Start(d, f) = Start(b, f)
    BY <1>1, <1>2, StartAppend
  <1>4. Start(b, f) \in 0..Len(b.calls) /\ Cleared(b, f) \in 0..Len(b.calls)
    BY PositionsRange
  <1>5. Cleared(d, f) = Cleared(b, f)
    BY <1>1, <1>2, <1>3, <1>4, LastAppend DEF Cleared
  <1>6. LastSet(d, f) = LastSet(b, f)
    <2>1. PICK k : k = IF Cleared(b, f) > 0 THEN Cleared(b, f) ELSE Start(b, f)
      OBVIOUS
    <2>2. LastSet(d, f) = LastOf(On(d, f, Setters, k)) /\ LastSet(b, f) = LastOf(On(b, f, Setters, k))
      BY <1>3, <1>5, <2>1 DEF LastSet
    <2>3. k \in 0..Len(b.calls)
      BY <1>4, <2>1
    <2>4. LastOf(On(d, f, Setters, k)) = LastOf(On(b, f, Setters, k))
      BY <1>1, <1>2, <2>3, LastAppend
    <2> QED BY <2>2, <2>4
  <1>7. \A k \in 0..Len(b.calls) : AddsFrom(d, f, k) = AddsFrom(b, f, k)
    <2> TAKE k \in 0..Len(b.calls)
    <2>1. ~Counts(b.entity, c, f, {"add"})
      BY <1>1, <1>2
    <2>2. On(d, f, {"add"}, k) = On(b, f, {"add"}, k)
      BY <2>1, OnAppend
    <2> QED BY <2>2 DEF AddsFrom
  <1> QED BY <1>3, <1>5, <1>6, <1>7 DEF Since

\* After a call at the end nothing has been added.
LEMMA NothingAfter ==
    ASSUME NEW b, IsLog(b), NEW c \in BuilderCall(b.entity), NEW d, Extended(d, b, c), NEW f
    PROVE  /\ IsLog(d) /\ Len(d.calls) = Len(b.calls) + 1 /\ Len(b.calls) \in Nat
           /\ \A K : On(d, f, K, Len(b.calls) + 1) = {}
           /\ \A K : LastOf(On(d, f, K, Len(b.calls) + 1)) = 0
  <1>1. IsLog(d) /\ Len(d.calls) = Len(b.calls) + 1 /\ Len(b.calls) \in Nat
    BY AppendProperties, LenProperties DEF IsLog, Extended
  <1>2. Len(b.calls) + 1 \in Nat /\ Len(b.calls) + 1 >= Len(d.calls)
    BY <1>1
  <1>3. \A K : On(d, f, K, Len(b.calls) + 1) = {}
    BY <1>1, <1>2, OnNone
  <1> QED BY <1>1, <1>3 DEF LastOf

LEMMA ResetCall ==
    ASSUME NEW b, IsLog(b), NEW c \in BuilderCall(b.entity), NEW d, Extended(d, b, c), NEW f,
           Counts(b.entity, c, f, {"reset"})
    PROVE  /\ Cleared(d, f) = 0 /\ LastSet(d, f) = 0 /\ Since(d, f) = Len(b.calls) + 1
  <1>1. Start(d, f) = Len(b.calls) + 1
    BY StartAppend
  <1>2. Cleared(d, f) = 0
    BY <1>1, NothingAfter DEF Cleared
  <1>3. LastSet(d, f) = 0
    <2>1. LastSet(d, f) = LastOf(On(d, f, Setters, Len(b.calls) + 1))
      BY <1>1, <1>2 DEF LastSet
    <2> QED BY <2>1, NothingAfter
  <1> QED BY <1>1, <1>2, <1>3 DEF Since

LEMMA ClearCall ==
    ASSUME NEW b, IsLog(b), NEW c \in BuilderCall(b.entity), NEW d, Extended(d, b, c), NEW f,
           Counts(b.entity, c, f, {"clear"})
    PROVE  /\ Cleared(d, f) = Len(b.calls) + 1 /\ LastSet(d, f) = 0
           /\ Since(d, f) = Len(b.calls) + 1
  <1>0. Len(b.calls) \in Nat /\ Start(b, f) \in 0..Len(b.calls)
    BY PositionsRange
  <1>1. Start(d, f) = Start(b, f)
    <2>1. ~Counts(b.entity, c, f, {"reset"}) /\ ~Counts(b.entity, c, f, {"set", "nillable"})
      BY DEF Counts
    <2> QED BY <2>1, StartAppend
  <1>2. Cleared(d, f) = Len(b.calls) + 1
    BY <1>0, <1>1, LastAppend DEF Cleared
  <1>3. LastSet(d, f) = 0
    <2>1. LastSet(d, f) = LastOf(On(d, f, Setters, Len(b.calls) + 1))
      BY <1>0, <1>2 DEF LastSet
    <2> QED BY <2>1, NothingAfter
  <1> QED BY <1>0, <1>2, <1>3 DEF Since

LEMMA WholeCall ==
    ASSUME NEW b, IsLog(b), NEW c \in BuilderCall(b.entity), NEW d, Extended(d, b, c), NEW f,
           Whole(b, f), Counts(b.entity, c, f, {"set", "nillable"})
    PROVE  /\ Cleared(d, f) = 0 /\ LastSet(d, f) = Len(b.calls) + 1
           /\ Since(d, f) = Len(b.calls) + 1
  <1> DEFINE n == Len(b.calls)
  <1>0. n \in Nat /\ n \in 0..n
    BY PositionsRange
  <1>1. Start(d, f) = n
    <2>1. ~Counts(b.entity, c, f, {"reset"})
      BY DEF Counts
    <2> QED BY <2>1, StartAppend
  <1>2. Cleared(d, f) = 0
    <2>1. ~Counts(b.entity, c, f, {"clear"})
      BY DEF Counts
    <2>2. On(b, f, {"clear"}, n) = {}
      BY <1>0, OnNone
    <2>3. LastOf(On(d, f, {"clear"}, n)) = LastOf(On(b, f, {"clear"}, n))
      BY <1>0, <2>1, LastAppend
    <2> QED BY <1>1, <2>2, <2>3 DEF Cleared, LastOf
  <1>3. LastSet(d, f) = n + 1
    <2>1. Counts(b.entity, c, f, Setters)
      BY DEF Counts, Setters
    <2>2. LastSet(d, f) = LastOf(On(d, f, Setters, n))
      BY <1>1, <1>2 DEF LastSet
    <2> QED BY <1>0, <2>1, <2>2, LastAppend
  <1> QED BY <1>0, <1>2, <1>3 DEF Since

LEMMA SetCall ==
    ASSUME NEW b, IsLog(b), NEW c \in BuilderCall(b.entity), NEW d, Extended(d, b, c), NEW f,
           Counts(b.entity, c, f, Setters),
           ~(Whole(b, f) /\ Counts(b.entity, c, f, {"set", "nillable"}))
    PROVE  /\ Cleared(d, f) = Cleared(b, f) /\ LastSet(d, f) = Len(b.calls) + 1
           /\ Since(d, f) = Len(b.calls) + 1
  <1> DEFINE n == Len(b.calls)
  <1>0. n \in Nat /\ Start(b, f) \in 0..n /\ Cleared(b, f) \in 0..n
    BY PositionsRange
  <1>1. Start(d, f) = Start(b, f)
    <2>1. ~Counts(b.entity, c, f, {"reset"})
      BY DEF Counts, Setters
    <2> QED BY <2>1, StartAppend
  <1>2. Cleared(d, f) = Cleared(b, f)
    <2>1. ~Counts(b.entity, c, f, {"clear"})
      BY DEF Counts, Setters
    <2> QED BY <1>0, <1>1, <2>1, LastAppend DEF Cleared
  <1>3. LastSet(d, f) = n + 1
    <2>1. PICK k : k = IF Cleared(b, f) > 0 THEN Cleared(b, f) ELSE Start(b, f)
      OBVIOUS
    <2>2. LastSet(d, f) = LastOf(On(d, f, Setters, k))
      BY <1>1, <1>2, <2>1 DEF LastSet
    <2>3. k \in 0..n
      BY <1>0, <2>1
    <2> QED BY <2>2, <2>3, LastAppend
  <1> QED BY <1>0, <1>2, <1>3 DEF Since

LEMMA AddCall ==
    ASSUME NEW b, IsLog(b), NEW c \in BuilderCall(b.entity), NEW d, Extended(d, b, c), NEW f,
           Counts(b.entity, c, f, {"add"})
    PROVE  /\ Cleared(d, f) = Cleared(b, f) /\ LastSet(d, f) = LastSet(b, f)
           /\ Since(d, f) = Since(b, f)
           /\ \A k \in 0..Len(b.calls) : AddsFrom(d, f, k) # {}
  <1> DEFINE n == Len(b.calls)
  <1>0. n \in Nat /\ Start(b, f) \in 0..n /\ Cleared(b, f) \in 0..n
    BY PositionsRange
  <1>1. Start(d, f) = Start(b, f)
    <2>1. ~Counts(b.entity, c, f, {"reset"}) /\ ~Counts(b.entity, c, f, {"set", "nillable"})
      BY DEF Counts
    <2> QED BY <2>1, StartAppend
  <1>2. Cleared(d, f) = Cleared(b, f)
    <2>1. ~Counts(b.entity, c, f, {"clear"})
      BY DEF Counts
    <2> QED BY <1>0, <1>1, <2>1, LastAppend DEF Cleared
  <1>3. LastSet(d, f) = LastSet(b, f)
    <2>1. PICK k : k = IF Cleared(b, f) > 0 THEN Cleared(b, f) ELSE Start(b, f)
      OBVIOUS
    <2>2. LastSet(d, f) = LastOf(On(d, f, Setters, k)) /\ LastSet(b, f) = LastOf(On(b, f, Setters, k))
      BY <1>1, <1>2, <2>1 DEF LastSet
    <2>3. k \in 0..n
      BY <1>0, <2>1
    <2>4. ~Counts(b.entity, c, f, Setters)
      BY DEF Counts, Setters
    <2> QED BY <2>2, <2>3, <2>4, LastAppend
  <1>4. \A k \in 0..n : AddsFrom(d, f, k) # {}
    <2> TAKE k \in 0..n
    <2>1. AddsFrom(d, f, k) = AddsFrom(b, f, k) \cup {n + 1}
      BY OnAppend DEF AddsFrom
    <2> QED BY <2>1
  <1> QED BY <1>1, <1>2, <1>3, <1>4 DEF Since

-----------------------------------------------------------------------------
(***************************************************************************)
(* The amounts added                                                       *)
(***************************************************************************)

LEMMA TotalUnfolds ==
    ASSUME NEW t \in [Nat -> Int]
    PROVE  /\ Total(t)[0] = 0
           /\ \A n \in Nat : Total(t)[n] \in Int /\ Total(t)[n + 1] = Total(t)[n] + t[n + 1]
  <1> DEFINE step == [n \in Nat |-> [x \in Int |-> x + t[n]]]
             Def(g) == g = [i \in Nat |-> IF i = 0 THEN 0 ELSE g[i - 1] + t[i]]
  <1>1. PICK g \in [Nat -> Int] : Recursive(g, 0, step)
    <2>1. 0 \in Int /\ step \in Steps(Int)
      BY DEF Steps
    <2> HIDE DEF step
    <2> QED BY Zenon, <2>1, Recursion
  <1>2. \A n \in Nat : g[n + 1] = g[n] + t[n + 1]
    <2> TAKE n \in Nat
    <2>1. g[n] \in Int /\ n + 1 \in Nat
      OBVIOUS
    <2>2. step[n + 1][g[n]] = g[n] + t[n + 1]
      BY <2>1
    <2> HIDE DEF step
    <2> QED BY <1>1, <2>2 DEF Recursive
  <1>3. Def(g)
    <2>1. \A n \in Nat : g[n] = IF n = 0 THEN 0 ELSE g[n - 1] + t[n]
      <3> TAKE n \in Nat
      <3>1. CASE n = 0
        BY <1>1, <3>1 DEF Recursive
      <3>2. CASE n # 0
        <4>1. n - 1 \in Nat /\ (n - 1) + 1 = n
          BY <3>2
        <4>2. g[(n - 1) + 1] = g[n - 1] + t[(n - 1) + 1]
          BY <1>2, <4>1
        <4> QED BY <3>2, <4>1, <4>2
      <3> QED BY <3>1, <3>2
    <2> QED BY <1>1, <2>1
  <1> DEFINE T == Total(t)
  <1>4. T = CHOOSE h : Def(h)
    BY DEF Total
  <1> HIDE DEF T
  <1>5. Def(T)
    <2> HIDE DEF Def
    <2> QED BY <1>3, <1>4
  <1>6. T[0] = 0 /\ \A n \in Nat : T[n + 1] = T[n] + t[n + 1]
    <2>1. \A n \in Nat : T[n] = IF n = 0 THEN 0 ELSE T[n - 1] + t[n]
      BY <1>5
    <2>2. \A n \in Nat : n + 1 \in Nat /\ n + 1 # 0 /\ (n + 1) - 1 = n
      OBVIOUS
    <2> QED BY <2>1, <2>2
  <1> DEFINE N == {n \in Nat : T[n] \in Int}
  <1>7. \A n \in Nat : n \in N
    <2>1. 0 \in N
      BY <1>6
    <2>2. \A n \in Nat : n \in N => n + 1 \in N
      BY <1>6
    <2> HIDE DEF N
    <2> QED BY <2>1, <2>2, Induction
  <1> QED BY <1>6, <1>7 DEF T

\* A sum only depends on the numbers summed.
LEMMA TotalAgrees ==
    ASSUME NEW t \in [Nat -> Int], NEW u \in [Nat -> Int], NEW n \in Nat,
           \A i \in 1..n : t[i] = u[i]
    PROVE  Total(t)[n] = Total(u)[n]
  <1> DEFINE N == {i \in Nat : i <= n => Total(t)[i] = Total(u)[i]}
  <1>1. 0 \in N
    BY TotalUnfolds
  <1>2. ASSUME NEW i \in Nat, i \in N PROVE i + 1 \in N
    <2> SUFFICES ASSUME i + 1 <= n PROVE Total(t)[i + 1] = Total(u)[i + 1]
      OBVIOUS
    <2>1. i <= n /\ i + 1 \in 1..n
      OBVIOUS
    <2>2. Total(t)[i] = Total(u)[i] /\ t[i + 1] = u[i + 1]
      BY <1>2, <2>1
    <2>3. Total(t)[i + 1] = Total(t)[i] + t[i + 1] /\ Total(u)[i + 1] = Total(u)[i] + u[i + 1]
      BY TotalUnfolds
    <2> QED BY <2>2, <2>3
  <1>3. n \in N
    <2> HIDE DEF N
    <2> QED BY <1>1, <1>2, Induction
  <1> QED BY <1>3

LEMMA TotalOfZeros ==
    ASSUME NEW t \in [Nat -> Int], NEW n \in Nat, \A i \in 1..n : t[i] = 0
    PROVE  Total(t)[n] = 0
  <1> DEFINE N == {i \in Nat : i <= n => Total(t)[i] = 0}
  <1>1. 0 \in N
    BY TotalUnfolds
  <1>2. ASSUME NEW i \in Nat, i \in N PROVE i + 1 \in N
    <2> SUFFICES ASSUME i + 1 <= n PROVE Total(t)[i + 1] = 0
      OBVIOUS
    <2>1. i <= n /\ i + 1 \in 1..n
      OBVIOUS
    <2>2. Total(t)[i] = 0 /\ t[i + 1] = 0
      BY <1>2, <2>1
    <2>3. Total(t)[i + 1] = Total(t)[i] + t[i + 1]
      BY TotalUnfolds
    <2> QED BY <2>2, <2>3
  <1>3. n \in N
    <2> HIDE DEF N
    <2> QED BY <1>1, <1>2, Induction
  <1> QED BY <1>3

Amounts(b, f, k) == [i \in Nat |-> IF i \in AddsFrom(b, f, k) THEN b.calls[i].arg ELSE 0]

LEMMA AmountsAreNumbers ==
    ASSUME NEW b, IsLog(b), NEW f, NEW k
    PROVE  /\ Amounts(b, f, k) \in [Nat -> Int]
           /\ Added(b, f, k) = Total(Amounts(b, f, k))[Len(b.calls)]
           /\ Added(b, f, k) \in Int
  <1>1. ASSUME NEW i \in AddsFrom(b, f, k) PROVE b.calls[i].arg \in Int
    <2>1. i \in 1..Len(b.calls) /\ Counts(b.entity, b.calls[i], f, {"add"})
      BY OnRange DEF AddsFrom
    <2>2. b.calls[i] \in BuilderCall(b.entity)
      BY <2>1, LenProperties DEF IsLog
    <2> QED BY <2>1, <2>2 DEF Counts, BuilderCall
  <1>2. Amounts(b, f, k) \in [Nat -> Int]
    BY <1>1 DEF Amounts
  <1>3. Added(b, f, k) = Total(Amounts(b, f, k))[Len(b.calls)]
    BY DEF Added, Amounts
  <1>4. Len(b.calls) \in Nat
    BY OnRange
  <1>5. Added(b, f, k) \in Int
    <2> DEFINE t == Amounts(b, f, k)
    <2>1. t \in [Nat -> Int]
      BY <1>2
    <2> HIDE DEF t
    <2>2. Total(t)[Len(b.calls)] \in Int
      BY <1>4, <2>1, TotalUnfolds
    <2> QED BY <1>3, <2>2 DEF t
  <1> QED BY <1>2, <1>3, <1>5

LEMMA AddedNone ==
    ASSUME NEW b, IsLog(b), NEW f, NEW k, AddsFrom(b, f, k) = {}
    PROVE  Added(b, f, k) = 0
  <1> DEFINE t == Amounts(b, f, k)
  <1>1. t \in [Nat -> Int] /\ Added(b, f, k) = Total(t)[Len(b.calls)] /\ Len(b.calls) \in Nat
    BY AmountsAreNumbers, OnRange
  <1>2. \A i \in 1..Len(b.calls) : t[i] = 0
    BY DEF Amounts
  <1> HIDE DEF t
  <1> QED BY <1>1, <1>2, TotalOfZeros

LEMMA AddedAppend ==
    ASSUME NEW b, IsLog(b), NEW c \in BuilderCall(b.entity), NEW d, Extended(d, b, c), NEW f,
           NEW k \in 0..Len(b.calls)
    PROVE  /\ Counts(b.entity, c, f, {"add"}) => Added(d, f, k) = Added(b, f, k) + c.arg
           /\ ~Counts(b.entity, c, f, {"add"}) => Added(d, f, k) = Added(b, f, k)
  <1> DEFINE n == Len(b.calls)
             t == Amounts(b, f, k)
             u == Amounts(d, f, k)
  <1>1. IsLog(d) /\ Len(d.calls) = n + 1 /\ n \in Nat
    BY NothingAfter
  <1>2. /\ t \in [Nat -> Int] /\ Added(b, f, k) = Total(t)[n]
        /\ u \in [Nat -> Int] /\ Added(d, f, k) = Total(u)[n + 1]
    BY <1>1, AmountsAreNumbers
  <1>3. /\ Counts(b.entity, c, f, {"add"}) => AddsFrom(d, f, k) = AddsFrom(b, f, k) \cup {n + 1}
        /\ ~Counts(b.entity, c, f, {"add"}) => AddsFrom(d, f, k) = AddsFrom(b, f, k)
    BY OnAppend DEF AddsFrom
  <1>4. AddsFrom(b, f, k) \subseteq 1..n
    BY OnRange DEF AddsFrom
  <1>5. d.calls[n + 1] = c /\ \A i \in 1..n : d.calls[i] = b.calls[i]
    BY AppendProperties DEF IsLog, Extended
  <1>6. \A i \in 1..n : u[i] = t[i]
    <2> TAKE i \in 1..n
    <2>1. i \in Nat /\ i # n + 1
      BY <1>1
    <2>2. i \in AddsFrom(d, f, k) <=> i \in AddsFrom(b, f, k)
      BY <1>3, <2>1
    <2> QED BY <1>5, <2>1, <2>2 DEF Amounts
  <1>7. u[n + 1] = IF Counts(b.entity, c, f, {"add"}) THEN c.arg ELSE 0
    <2>1. n + 1 \in Nat /\ n + 1 \notin AddsFrom(b, f, k)
      BY <1>1, <1>4
    <2>2. n + 1 \in AddsFrom(d, f, k) <=> Counts(b.entity, c, f, {"add"})
      BY <1>3, <2>1
    <2> QED BY <1>5, <2>1, <2>2 DEF Amounts
  <1> HIDE DEF n, t, u
  <1>8. Total(u)[n] = Total(t)[n]
    BY <1>1, <1>2, <1>6, TotalAgrees
  <1>9. Total(u)[n + 1] = Total(u)[n] + u[n + 1] /\ Total(u)[n] \in Int
    BY <1>1, <1>2, TotalUnfolds
  <1>10. Added(d, f, k) = Added(b, f, k) + u[n + 1] /\ Added(b, f, k) \in Int
    BY <1>2, <1>8, <1>9
  <1> QED BY <1>7, <1>10

-----------------------------------------------------------------------------
(***************************************************************************)
(* What a call does to the entries of a mutation                           *)
(***************************************************************************)

Shaped(m) == DOMAIN m = {"entity", "op", "value", "added", "cleared"}

\* r is m with these entries.
Became(r, m, value, added, cleared) ==
    /\ Shaped(r) /\ r.entity = m.entity /\ r.op = m.op
    /\ r.value = value /\ r.added = added /\ r.cleared = cleared

LEMMA Methods ==
    ASSUME NEW m, Shaped(m), NEW g, NEW v
    PROVE  /\ Became(SetValue(m, g, v), m, With(m.value, g, v), Without(m.added, g), m.cleared)
           /\ Became(ClearValue(m, g), m, Without(m.value, g), Without(m.added, g),
                     m.cleared \cup {g})
           /\ Became(ResetValue(m, g), m, Without(m.value, g), Without(m.added, g),
                     m.cleared \ {g})
           /\ Became(AddValue(m, g, v), m, m.value,
                     With(m.added, g, v + (IF g \in DOMAIN m.added THEN m.added[g] ELSE 0)),
                     m.cleared)
  <1>1. Became(SetValue(m, g, v), m, With(m.value, g, v), Without(m.added, g), m.cleared)
    BY DEF Became, Shaped, SetValue
  <1>2. Became(ClearValue(m, g), m, Without(m.value, g), Without(m.added, g), m.cleared \cup {g})
    BY DEF Became, Shaped, ClearValue
  <1>3. Became(ResetValue(m, g), m, Without(m.value, g), Without(m.added, g), m.cleared \ {g})
    BY DEF Became, Shaped, ResetValue
  <1>4. Became(AddValue(m, g, v), m, m.value,
               With(m.added, g, v + (IF g \in DOMAIN m.added THEN m.added[g] ELSE 0)), m.cleared)
    BY DEF Became, Shaped, AddValue
  <1> QED BY <1>1, <1>2, <1>3, <1>4

LEMMA CalledMethod ==
    ASSUME NEW m, NEW c \in BuilderCall(m.entity)
    PROVE  LET kind == FieldKinds[m.entity][c.field]
               whole == m.op # "create" /\ kind.numeric
           IN  /\ c.call = "reset" => Called(m, c) = ResetValue(m, c.field)
               /\ c.call = "clear" =>
                    Called(m, c) = IF kind.optional THEN ClearValue(m, c.field) ELSE m
               /\ c.call = "add" =>
                    Called(m, c) = IF kind.numeric THEN AddValue(m, c.field, c.arg) ELSE m
               /\ c.call = "named" => Called(m, c) = SetValue(m, c.field, c.arg)
               /\ c.call = "nillable" /\ c.arg = NULL => Called(m, c) = m
               /\ c.call = "set" \/ (c.call = "nillable" /\ c.arg # NULL) =>
                    Called(m, c) = SetValue(IF whole THEN ResetValue(m, c.field) ELSE m,
                                            c.field, c.arg)
  <1>1. c.field \in Fields(m.entity)
    BY DEF BuilderCall
  <1>2. c.call = "reset" => Called(m, c) = ResetValue(m, c.field)
    BY <1>1 DEF Called, ResetField
  <1>3. c.call = "clear" => Called(m, c) = IF FieldKinds[m.entity][c.field].optional
                                           THEN ClearValue(m, c.field) ELSE m
    BY <1>1 DEF Called, ClearField
  <1>4. c.call = "add" => Called(m, c) = IF FieldKinds[m.entity][c.field].numeric
                                         THEN AddValue(m, c.field, c.arg) ELSE m
    BY <1>1 DEF Called, AddField
  <1>5. c.call = "named" => Called(m, c) = SetValue(m, c.field, c.arg)
    BY <1>1 DEF Called, SetField
  <1>6. c.call = "nillable" /\ c.arg = NULL => Called(m, c) = m
    BY DEF Called
  <1>7. c.call = "set" \/ (c.call = "nillable" /\ c.arg # NULL) =>
            Called(m, c) = SetByBuilder(m, c.field, c.arg)
    BY DEF Called
  <1> QED BY <1>2, <1>3, <1>4, <1>5, <1>6, <1>7 DEF SetByBuilder

\* The entries of r and m for f are the same.
SameAt(r, m, f) ==
    /\ f \in DOMAIN r.value <=> f \in DOMAIN m.value
    /\ f \in DOMAIN m.value => r.value[f] = m.value[f]
    /\ f \in DOMAIN r.added <=> f \in DOMAIN m.added
    /\ f \in DOMAIN m.added => r.added[f] = m.added[f]
    /\ f \in r.cleared <=> f \in m.cleared

\* H and h agree on everything but g.
KeepsOthers(H, h, g) ==
    \A f : f # g => /\ f \in DOMAIN H <=> f \in DOMAIN h
                    /\ f \in DOMAIN h => H[f] = h[f]

LEMMA WithKeepsOthers ==
    ASSUME NEW h, NEW g, NEW v
    PROVE  /\ KeepsOthers(h, h, g) /\ KeepsOthers(With(h, g, v), h, g)
           /\ KeepsOthers(Without(h, g), h, g)
  <1>1. KeepsOthers(h, h, g)
    BY DEF KeepsOthers
  <1>2. KeepsOthers(With(h, g, v), h, g)
    BY DEF KeepsOthers, With
  <1>3. KeepsOthers(Without(h, g), h, g)
    BY DEF KeepsOthers, Without, Restrict
  <1> QED BY <1>1, <1>2, <1>3

LEMMA BecameSame ==
    ASSUME NEW m, NEW r, NEW V, NEW A, NEW K, Became(r, m, V, A, K), NEW g,
           KeepsOthers(V, m.value, g), KeepsOthers(A, m.added, g),
           \A f : f # g => (f \in K <=> f \in m.cleared)
    PROVE  /\ Shaped(r) /\ r.entity = m.entity /\ r.op = m.op
           /\ \A f : f # g => SameAt(r, m, f)
  BY DEF Became, KeepsOthers, SameAt

\* Every call keeps the shape, and the entries of the other fields.
LEMMA CalledElsewhere ==
    ASSUME NEW m, Shaped(m), NEW c \in BuilderCall(m.entity)
    PROVE  /\ Shaped(Called(m, c)) /\ Called(m, c).entity = m.entity /\ Called(m, c).op = m.op
           /\ \A f : f # c.field => SameAt(Called(m, c), m, f)
  <1> DEFINE g == c.field
             P(r) == /\ Shaped(r) /\ r.entity = m.entity /\ r.op = m.op
                     /\ \A f : f # g => SameAt(r, m, f)
  <1>1. P(m)
    BY DEF SameAt
  <1>2. P(ResetValue(m, g))
    <2>1. Became(ResetValue(m, g), m, Without(m.value, g), Without(m.added, g), m.cleared \ {g})
      BY Methods
    <2>2. KeepsOthers(Without(m.value, g), m.value, g) /\ KeepsOthers(Without(m.added, g), m.added, g)
      BY WithKeepsOthers
    <2>3. \A f : f # g => (f \in m.cleared \ {g} <=> f \in m.cleared)
      OBVIOUS
    <2> QED BY <2>1, <2>2, <2>3, BecameSame
  <1>3. P(ClearValue(m, g))
    <2>1. Became(ClearValue(m, g), m, Without(m.value, g), Without(m.added, g), m.cleared \cup {g})
      BY Methods
    <2>2. KeepsOthers(Without(m.value, g), m.value, g) /\ KeepsOthers(Without(m.added, g), m.added, g)
      BY WithKeepsOthers
    <2>3. \A f : f # g => (f \in m.cleared \cup {g} <=> f \in m.cleared)
      OBVIOUS
    <2> QED BY <2>1, <2>2, <2>3, BecameSame
  <1>4. P(AddValue(m, g, c.arg))
    <2>1. PICK w : Became(AddValue(m, g, c.arg), m, m.value, With(m.added, g, w), m.cleared)
      BY Methods
    <2>2. KeepsOthers(m.value, m.value, g) /\ KeepsOthers(With(m.added, g, w), m.added, g)
      BY WithKeepsOthers
    <2> QED BY <2>1, <2>2, BecameSame
  <1>5. \A r : Shaped(r) => /\ Shaped(SetValue(r, g, c.arg))
                            /\ SetValue(r, g, c.arg).entity = r.entity
                            /\ SetValue(r, g, c.arg).op = r.op
                            /\ \A f : f # g => SameAt(SetValue(r, g, c.arg), r, f)
    <2> SUFFICES ASSUME NEW r, Shaped(r)
                 PROVE  /\ Shaped(SetValue(r, g, c.arg))
                        /\ SetValue(r, g, c.arg).entity = r.entity
                        /\ SetValue(r, g, c.arg).op = r.op
                        /\ \A f : f # g => SameAt(SetValue(r, g, c.arg), r, f)
      OBVIOUS
    <2>1. Became(SetValue(r, g, c.arg), r, With(r.value, g, c.arg), Without(r.added, g), r.cleared)
      BY Methods
    <2>2. /\ KeepsOthers(With(r.value, g, c.arg), r.value, g)
          /\ KeepsOthers(Without(r.added, g), r.added, g)
      BY WithKeepsOthers
    <2> QED BY <2>1, <2>2, BecameSame
  <1>6. P(SetValue(m, g, c.arg)) /\ P(SetValue(ResetValue(m, g), g, c.arg))
    <2>1. P(SetValue(m, g, c.arg))
      BY <1>5
    <2> DEFINE r == ResetValue(m, g)
               q == SetValue(r, g, c.arg)
    <2>2. Shaped(r) /\ r.entity = m.entity /\ r.op = m.op /\ \A f : f # g => SameAt(r, m, f)
      BY <1>2
    <2> HIDE DEF r
    <2>3. Shaped(q) /\ q.entity = r.entity /\ q.op = r.op /\ \A f : f # g => SameAt(q, r, f)
      BY <1>5, <2>2
    <2> HIDE DEF q
    <2>4. P(q)
      <3>1. ASSUME NEW f, f # g PROVE SameAt(q, m, f)
        <4>1. SameAt(q, r, f) /\ SameAt(r, m, f)
          BY <2>2, <2>3, <3>1
        <4> QED BY <4>1 DEF SameAt
      <3> QED BY <2>2, <2>3, <3>1
    <2> QED BY <2>1, <2>4 DEF q, r
  <1>7. c.call \in {"set", "nillable", "named", "add", "clear", "reset"}
    BY DEF BuilderCall, Kinds, Setters
  <1>8. Called(m, c) \in {m, ResetValue(m, g), ClearValue(m, g), AddValue(m, g, c.arg),
                          SetValue(m, g, c.arg), SetValue(ResetValue(m, g), g, c.arg)}
    BY <1>7, CalledMethod
  <1> HIDE DEF P
  <1>9. P(Called(m, c))
    BY <1>1, <1>2, <1>3, <1>4, <1>6, <1>8
  <1> QED BY <1>9 DEF P

-----------------------------------------------------------------------------
(***************************************************************************)
(* A mutation says the same about f as the log of the calls made: this is  *)
(* what every call preserves.                                              *)
(***************************************************************************)

Reflects(m, b, f) ==
    /\ f \in DOMAIN m.value <=> LastSet(b, f) > 0
    /\ f \in DOMAIN m.value => m.value[f] = b.calls[LastSet(b, f)].arg
    /\ f \in m.cleared <=> Cleared(b, f) > 0
    /\ f \in DOMAIN m.added <=> AddsFrom(b, f, Since(b, f)) # {}
    /\ f \in DOMAIN m.added => m.added[f] = Added(b, f, Since(b, f))

\* An empty mutation reflects an empty log.
LEMMA ReflectsNothing ==
    ASSUME NEW e, NEW o, NEW b, b.entity = e, b.op = o, b.calls = <<>>, NEW f
    PROVE  IsLog(b) /\ Shaped(NewMutation(e, o)) /\ Reflects(NewMutation(e, o), b, f)
  <1>1. IsLog(b) /\ Len(b.calls) = 0
    BY DEF IsLog
  <1>2. \A K : \A k \in Nat : On(b, f, K, k) = {}
    BY <1>1, OnNone
  <1>3. Start(b, f) \in 0..0 /\ Cleared(b, f) \in 0..0 /\ LastSet(b, f) \in 0..0
    BY <1>1, PositionsRange
  <1>4. Start(b, f) = 0 /\ Cleared(b, f) = 0 /\ LastSet(b, f) = 0
    BY <1>3
  <1>5. AddsFrom(b, f, Since(b, f)) = {}
    BY <1>2, <1>4 DEF Since, AddsFrom
  <1>6. LET m == NewMutation(e, o)
        IN  Shaped(m) /\ DOMAIN m.value = {} /\ DOMAIN m.added = {} /\ m.cleared = {}
    BY DEF NewMutation, Shaped
  <1> QED BY <1>1, <1>4, <1>5, <1>6 DEF Reflects

LEMMA ReflectsIdle ==
    ASSUME NEW b, IsLog(b), NEW m, Shaped(m), m.entity = b.entity, m.op = b.op,
           NEW c \in BuilderCall(b.entity), NEW d, Extended(d, b, c), NEW f, Reflects(m, b, f),
           ~Counts(b.entity, c, f, Kinds)
    PROVE  Reflects(Called(m, c), d, f)
  <1> DEFINE r == Called(m, c)
             n == Len(b.calls)
  <1>1. SameAt(r, m, f)
    <2>1. CASE f # c.field
      BY <2>1, CalledElsewhere
    <2>2. CASE f = c.field
      <3>1. \/ c.call = "nillable" /\ c.arg = NULL
            \/ c.call = "add" /\ ~FieldKinds[m.entity][c.field].numeric
            \/ c.call = "clear" /\ ~FieldKinds[m.entity][c.field].optional
        BY <2>2 DEF Counts, BuilderCall
      <3>2. r = m
        BY <3>1, CalledMethod
      <3> QED BY <3>2 DEF SameAt
    <2> QED BY <2>1, <2>2
  <1> HIDE DEF r
  <1>2. /\ Cleared(d, f) = Cleared(b, f) /\ LastSet(d, f) = LastSet(b, f)
        /\ Since(d, f) = Since(b, f)
        /\ \A k \in 0..n : AddsFrom(d, f, k) = AddsFrom(b, f, k)
    BY IdleCall
  <1>3. n \in Nat /\ Since(b, f) \in 0..n /\ LastSet(b, f) \in 0..n
    BY PositionsRange
  <1>4. LastSet(b, f) > 0 => d.calls[LastSet(b, f)] = b.calls[LastSet(b, f)]
    <2>1. \A i \in 1..n : d.calls[i] = b.calls[i]
      BY AppendProperties DEF IsLog, Extended
    <2>2. LastSet(b, f) > 0 => LastSet(b, f) \in 1..n
      BY <1>3
    <2> QED BY <2>1, <2>2
  <1>5. Added(d, f, Since(b, f)) = Added(b, f, Since(b, f))
    <2>1. ~Counts(b.entity, c, f, {"add"})
      BY DEF Counts, Kinds
    <2> QED BY <1>3, <2>1, AddedAppend
  <1>6. AddsFrom(d, f, Since(d, f)) = AddsFrom(b, f, Since(b, f))
    BY <1>2, <1>3
  <1> QED BY <1>1, <1>2, <1>4, <1>5, <1>6 DEF Reflects, SameAt, r

\* Calls that leave one entry, or none, and no amount.
LEMMA ReflectsFresh ==
    ASSUME NEW b, IsLog(b), NEW c \in BuilderCall(b.entity), NEW d, Extended(d, b, c), NEW f,
           Since(d, f) = Len(b.calls) + 1, NEW r, f \notin DOMAIN r.added,
           f \in DOMAIN r.value <=> LastSet(d, f) > 0,
           f \in DOMAIN r.value => LastSet(d, f) = Len(b.calls) + 1 /\ r.value[f] = c.arg,
           f \in r.cleared <=> Cleared(d, f) > 0
    PROVE  Reflects(r, d, f)
  <1>1. AddsFrom(d, f, Since(d, f)) = {}
    BY NothingAfter DEF AddsFrom
  <1>2. d.calls[Len(b.calls) + 1] = c
    BY AppendProperties DEF IsLog, Extended
  <1> QED BY <1>1, <1>2 DEF Reflects

LEMMA ReflectsCalled ==
    ASSUME NEW b, IsLog(b), NEW m, Shaped(m), m.entity = b.entity, m.op = b.op,
           NEW c \in BuilderCall(b.entity), NEW d, Extended(d, b, c), NEW f, Reflects(m, b, f)
    PROVE  Reflects(Called(m, c), d, f)
  <1> DEFINE r == Called(m, c)
             n == Len(b.calls)
  <1>0. n \in Nat
    BY PositionsRange
  <1>1. CASE ~Counts(b.entity, c, f, Kinds)
    BY <1>1, ReflectsIdle
  <1>2. CASE Counts(b.entity, c, f, {"reset"})
    <2>1. c.field = f /\ c.call = "reset"
      BY <1>2 DEF Counts
    <2>2. Became(r, m, Without(m.value, f), Without(m.added, f), m.cleared \ {f})
      <3>1. r = ResetValue(m, f)
        BY <2>1, CalledMethod
      <3> QED BY <3>1, Methods
    <2> HIDE DEF r
    <2>3. f \notin DOMAIN r.value /\ f \notin DOMAIN r.added /\ f \notin r.cleared
      BY <2>2 DEF Became, With, Without, Restrict
    <2>4. Cleared(d, f) = 0 /\ LastSet(d, f) = 0 /\ Since(d, f) = n + 1
      BY <1>2, ResetCall
    <2>5. Reflects(r, d, f)
      BY <2>3, <2>4, ReflectsFresh
    <2> QED BY <2>5 DEF r
  <1>3. CASE Counts(b.entity, c, f, {"clear"})
    <2>1. c.field = f /\ c.call = "clear" /\ FieldKinds[m.entity][c.field].optional
      BY <1>3 DEF Counts
    <2>2. Became(r, m, Without(m.value, f), Without(m.added, f), m.cleared \cup {f})
      <3>1. r = ClearValue(m, f)
        BY <2>1, CalledMethod
      <3> QED BY <3>1, Methods
    <2> HIDE DEF r
    <2>3. f \notin DOMAIN r.value /\ f \notin DOMAIN r.added /\ f \in r.cleared
      BY <2>2 DEF Became, With, Without, Restrict
    <2>4. Cleared(d, f) = n + 1 /\ LastSet(d, f) = 0 /\ Since(d, f) = n + 1
      BY <1>3, ClearCall
    <2>5. Reflects(r, d, f)
      BY <1>0, <2>3, <2>4, ReflectsFresh
    <2> QED BY <2>5 DEF r
  <1>4. CASE Whole(b, f) /\ Counts(b.entity, c, f, {"set", "nillable"})
    <2>1. /\ c.field = f /\ (c.call = "set" \/ (c.call = "nillable" /\ c.arg # NULL))
          /\ m.op # "create" /\ FieldKinds[m.entity][c.field].numeric
      BY <1>4 DEF Counts, Whole
    <2> DEFINE q == ResetValue(m, f)
    <2>2. r = SetValue(q, f, c.arg)
      BY <2>1, CalledMethod
    <2>3. Became(q, m, Without(m.value, f), Without(m.added, f), m.cleared \ {f})
      BY Methods
    <2> HIDE DEF r, q
    <2>4. Became(r, q, With(q.value, f, c.arg), Without(q.added, f), q.cleared)
      BY <2>2, <2>3, Methods DEF Became
    <2>5. /\ f \in DOMAIN r.value /\ r.value[f] = c.arg
          /\ f \notin DOMAIN r.added /\ f \notin r.cleared
      BY <2>3, <2>4 DEF Became, With, Without, Restrict
    <2>6. Cleared(d, f) = 0 /\ LastSet(d, f) = n + 1 /\ Since(d, f) = n + 1
      BY <1>4, WholeCall
    <2>7. Reflects(r, d, f)
      BY <1>0, <2>5, <2>6, ReflectsFresh
    <2> QED BY <2>7 DEF r
  <1>5. CASE Counts(b.entity, c, f, Setters)
             /\ ~(Whole(b, f) /\ Counts(b.entity, c, f, {"set", "nillable"}))
    <2>1. /\ c.field = f
          /\ \/ c.call = "named"
             \/ /\ c.call = "set" \/ (c.call = "nillable" /\ c.arg # NULL)
                /\ ~(m.op # "create" /\ FieldKinds[m.entity][c.field].numeric)
      BY <1>5 DEF Counts, Whole, Setters
    <2>2. r = SetValue(m, f, c.arg)
      BY <2>1, CalledMethod
    <2>3. Became(r, m, With(m.value, f, c.arg), Without(m.added, f), m.cleared)
      BY <2>2, Methods
    <2> HIDE DEF r
    <2>4. /\ f \in DOMAIN r.value /\ r.value[f] = c.arg
          /\ f \notin DOMAIN r.added /\ r.cleared = m.cleared
      BY <2>3 DEF Became, With, Without, Restrict
    <2>5. Cleared(d, f) = Cleared(b, f) /\ LastSet(d, f) = n + 1 /\ Since(d, f) = n + 1
      BY <1>5, SetCall
    <2>6. f \in r.cleared <=> Cleared(d, f) > 0
      BY <2>4, <2>5 DEF Reflects
    <2>7. Reflects(r, d, f)
      BY <1>0, <2>4, <2>5, <2>6, ReflectsFresh
    <2> QED BY <2>7 DEF r
  <1>6. CASE Counts(b.entity, c, f, {"add"})
    <2>1. c.field = f /\ c.call = "add" /\ FieldKinds[m.entity][c.field].numeric
      BY <1>6 DEF Counts
    <2> DEFINE old == IF f \in DOMAIN m.added THEN m.added[f] ELSE 0
    <2>2. Became(r, m, m.value, With(m.added, f, c.arg + old), m.cleared)
      <3>1. r = AddValue(m, f, c.arg)
        BY <2>1, CalledMethod
      <3>2. Became(AddValue(m, f, c.arg), m, m.value, With(m.added, f, c.arg + old), m.cleared)
        BY Methods
      <3> QED BY <3>1, <3>2
    <2>3. c.arg \in Int
      BY <2>1 DEF BuilderCall
    <2>4. /\ Cleared(d, f) = Cleared(b, f) /\ LastSet(d, f) = LastSet(b, f)
          /\ Since(d, f) = Since(b, f) /\ \A k \in 0..n : AddsFrom(d, f, k) # {}
      BY <1>6, AddCall
    <2>5. Since(b, f) \in 0..n /\ LastSet(b, f) \in 0..n
      BY PositionsRange
    <2>6. Added(d, f, Since(d, f)) = Added(b, f, Since(b, f)) + c.arg
      BY <1>6, <2>4, <2>5, AddedAppend
    <2>7. old = Added(b, f, Since(b, f)) /\ old \in Int
      <3>1. Added(b, f, Since(b, f)) \in Int
        BY AmountsAreNumbers
      <3>2. CASE f \in DOMAIN m.added
        BY <3>1, <3>2 DEF Reflects
      <3>3. CASE f \notin DOMAIN m.added
        <4>1. AddsFrom(b, f, Since(b, f)) = {}
          BY <3>3 DEF Reflects
        <4>2. Added(b, f, Since(b, f)) = 0
          BY <4>1, AddedNone
        <4> QED BY <3>3, <4>2
      <3> QED BY <3>2, <3>3
    <2> HIDE DEF r, old
    <2>8. /\ r.value = m.value /\ r.cleared = m.cleared
          /\ f \in DOMAIN r.added /\ r.added[f] = c.arg + old
      BY <2>2 DEF Became, With, Without, Restrict
    <2>9. r.added[f] = Added(d, f, Since(d, f))
      BY <2>3, <2>6, <2>7, <2>8
    <2>10. LastSet(b, f) > 0 => d.calls[LastSet(b, f)] = b.calls[LastSet(b, f)]
      <3>1. \A i \in 1..n : d.calls[i] = b.calls[i]
        BY AppendProperties DEF IsLog, Extended
      <3>2. LastSet(b, f) > 0 => LastSet(b, f) \in 1..n
        BY <2>5
      <3> QED BY <3>1, <3>2
    <2>11. AddsFrom(d, f, Since(d, f)) # {}
      BY <2>4, <2>5
    <2>12. Reflects(r, d, f)
      BY <2>4, <2>8, <2>9, <2>10, <2>11 DEF Reflects
    <2> QED BY <2>12 DEF r
  <1>7. Counts(b.entity, c, f, Kinds) =>
            \/ Counts(b.entity, c, f, {"reset"}) \/ Counts(b.entity, c, f, {"clear"})
            \/ Counts(b.entity, c, f, Setters) \/ Counts(b.entity, c, f, {"add"})
    BY DEF Counts, Kinds
  <1> QED BY <1>1, <1>2, <1>3, <1>4, <1>5, <1>6, <1>7

-----------------------------------------------------------------------------
(***************************************************************************)
(* What the generated code says of each entity, and where its parts agree. *)
(***************************************************************************)

\* Three groups with no field in common, and what they make together.
Apart(F, G, H) ==
    DOMAIN F \cap DOMAIN G = {} /\ (DOMAIN F \cup DOMAIN G) \cap DOMAIN H = {}

Together(K, F, G, H) ==
    /\ DOMAIN K = DOMAIN F \cup DOMAIN G \cup DOMAIN H
    /\ \A x \in DOMAIN F : K[x] = F[x]
    /\ \A x \in DOMAIN G : K[x] = G[x]
    /\ \A x \in DOMAIN H : K[x] = H[x]

LEMMA Joined ==
    ASSUME NEW F, NEW G, NEW H, Apart(F, G, H)
    PROVE  Together(F ++ G ++ H, F, G, H)
  <1>1. PICK J : J = F ++ G
    OBVIOUS
  <1>2. /\ DOMAIN J = DOMAIN F \cup DOMAIN G
        /\ \A x \in DOMAIN F : J[x] = F[x]
        /\ \A x \in DOMAIN G : J[x] = G[x]
    BY <1>1 DEF Apart, ++
  <1>3. PICK K : K = J ++ H
    OBVIOUS
  <1>4. /\ DOMAIN K = DOMAIN J \cup DOMAIN H
        /\ \A x \in DOMAIN J : K[x] = J[x]
        /\ \A x \in DOMAIN H : K[x] = H[x]
    BY <1>2, <1>3 DEF Apart, ++
  <1>5. Together(K, F, G, H)
    BY <1>2, <1>4 DEF Together
  <1> QED BY <1>1, <1>3, <1>5

\* The fields of an entity, those with Add and those with Clear.
KindsAre(e, fields, numeric, optional) ==
    /\ Fields(e) = fields
    /\ \A f \in fields : /\ FieldKinds[e][f].numeric <=> f \in numeric
                         /\ FieldKinds[e][f].optional <=> f \in optional

LEMMA NotificationKinds ==
    KindsAre("Notification", NotificationsTable.columns, {"attempt_count", "max_attempts"},
             NotificationsTable.nullable)
  <1> DEFINE F == NotificationRequestFields
             G == NotificationProgressFields
             H == NotificationOutcomeFields
  <1>1. FieldKinds["Notification"] = F ++ G ++ H
    BY DEF FieldKinds
  <1>2. /\ DOMAIN F = {"url", "method", "headers", "body"}
        /\ DOMAIN G = {"status", "attempt_count", "max_attempts"}
        /\ DOMAIN H = {"last_error", "next_attempt_at", "created_at", "updated_at"}
    BY DEF NotificationRequestFields, NotificationProgressFields, NotificationOutcomeFields
  <1>3. /\ F["url"] = Plain /\ F["method"] = Plain /\ F["headers"] = Optional /\ F["body"] = Optional
        /\ G["status"] = Plain /\ G["attempt_count"] = Numeric /\ G["max_attempts"] = Numeric
        /\ H["last_error"] = Optional /\ H["next_attempt_at"] = Optional
        /\ H["created_at"] = Plain /\ H["updated_at"] = Plain
    BY DEF NotificationRequestFields, NotificationProgressFields, NotificationOutcomeFields
  <1> HIDE DEF F, G, H
  <1>4. Apart(F, G, H)
    BY <1>2 DEF Apart
  <1>5. Together(FieldKinds["Notification"], F, G, H)
    BY <1>1, <1>4, Joined
  <1> QED
    BY <1>2, <1>3, <1>5
    DEF Together, KindsAre, Fields, NotificationsTable, Plain, Numeric, Optional

LEMMA DeliveryAttemptKinds ==
    KindsAre("DeliveryAttempt", DeliveryAttemptsTable.columns,
             {"attempt_number", "http_status", "duration_ms"}, DeliveryAttemptsTable.nullable)
  <1> DEFINE F == DeliveryAttemptResultFields
             G == DeliveryAttemptAnswerFields
             H == DeliveryAttemptTimingFields
  <1>1. FieldKinds["DeliveryAttempt"] = F ++ G ++ H
    BY DEF FieldKinds
  <1>2. /\ DOMAIN F = {"notification_id", "attempt_number", "status"}
        /\ DOMAIN G = {"http_status", "error_message"}
        /\ DOMAIN H = {"duration_ms", "created_at"}
    BY DEF DeliveryAttemptResultFields, DeliveryAttemptAnswerFields, DeliveryAttemptTimingFields
  <1>3. /\ F["notification_id"] = Plain /\ F["attempt_number"] = Numeric /\ F["status"] = Plain
        /\ G["http_status"] = OptionalNumeric /\ G["error_message"] = Optional
        /\ H["duration_ms"] = Numeric /\ H["created_at"] = Plain
    BY DEF DeliveryAttemptResultFields, DeliveryAttemptAnswerFields, DeliveryAttemptTimingFields
  <1> HIDE DEF F, G, H
  <1>4. Apart(F, G, H)
    BY <1>2 DEF Apart
  <1>5. Together(FieldKinds["DeliveryAttempt"], F, G, H)
    BY <1>1, <1>4, Joined
  <1> QED
    BY <1>2, <1>3, <1>5
    DEF Together, KindsAre, Fields, DeliveryAttemptsTable, Plain, Numeric, Optional, OptionalNumeric

LEMMA OutboxEventKinds ==
    KindsAre("OutboxEvent", OutboxEventsTable.columns, {}, OutboxEventsTable.nullable)
  <1> DEFINE F == OutboxEventTaskFields
             G == OutboxEventClaimFields
             H == OutboxEventOutcomeFields
  <1>1. FieldKinds["OutboxEvent"] = F ++ G ++ H
    BY DEF FieldKinds
  <1>2. /\ DOMAIN F = {"notification_id", "event_type", "status", "scheduled_at"}
        /\ DOMAIN G = {"stream_id", "locked_by", "locked_at"}
        /\ DOMAIN H = {"last_error", "published_at", "created_at", "updated_at"}
    BY DEF OutboxEventTaskFields, OutboxEventClaimFields, OutboxEventOutcomeFields
  <1>3. /\ \A x \in DOMAIN F : F[x] = Plain
        /\ \A x \in DOMAIN G : G[x] = Optional
        /\ H["last_error"] = Optional /\ H["published_at"] = Optional
        /\ H["created_at"] = Plain /\ H["updated_at"] = Plain
    BY <1>2 DEF OutboxEventTaskFields, OutboxEventClaimFields, OutboxEventOutcomeFields
  <1> HIDE DEF F, G, H
  <1>4. Apart(F, G, H)
    BY <1>2 DEF Apart
  <1>5. Together(FieldKinds["OutboxEvent"], F, G, H)
    BY <1>1, <1>4, Joined
  <1> QED
    BY <1>2, <1>3, <1>5
    DEF Together, KindsAre, Fields, OutboxEventsTable, Plain, Optional

Numbers == {"attempt_count", "max_attempts", "attempt_number", "http_status", "duration_ms"}

UpdateOp == {"update", "updateOne"}

\* The generated parts agree on e: what has Clear is what may be NULL, what is
\* required covers what may not, the validator allows what the enum does, and
\* the update builders write every column but created_at.
KindsAgree(e) ==
    LET t == Table[e]
    IN  /\ Fields(e) = t.columns
        /\ \A f \in t.columns : /\ FieldKinds[e][f].numeric <=> f \in Numbers
                                /\ FieldKinds[e][f].optional <=> f \in t.nullable

CreateAgrees(e) ==
    LET t == Table[e]
    IN  /\ CreateSpec[e] = t.columns
        /\ Required[e] = t.columns \ t.nullable
        /\ Statuses[e] = t.enum
        /\ {"status", "created_at"} \subseteq t.columns
        /\ {"status", "url", "created_at", "updated_at"} \cap t.nullable = {}
        /\ DOMAIN Defaults[e] \subseteq t.columns
        /\ \A f \in DOMAIN Defaults[e] : Defaults[e][f] \in Int \cup Words

UpdateAgrees(e) ==
    LET t == Table[e]
    IN  /\ \A o \in UpdateOp : /\ UpdateSpec[o][e].set = t.columns \ {"created_at"}
                               /\ UpdateSpec[o][e].add = t.columns \cap Numbers
                               /\ UpdateSpec[o][e].clear = t.nullable
        /\ t.nullable \subseteq t.columns
        /\ DOMAIN UpdateDefaults[e] = t.columns \cap {"updated_at"}
        /\ \A f \in DOMAIN UpdateDefaults[e] : UpdateDefaults[e][f] = "now"

LEMMA AgreeKinds == ASSUME NEW e \in Entity PROVE KindsAgree(e)
  <1>1. KindsAgree("Notification")
    <2>1. Table["Notification"] = NotificationsTable
      BY DEF Table
    <2> QED BY <2>1, NotificationKinds DEF KindsAre, KindsAgree, Numbers, NotificationsTable
  <1>2. KindsAgree("DeliveryAttempt")
    <2>1. Table["DeliveryAttempt"] = DeliveryAttemptsTable
      BY DEF Table
    <2> QED BY <2>1, DeliveryAttemptKinds DEF KindsAre, KindsAgree, Numbers, DeliveryAttemptsTable
  <1>3. KindsAgree("OutboxEvent")
    <2>1. Table["OutboxEvent"] = OutboxEventsTable
      BY DEF Table
    <2> QED BY <2>1, OutboxEventKinds DEF KindsAre, KindsAgree, Numbers, OutboxEventsTable
  <1> QED BY <1>1, <1>2, <1>3 DEF Entity

LEMMA AgreeCreate == ASSUME NEW e \in Entity PROVE CreateAgrees(e)
  <1>1. CreateAgrees("Notification")
    <2>1. /\ Table["Notification"] = NotificationsTable
          /\ CreateSpec["Notification"] = NotificationCreateSpec
          /\ Required["Notification"] = NotificationRequired
          /\ Statuses["Notification"] = NotificationStatuses
          /\ Defaults["Notification"] = NotificationDefaults
      BY DEF Table, CreateSpec, Required, Statuses, Defaults
    <2>2. /\ DOMAIN NotificationDefaults \subseteq NotificationsTable.columns
          /\ \A f \in DOMAIN NotificationDefaults : NotificationDefaults[f] \in Int \cup Words
      <3> DEFINE D == NotificationDefaults
      <3>1. DOMAIN D = {"method", "status", "attempt_count", "max_attempts", "created_at", "updated_at"}
        BY DEF NotificationDefaults
      <3>2. /\ D["method"] \in Words
            /\ D["status"] \in Words
            /\ D["created_at"] \in Words
            /\ D["updated_at"] \in Words
        BY DEF NotificationDefaults, Words
      <3>3. D["attempt_count"] \in Int /\ D["max_attempts"] \in Int
        BY DEF NotificationDefaults
      <3> HIDE DEF D
      <3>4. DOMAIN D \subseteq NotificationsTable.columns
        BY <3>1 DEF NotificationsTable
      <3>5. \A f \in DOMAIN D : D[f] \in Int \cup Words
        BY <3>1, <3>2, <3>3
      <3> QED BY <3>4, <3>5 DEF D
    <2>3. /\ NotificationCreateSpec = NotificationsTable.columns
          /\ NotificationRequired = NotificationsTable.columns \ NotificationsTable.nullable
      BY DEF NotificationsTable, NotificationCreateSpec, NotificationRequired
    <2>4. /\ NotificationStatuses = NotificationsTable.enum
          /\ {"status", "created_at"} \subseteq NotificationsTable.columns
          /\ {"status", "url", "created_at", "updated_at"} \cap NotificationsTable.nullable = {}
      BY DEF NotificationsTable, NotificationStatuses
    <2> QED BY <2>1, <2>2, <2>3, <2>4 DEF CreateAgrees
  <1>2. CreateAgrees("DeliveryAttempt")
    <2>1. /\ Table["DeliveryAttempt"] = DeliveryAttemptsTable
          /\ CreateSpec["DeliveryAttempt"] = DeliveryAttemptCreateSpec
          /\ Required["DeliveryAttempt"] = DeliveryAttemptRequired
          /\ Statuses["DeliveryAttempt"] = DeliveryAttemptStatuses
          /\ Defaults["DeliveryAttempt"] = DeliveryAttemptDefaults
      BY DEF Table, CreateSpec, Required, Statuses, Defaults
    <2>2. /\ DOMAIN DeliveryAttemptDefaults \subseteq DeliveryAttemptsTable.columns
          /\ \A f \in DOMAIN DeliveryAttemptDefaults : DeliveryAttemptDefaults[f] \in Int \cup Words
      <3> DEFINE D == DeliveryAttemptDefaults
      <3>1. DOMAIN D = {"duration_ms", "created_at"}
        BY DEF DeliveryAttemptDefaults
      <3>2. /\ D["created_at"] \in Words
        BY DEF DeliveryAttemptDefaults, Words
      <3>3. D["duration_ms"] \in Int
        BY DEF DeliveryAttemptDefaults
      <3> HIDE DEF D
      <3>4. DOMAIN D \subseteq DeliveryAttemptsTable.columns
        BY <3>1 DEF DeliveryAttemptsTable
      <3>5. \A f \in DOMAIN D : D[f] \in Int \cup Words
        BY <3>1, <3>2, <3>3
      <3> QED BY <3>4, <3>5 DEF D
    <2>3. /\ DeliveryAttemptCreateSpec = DeliveryAttemptsTable.columns
          /\ DeliveryAttemptRequired = DeliveryAttemptsTable.columns \ DeliveryAttemptsTable.nullable
      BY DEF DeliveryAttemptsTable, DeliveryAttemptCreateSpec, DeliveryAttemptRequired
    <2>4. /\ DeliveryAttemptStatuses = DeliveryAttemptsTable.enum
          /\ {"status", "created_at"} \subseteq DeliveryAttemptsTable.columns
          /\ {"status", "url", "created_at", "updated_at"} \cap DeliveryAttemptsTable.nullable = {}
      BY DEF DeliveryAttemptsTable, DeliveryAttemptStatuses
    <2> QED BY <2>1, <2>2, <2>3, <2>4 DEF CreateAgrees
  <1>3. CreateAgrees("OutboxEvent")
    <2>1. /\ Table["OutboxEvent"] = OutboxEventsTable
          /\ CreateSpec["OutboxEvent"] = OutboxEventCreateSpec
          /\ Required["OutboxEvent"] = OutboxEventRequired
          /\ Statuses["OutboxEvent"] = OutboxEventStatuses
          /\ Defaults["OutboxEvent"] = OutboxEventDefaults
      BY DEF Table, CreateSpec, Required, Statuses, Defaults
    <2>2. /\ DOMAIN OutboxEventDefaults \subseteq OutboxEventsTable.columns
          /\ \A f \in DOMAIN OutboxEventDefaults : OutboxEventDefaults[f] \in Int \cup Words
      <3> DEFINE D == OutboxEventDefaults
      <3>1. DOMAIN D = {"event_type", "status", "scheduled_at", "created_at", "updated_at"}
        BY DEF OutboxEventDefaults
      <3>2. /\ D["event_type"] \in Words
            /\ D["status"] \in Words
            /\ D["scheduled_at"] \in Words
            /\ D["created_at"] \in Words
            /\ D["updated_at"] \in Words
        BY DEF OutboxEventDefaults, Words
      <3> HIDE DEF D
      <3>4. DOMAIN D \subseteq OutboxEventsTable.columns
        BY <3>1 DEF OutboxEventsTable
      <3>5. \A f \in DOMAIN D : D[f] \in Int \cup Words
        BY <3>1, <3>2
      <3> QED BY <3>4, <3>5 DEF D
    <2>3. /\ OutboxEventCreateSpec = OutboxEventsTable.columns
          /\ OutboxEventRequired = OutboxEventsTable.columns \ OutboxEventsTable.nullable
      BY DEF OutboxEventsTable, OutboxEventCreateSpec, OutboxEventRequired
    <2>4. /\ OutboxEventStatuses = OutboxEventsTable.enum
          /\ {"status", "created_at"} \subseteq OutboxEventsTable.columns
          /\ {"status", "url", "created_at", "updated_at"} \cap OutboxEventsTable.nullable = {}
      BY DEF OutboxEventsTable, OutboxEventStatuses
    <2> QED BY <2>1, <2>2, <2>3, <2>4 DEF CreateAgrees
  <1> QED BY <1>1, <1>2, <1>3 DEF Entity

LEMMA AgreeUpdate == ASSUME NEW e \in Entity PROVE UpdateAgrees(e)
  <1>1. UpdateAgrees("Notification")
    <2>1. /\ Table["Notification"] = NotificationsTable
          /\ \A o \in UpdateOp : UpdateSpec[o]["Notification"] = NotificationUpdateSpec
      BY DEF Table, UpdateOp, UpdateSpec, NotificationUpdateOneSpec
    <2>2. /\ NotificationUpdateSpec.set = NotificationsTable.columns \ {"created_at"}
          /\ NotificationUpdateSpec.add = NotificationsTable.columns \cap Numbers
          /\ NotificationUpdateSpec.clear = NotificationsTable.nullable
      BY DEF NotificationsTable, NotificationUpdateSpec, Numbers
    <2>3. /\ NotificationsTable.nullable \subseteq NotificationsTable.columns
          /\ DOMAIN UpdateDefaults["Notification"] = NotificationsTable.columns \cap {"updated_at"}
          /\ \A f \in DOMAIN UpdateDefaults["Notification"] : UpdateDefaults["Notification"][f] = "now"
      BY DEF NotificationsTable, UpdateDefaults
    <2> QED BY <2>1, <2>2, <2>3 DEF UpdateAgrees
  <1>2. UpdateAgrees("DeliveryAttempt")
    <2>1. /\ Table["DeliveryAttempt"] = DeliveryAttemptsTable
          /\ \A o \in UpdateOp : UpdateSpec[o]["DeliveryAttempt"] = DeliveryAttemptUpdateSpec
      BY DEF Table, UpdateOp, UpdateSpec, DeliveryAttemptUpdateOneSpec
    <2>2. /\ DeliveryAttemptUpdateSpec.set = DeliveryAttemptsTable.columns \ {"created_at"}
          /\ DeliveryAttemptUpdateSpec.add = DeliveryAttemptsTable.columns \cap Numbers
          /\ DeliveryAttemptUpdateSpec.clear = DeliveryAttemptsTable.nullable
      BY DEF DeliveryAttemptsTable, DeliveryAttemptUpdateSpec, Numbers
    <2>3. /\ DeliveryAttemptsTable.nullable \subseteq DeliveryAttemptsTable.columns
          /\ DOMAIN UpdateDefaults["DeliveryAttempt"] = DeliveryAttemptsTable.columns \cap {"updated_at"}
          /\ \A f \in DOMAIN UpdateDefaults["DeliveryAttempt"] : UpdateDefaults["DeliveryAttempt"][f] = "now"
      BY DEF DeliveryAttemptsTable, UpdateDefaults
    <2> QED BY <2>1, <2>2, <2>3 DEF UpdateAgrees
  <1>3. UpdateAgrees("OutboxEvent")
    <2>1. /\ Table["OutboxEvent"] = OutboxEventsTable
          /\ \A o \in UpdateOp : UpdateSpec[o]["OutboxEvent"] = OutboxEventUpdateSpec
      BY DEF Table, UpdateOp, UpdateSpec, OutboxEventUpdateOneSpec
    <2>2. /\ OutboxEventUpdateSpec.set = OutboxEventsTable.columns \ {"created_at"}
          /\ OutboxEventUpdateSpec.add = OutboxEventsTable.columns \cap Numbers
          /\ OutboxEventUpdateSpec.clear = OutboxEventsTable.nullable
      BY DEF OutboxEventsTable, OutboxEventUpdateSpec, Numbers
    <2>3. /\ OutboxEventsTable.nullable \subseteq OutboxEventsTable.columns
          /\ DOMAIN UpdateDefaults["OutboxEvent"] = OutboxEventsTable.columns \cap {"updated_at"}
          /\ \A f \in DOMAIN UpdateDefaults["OutboxEvent"] : UpdateDefaults["OutboxEvent"][f] = "now"
      BY DEF OutboxEventsTable, UpdateDefaults
    <2> QED BY <2>1, <2>2, <2>3 DEF UpdateAgrees
  <1> QED BY <1>1, <1>2, <1>3 DEF Entity

-----------------------------------------------------------------------------
(***************************************************************************)
(* The builder's calls and rows                                            *)
(***************************************************************************)

\* No argument is a nil pointer, and a numeric field's are numbers.
LEMMA ArgsAre ==
    ASSUME NEW e \in Entity, NEW f \in Fields(e), NEW v \in Args(e, f) \cup {Sample(e, f)}
    PROVE  v \in Int \cup Words /\ v # NULL /\ (FieldKinds[e][f].numeric => v \in Int)
  <1>1. FieldKinds[e][f].numeric => v \in {1, 2, 7}
    BY DEF Args, Sample
  <1>2. ~FieldKinds[e][f].numeric => v \in {"failed", "unknown", "", "x", "retrying", "y"}
    BY DEF Args, Sample
  <1>3. CASE FieldKinds[e][f].numeric
    BY <1>1, <1>3, SettersAssumption
  <1>4. CASE ~FieldKinds[e][f].numeric
    <2>1. v \in Words
      BY <1>2, <1>4 DEF Words
    <2> QED BY <1>4, <2>1, SettersAssumption
  <1> QED BY <1>3, <1>4

\* No column is NULL that may not be, and the status is one of the enum's.
Fits(e, r) == RowFits(e, r) /\ r["status"] \in Table[e].enum

\* A row of the table of e.
Row(e, r) ==
    /\ DOMAIN r = Table[e].columns
    /\ Fits(e, r)
    /\ \A f \in Table[e].columns \cap Numbers : r[f] \in Int \cup {NULL}

LEMMA StoredIsRow ==
    ASSUME NEW e \in Entity, NEW filled \in BOOLEAN
    PROVE  Row(e, StoredRow(e, filled))
  <1> DEFINE r == StoredRow(e, filled)
             t == Table[e]
  <1>1. /\ Fields(e) = t.columns
        /\ \A f \in t.columns : /\ FieldKinds[e][f].numeric <=> f \in Numbers
                                /\ FieldKinds[e][f].optional <=> f \in t.nullable
    BY AgreeKinds DEF KindsAgree
  <1>2. "status" \in t.columns /\ "status" \notin t.nullable
    BY AgreeCreate DEF CreateAgrees
  <1>3. DOMAIN r = t.columns
    BY <1>1 DEF StoredRow
  <1>4. \A f \in t.columns : f \notin t.nullable =>
            r[f] = IF e = "OutboxEvent" /\ f = "status" THEN "pending" ELSE Sample(e, f)
    BY <1>1 DEF StoredRow
  <1>5. \A f \in t.columns : f \in Numbers => r[f] \in {NULL, Sample(e, f)}
    BY <1>1 DEF StoredRow, Numbers
  <1> HIDE DEF r
  <1>6. \A f \in t.columns \ t.nullable : r[f] # NULL
    <2>1. \A f \in t.columns : Sample(e, f) # NULL
      BY <1>1, ArgsAre
    <2>2. "pending" # NULL
      BY SettersAssumption DEF Words
    <2> QED BY <1>4, <2>1, <2>2
  <1>7. \A f \in t.columns \cap Numbers : r[f] \in Int \cup {NULL}
    <2>1. \A f \in t.columns \cap Numbers : Sample(e, f) \in Int
      BY <1>1, ArgsAre
    <2> QED BY <1>5, <2>1
  <1>8. r["status"] \in t.enum
    <2>1. ~FieldKinds[e]["status"].numeric
      BY <1>1, <1>2 DEF Numbers
    <2>2. r["status"] = IF e = "OutboxEvent" THEN "pending" ELSE "retrying"
      BY <1>2, <1>4, <2>1 DEF Sample
    <2>3. /\ "retrying" \in Table["Notification"].enum
          /\ "retrying" \in Table["DeliveryAttempt"].enum
          /\ "pending" \in Table["OutboxEvent"].enum
      BY DEF Table, NotificationsTable, DeliveryAttemptsTable, OutboxEventsTable
    <2> QED BY <2>2, <2>3 DEF Entity
  <1> QED BY <1>3, <1>6, <1>7, <1>8 DEF Row, Fits, RowFits, r

\* What a builder of e can be called with.
LEMMA OfferedCalls ==
    ASSUME entity \in Entity, field \in Fields(entity), NEW c \in Offered
    PROVE  c \in BuilderCall(entity)
  <1> DEFINE V == Args(entity, field)
             X == Int \cup Words \cup {NULL}
  <1>1. \A v \in V : v \in X /\ v # NULL /\ (FieldKinds[entity][field].numeric => v \in Int)
    BY ArgsAre
  <1> HIDE DEF V, X
  <1>2. \/ \E v \in V : c \in {SetNamed(field, v), Set(field, v), SetNillable(field, v)}
        \/ c = SetNillable(field, NULL)
        \/ \E v \in V \cup {1} : c = Add(field, v) /\ (FieldKinds[entity][field].numeric => v \in V)
        \/ c = Clear(field) \/ c = Reset(field)
    BY DEF Offered, V
  <1>3. CASE \E v \in V : c \in {SetNamed(field, v), Set(field, v), SetNillable(field, v)}
    BY <1>1, <1>3 DEF SetNamed, Set, SetNillable, BuilderCall, Kinds, Setters, X
  <1>4. CASE c = SetNillable(field, NULL)
    BY <1>4 DEF SetNillable, BuilderCall, Kinds, Setters
  <1>5. CASE \E v \in V \cup {1} : c = Add(field, v) /\ (FieldKinds[entity][field].numeric => v \in V)
    BY <1>1, <1>5 DEF Add, BuilderCall, Kinds, Setters, X
  <1>6. CASE c = Clear(field) \/ c = Reset(field)
    BY <1>6 DEF Clear, Reset, BuilderCall, Kinds, Setters
  <1> QED BY <1>2, <1>3, <1>4, <1>5, <1>6

LEMMA ProvidedCalls ==
    ASSUME entity \in Entity, NEW g \in Needed(entity)
    PROVE  Set(g, Sample(entity, g)) \in BuilderCall(entity)
  <1>1. g \in Fields(entity)
    BY AgreeKinds, AgreeCreate DEF KindsAgree, CreateAgrees, Needed
  <1>2. PICK v : v = Sample(entity, g)
    OBVIOUS
  <1>3. v \in Int \cup Words /\ v # NULL
    BY <1>1, <1>2, ArgsAre
  <1>4. Set(g, v) \in BuilderCall(entity)
    BY <1>1, <1>3 DEF Set, BuilderCall, Kinds, Setters
  <1> QED BY <1>2, <1>4

-----------------------------------------------------------------------------
(***************************************************************************)
(* Until Save, the mutation says of every field what the log of the calls  *)
(* says, and the row is as it was.                                         *)
(***************************************************************************)

Building ==
    /\ entity \in Entity /\ op \in {"create"} \cup UpdateOp /\ field \in Fields(entity)
    /\ IsLog(Log)
    /\ Shaped(mutation) /\ mutation.entity = entity /\ mutation.op = op
    /\ \A f \in Fields(entity) : Reflects(mutation, Log, f)
    /\ before = row /\ (row = NULL \/ Row(entity, row))

LEMMA LogOf == Log.entity = entity /\ Log.op = op /\ Log.calls = history
  BY DEF Log

LEMMA BuildingInit == ASSUME BuilderInit PROVE Building
  <1>1. PICK e \in Entity, o \in {"create", "update", "updateOne"} : \E f \in Fields(e) :
            /\ target = <<e, o, f>>
            /\ mutation = NewMutation(e, o)
            /\ row \in IF o = "create" THEN {NULL}
                       ELSE {StoredRow(e, full) : full \in BOOLEAN} \cup {NULL}
    BY DEF BuilderInit
  <1>2. PICK f \in Fields(e) : target = <<e, o, f>>
    BY <1>1
  <1>3. entity = e /\ op = o /\ field = f
    BY <1>2 DEF entity, op, field
  <1>4. row = NULL \/ \E full \in BOOLEAN : row = StoredRow(e, full)
    BY <1>1
  <1>5. row = NULL \/ Row(e, row)
    BY <1>4, StoredIsRow
  <1>6. Log.calls = <<>>
    BY LogOf DEF BuilderInit
  <1>7. /\ IsLog(Log) /\ Shaped(mutation)
        /\ \A g \in Fields(e) : Reflects(mutation, Log, g)
    BY <1>1, <1>3, <1>6, LogOf, ReflectsNothing
  <1>8. mutation.entity = e /\ mutation.op = o
    BY <1>1 DEF NewMutation
  <1>9. o \in {"create"} \cup UpdateOp
    BY DEF UpdateOp
  <1> QED BY <1>3, <1>5, <1>7, <1>8, <1>9 DEF Building, BuilderInit

LEMMA MadeKeeps ==
    ASSUME Building, NEW c \in BuilderCall(entity), Made(c)
    PROVE  Building'
  <1>1. entity' = entity /\ op' = op /\ field' = field
    BY DEF Made, entity, op, field
  <1>2. PICK b : b = Log
    OBVIOUS
  <1>3. PICK d : d = Log'
    OBVIOUS
  <1>4. Extended(d, b, c) /\ b.entity = entity /\ b.op = op /\ d.entity = entity /\ d.op = op
    BY <1>1, <1>2, <1>3 DEF Log, Made, Extended
  <1>5. IsLog(b)
    BY <1>2 DEF Building
  <1>6. IsLog(d)
    BY <1>4, <1>5, AppendProperties DEF IsLog, Extended
  <1>7. /\ Shaped(mutation') /\ mutation'.entity = entity /\ mutation'.op = op
    BY CalledElsewhere DEF Building, Made
  <1>8. \A f \in Fields(entity) : Reflects(mutation', d, f)
    <2> SUFFICES ASSUME NEW f \in Fields(entity) PROVE Reflects(mutation', d, f)
      OBVIOUS
    <2>1. Reflects(mutation, b, f) /\ Shaped(mutation)
      BY <1>2 DEF Building
    <2>2. mutation.entity = b.entity /\ mutation.op = b.op /\ c \in BuilderCall(b.entity)
      BY <1>4 DEF Building
    <2>3. Reflects(Called(mutation, c), d, f)
      BY <1>4, <1>5, <2>1, <2>2, ReflectsCalled
    <2> QED BY <2>3 DEF Made
  <1>9. before' = row' /\ (row' = NULL \/ Row(entity, row'))
    BY DEF Made, Building
  <1>10. IsLog(Log)' /\ \A f \in Fields(entity) : Reflects(mutation, Log, f)'
    BY <1>3, <1>6, <1>8
  <1> QED BY <1>1, <1>7, <1>9, <1>10 DEF Building

\* What a builder sets is no nil pointer.
LEMMA ValuesNotNil ==
    ASSUME Building, NEW f \in Fields(entity), f \in DOMAIN mutation.value
    PROVE  mutation.value[f] # NULL
  <1>1. PICK b : b = Log
    OBVIOUS
  <1>2. IsLog(b) /\ Reflects(mutation, b, f)
    BY <1>1 DEF Building
  <1>3. PICK k : k = LastSet(b, f)
    OBVIOUS
  <1>4. k > 0 /\ mutation.value[f] = b.calls[k].arg
    BY <1>2, <1>3 DEF Reflects
  <1>5. Len(b.calls) \in Nat /\ k \in 0..Len(b.calls) /\ Counts(b.entity, b.calls[k], f, Setters)
    BY <1>2, <1>3, <1>4, PositionsRange
  <1>6. b.calls[k] \in BuilderCall(b.entity)
    BY <1>2, <1>4, <1>5, LenProperties DEF IsLog
  <1> QED BY <1>4, <1>5, <1>6 DEF Counts, BuilderCall, Setters

-----------------------------------------------------------------------------
(***************************************************************************)
(* Save                                                                    *)
(***************************************************************************)

\* The defaults of a mutation's builder.
DefaultsOf(m) == IF m.op = "create" THEN Defaults[m.entity] ELSE UpdateDefaults[m.entity]

\* defaults() sets what no call set.
LEMMA DefaultedIs ==
    ASSUME NEW m, Shaped(m)
    PROVE  LET d == Defaulted(m)
               D == DefaultsOf(m)
           IN  /\ Shaped(d) /\ d.entity = m.entity /\ d.op = m.op /\ d.cleared = m.cleared
               /\ DOMAIN d.value = DOMAIN m.value \cup DOMAIN D
               /\ \A f \in DOMAIN d.value :
                    d.value[f] = IF f \in DOMAIN m.value THEN m.value[f] ELSE D[f]
               /\ DOMAIN d.added = {f \in DOMAIN m.added :
                                        f \in DOMAIN m.value \/ f \notin DOMAIN D}
               /\ \A f \in DOMAIN d.added : d.added[f] = m.added[f]
  <1> DEFINE D == DefaultsOf(m)
             X == {f \in DOMAIN m.added : f \in DOMAIN m.value \/ f \notin DOMAIN D}
  <1>1. Defaulted(m) = [m EXCEPT !.value = m.value ++ D, !.added = Restrict(m.added, X)]
    BY DEF Defaulted, DefaultsOf, Shaped
  <1>2. PICK v : v = m.value ++ D
    OBVIOUS
  <1>3. PICK a : a = Restrict(m.added, X)
    OBVIOUS
  <1>4. /\ DOMAIN v = DOMAIN m.value \cup DOMAIN D
        /\ \A f \in DOMAIN v : v[f] = IF f \in DOMAIN m.value THEN m.value[f] ELSE D[f]
    BY <1>2 DEF ++
  <1>5. DOMAIN a = X /\ \A f \in X : a[f] = m.added[f]
    BY <1>3 DEF Restrict
  <1> HIDE DEF D, X
  <1>6. PICK d : d = Defaulted(m)
    OBVIOUS
  <1>7. /\ Shaped(d) /\ d.entity = m.entity /\ d.op = m.op /\ d.cleared = m.cleared
        /\ d.value = v /\ d.added = a
    BY <1>1, <1>2, <1>3, <1>6 DEF Shaped
  <1>8. /\ DOMAIN d.value = DOMAIN m.value \cup DOMAIN D
        /\ \A f \in DOMAIN d.value : d.value[f] = IF f \in DOMAIN m.value THEN m.value[f] ELSE D[f]
        /\ DOMAIN d.added = X /\ \A f \in DOMAIN d.added : d.added[f] = m.added[f]
    BY <1>4, <1>5, <1>7
  <1> QED BY <1>6, <1>7, <1>8 DEF D, X

\* What is written is no nil pointer either.
LEMMA DefaultedNotNil ==
    ASSUME Building, NEW f \in Fields(entity), f \in DOMAIN Defaulted(mutation).value
    PROVE  Defaulted(mutation).value[f] # NULL
  <1>1. Shaped(mutation) /\ mutation.entity = entity /\ mutation.op = op /\ entity \in Entity
    BY DEF Building
  <1>2. CASE f \in DOMAIN mutation.value
    <2>1. Defaulted(mutation).value[f] = mutation.value[f]
      BY <1>1, <1>2, DefaultedIs
    <2> QED BY <1>2, <2>1, ValuesNotNil
  <1>3. CASE f \notin DOMAIN mutation.value
    <2>1. f \in DOMAIN DefaultsOf(mutation)
          /\ Defaulted(mutation).value[f] = DefaultsOf(mutation)[f]
      BY <1>1, <1>3, DefaultedIs
    <2>2. CASE op = "create"
      <3>1. DefaultsOf(mutation) = Defaults[entity]
        BY <1>1, <2>2 DEF DefaultsOf
      <3>2. DefaultsOf(mutation)[f] \in Int \cup Words
        BY <1>1, <2>1, <3>1, AgreeCreate DEF CreateAgrees
      <3> QED BY <2>1, <3>2, SettersAssumption
    <2>3. CASE op # "create"
      <3>1. DefaultsOf(mutation) = UpdateDefaults[entity]
        BY <1>1, <2>3 DEF DefaultsOf
      <3>2. DefaultsOf(mutation)[f] = "now"
        BY <1>1, <2>1, <3>1, AgreeUpdate DEF UpdateAgrees
      <3>3. "now" # NULL
        BY SettersAssumption DEF Words
      <3> QED BY <2>1, <3>2, <3>3
    <2> QED BY <2>2, <2>3
  <1> QED BY <1>2, <1>3

LEMMA CreateFits ==
    ASSUME Building, op = "create", CheckCreate(Defaulted(mutation))
    PROVE  Fits(entity, InsertedRow(Defaulted(mutation)))
  <1> DEFINE t == Table[entity]
  <1>1. PICK d : d = Defaulted(mutation)
    OBVIOUS
  <1>2. d.entity = entity /\ entity \in Entity
    BY <1>1, DefaultedIs DEF Building
  <1>3. \A f \in t.columns : f \in DOMAIN d.value => d.value[f] # NULL
    BY <1>1, <1>2, DefaultedNotNil, AgreeKinds DEF KindsAgree
  <1>4. /\ CreateSpec[entity] = t.columns /\ Required[entity] = t.columns \ t.nullable
        /\ Statuses[entity] = t.enum
        /\ "status" \in t.columns /\ "status" \notin t.nullable
    BY <1>2, AgreeCreate DEF CreateAgrees
  <1>5. t.columns \ t.nullable \subseteq DOMAIN d.value
    BY <1>1, <1>2, <1>4 DEF CheckCreate
  <1>6. d.value["status"] \in t.enum
    <2>1. "status" \in DOMAIN d.value
      BY <1>4, <1>5
    <2> QED BY <1>1, <1>2, <1>4, <2>1 DEF CheckCreate, CheckValues, Validates
  <1>7. \A f \in t.columns : f \in DOMAIN d.value => InsertedRow(d)[f] = d.value[f]
    BY <1>2, <1>4 DEF InsertedRow
  <1>8. \A f \in t.columns \ t.nullable : InsertedRow(d)[f] # NULL
    BY <1>3, <1>5, <1>7
  <1>9. InsertedRow(d)["status"] \in t.enum
    BY <1>4, <1>5, <1>6, <1>7
  <1> QED BY <1>1, <1>8, <1>9 DEF Fits, RowFits

\* The clauses of the UPDATE: every column but created_at can be set, the
\* numeric ones added to, the nullable ones cleared.
LEMMA AssignsAre ==
    ASSUME Building, op # "create", NEW d, d = Defaulted(mutation)
    PROVE  LET t == Table[entity]
               a == Assigns(d)
           IN  /\ a.set = (t.columns \ {"created_at"}) \cap DOMAIN d.value
               /\ a.add = t.columns \cap Numbers \cap DOMAIN d.added
               /\ a.clear = t.nullable \cap d.cleared
  <1>1. d.entity = entity /\ d.op = op /\ entity \in Entity /\ op \in UpdateOp
    BY DefaultedIs DEF Building
  <1>2. PICK s : s = UpdateSpec[d.op][d.entity]
    OBVIOUS
  <1>3. /\ s.set = Table[entity].columns \ {"created_at"}
        /\ s.add = Table[entity].columns \cap Numbers
        /\ s.clear = Table[entity].nullable
    BY <1>1, <1>2, AgreeUpdate DEF UpdateAgrees
  <1> QED BY <1>2, <1>3 DEF Assigns

\* What the UPDATE makes of column f, when it assigns no column twice.
LEMMA UpdatedIs ==
    ASSUME NEW d, AssignsTwice(d) = {}, NEW r, NEW f \in DOMAIN r
    PROVE  LET a == Assigns(d)
               u == UpdatedRow(d, r)
           IN  /\ f \in a.set => u[f] = d.value[f] /\ f \notin a.add /\ f \notin a.clear
               /\ f \in a.add => u[f] = d.added[f] + (IF r[f] = NULL THEN 0 ELSE r[f])
                                 /\ f \notin a.clear
               /\ f \in a.clear => u[f] = NULL
               /\ f \notin a.set /\ f \notin a.add /\ f \notin a.clear => u[f] = r[f]
  <1>1. PICK a : a = Assigns(d)
    OBVIOUS
  <1>2. /\ f \in a.set => f \notin a.add /\ f \notin a.clear
        /\ f \in a.add => f \notin a.clear
    BY <1>1 DEF AssignsTwice
  <1>3. PICK w : w = d.added[f] + (IF r[f] = NULL THEN 0 ELSE r[f])
    OBVIOUS
  <1>4. UpdatedRow(d, r)[f] = CASE f \in a.set   -> d.value[f]
                                [] f \in a.add   -> w
                                [] f \in a.clear -> NULL
                                [] OTHER         -> r[f]
    BY <1>1, <1>3 DEF UpdatedRow
  <1> QED BY <1>1, <1>2, <1>3, <1>4

LEMMA UpdateFits ==
    ASSUME Building, op # "create", row # NULL, CheckUpdate(Defaulted(mutation)),
           AssignsTwice(Defaulted(mutation)) = {}
    PROVE  Fits(entity, UpdatedRow(Defaulted(mutation), row))
  <1> DEFINE t == Table[entity]
  <1>1. PICK d : d = Defaulted(mutation)
    OBVIOUS
  <1>2. Shaped(mutation) /\ d.entity = entity /\ entity \in Entity
    BY <1>1, DefaultedIs DEF Building
  <1>3. DOMAIN row = t.columns /\ Fits(entity, row)
        /\ \A f \in t.columns \cap Numbers : row[f] \in Int \cup {NULL}
    BY DEF Building, Row
  <1>4. PICK a : a = Assigns(d)
    OBVIOUS
  <1>5. /\ a.set \subseteq t.columns \cap DOMAIN d.value
        /\ a.add \subseteq t.columns \cap Numbers \cap DOMAIN d.added
        /\ a.clear \subseteq t.nullable
    BY <1>1, <1>4, AssignsAre
  <1>6. PICK u : u = UpdatedRow(d, row)
    OBVIOUS
  <1>7. \A f \in t.columns :
            /\ f \in a.set => u[f] = d.value[f]
            /\ f \in a.add => u[f] = d.added[f] + (IF row[f] = NULL THEN 0 ELSE row[f])
            /\ f \notin a.set /\ f \notin a.add /\ f \notin a.clear => u[f] = row[f]
    BY <1>1, <1>3, <1>4, <1>6, UpdatedIs
  <1>8. \A f \in t.columns : f \in DOMAIN d.value => d.value[f] # NULL
    BY <1>1, <1>2, DefaultedNotNil, AgreeKinds DEF KindsAgree
  <1>9. ASSUME NEW f \in t.columns \ t.nullable PROVE u[f] # NULL
    <2>1. CASE f \in a.set
      BY <1>5, <1>7, <1>8, <2>1
    <2>2. CASE f \in a.add
      <3>1. row[f] \in Int
        BY <1>3, <1>5, <2>2 DEF Fits, RowFits
      <3>2. d.added[f] \in Int
        <4>1. f \in DOMAIN d.added
          BY <1>5, <2>2
        <4>2. f \in DOMAIN mutation.added /\ d.added[f] = mutation.added[f]
          BY <1>1, <1>2, <4>1, DefaultedIs
        <4>3. Reflects(mutation, Log, f) /\ IsLog(Log)
          BY <1>2, AgreeKinds DEF Building, KindsAgree
        <4>4. mutation.added[f] = Added(Log, f, Since(Log, f))
          BY <4>2, <4>3 DEF Reflects
        <4> QED BY <4>2, <4>3, <4>4, AmountsAreNumbers
      <3>3. u[f] = d.added[f] + row[f]
        BY <1>7, <2>2, <3>1, SettersAssumption
      <3> QED BY <3>1, <3>2, <3>3, SettersAssumption
    <2>3. CASE f \notin a.set /\ f \notin a.add
      BY <1>3, <1>5, <1>7, <2>3 DEF Fits, RowFits
    <2> QED BY <2>1, <2>2, <2>3
  <1>10. u["status"] \in t.enum
    <2>1. Statuses[entity] = t.enum /\ "status" \in t.columns /\ "status" \notin t.nullable
      BY <1>2, AgreeCreate DEF CreateAgrees
    <2>2. "status" \notin a.add
      BY <1>5 DEF Numbers
    <2>3. CASE "status" \in a.set
      <3>1. "status" \in DOMAIN d.value
        BY <1>5, <2>3
      <3>2. d.value["status"] \in t.enum
        BY <1>1, <1>2, <2>1, <3>1 DEF CheckUpdate, CheckValues, Validates
      <3> QED BY <1>7, <2>1, <2>3, <3>2
    <2>4. CASE "status" \notin a.set
      BY <1>3, <1>5, <1>7, <2>1, <2>2, <2>4 DEF Fits
    <2> QED BY <2>3, <2>4
  <1> QED BY <1>1, <1>6, <1>9, <1>10 DEF Fits, RowFits

\* Only numeric fields have amounts, only optional ones clear marks.
LEMMA EntriesOf ==
    ASSUME Building, NEW f \in Fields(entity)
    PROVE  /\ f \in Table[entity].columns
           /\ f \in DOMAIN mutation.added => f \in Numbers
           /\ f \in mutation.cleared => f \in Table[entity].nullable
  <1>1. entity \in Entity /\ IsLog(Log) /\ Reflects(mutation, Log, f)
    BY DEF Building
  <1>2. /\ f \in Table[entity].columns
        /\ FieldKinds[entity][f].numeric <=> f \in Numbers
        /\ FieldKinds[entity][f].optional <=> f \in Table[entity].nullable
    BY <1>1, AgreeKinds DEF KindsAgree
  <1>3. PICK b : b = Log
    OBVIOUS
  <1>4. b.entity = entity /\ IsLog(b)
    BY <1>1, <1>3, LogOf
  <1>5. ASSUME f \in DOMAIN mutation.added PROVE f \in Numbers
    <2>1. PICK i : i \in AddsFrom(b, f, Since(b, f))
      BY <1>1, <1>3, <1>5 DEF Reflects
    <2>2. Counts(b.entity, b.calls[i], f, {"add"})
      BY <1>4, <2>1, OnRange DEF AddsFrom
    <2> QED BY <1>2, <1>4, <2>2 DEF Counts
  <1>6. ASSUME f \in mutation.cleared PROVE f \in Table[entity].nullable
    <2>1. PICK S : S = On(b, f, {"clear"}, Start(b, f))
      OBVIOUS
    <2>2. Cleared(b, f) > 0 /\ Cleared(b, f) = LastOf(S)
      BY <1>1, <1>3, <1>6, <2>1 DEF Reflects, Cleared
    <2>3. S # {}
      BY <2>2 DEF LastOf
    <2>4. PICK i : i \in S
      BY <2>3
    <2>5. Counts(b.entity, b.calls[i], f, {"clear"})
      BY <1>4, <2>1, <2>4, OnRange
    <2> QED BY <1>2, <1>4, <2>5 DEF Counts
  <1> QED BY <1>2, <1>5, <1>6

\* Calls contradict each other where two of the three entries are left.
LEMMA ContradictoryIs ==
    ASSUME NEW m, NEW b, IsLog(b), NEW f, Reflects(m, b, f)
    PROVE  Contradictory(b, f) <=> \/ f \in DOMAIN m.value /\ f \in DOMAIN m.added
                                   \/ f \in DOMAIN m.value /\ f \in m.cleared
                                   \/ f \in DOMAIN m.added /\ f \in m.cleared
  <1>1. PICK s, k : s = LastSet(b, f) /\ k = Cleared(b, f)
    OBVIOUS
  <1>2. /\ f \in DOMAIN m.value <=> s > 0
        /\ f \in m.cleared <=> k > 0
        /\ f \in DOMAIN m.added <=> AddsFrom(b, f, Since(b, f)) # {}
    BY <1>1 DEF Reflects
  <1>3. Contradictory(b, f) <=> \/ k > 0 /\ (s > 0 \/ AddsFrom(b, f, k) # {})
                                \/ s > 0 /\ AddsFrom(b, f, s) # {}
    BY <1>1 DEF Contradictory
  <1>4. s > 0 => Since(b, f) = s
    BY <1>1 DEF Since
  <1>5. ~(s > 0) /\ k > 0 => Since(b, f) = k
    BY <1>1 DEF Since
  <1>6. CASE s > 0
    BY <1>2, <1>3, <1>4, <1>6
  <1>7. CASE ~(s > 0)
    BY <1>2, <1>3, <1>5, <1>7
  <1> QED BY <1>6, <1>7

\* The UPDATE assigns the columns twice whose calls contradict each other.
LEMMA TwiceIs ==
    ASSUME Building, op # "create"
    PROVE  AssignsTwice(Defaulted(mutation)) = {f \in Fields(entity) : Contradictory(Log, f)}
  <1> DEFINE t == Table[entity]
             D == DefaultsOf(mutation)
  <1>1. PICK d : d = Defaulted(mutation)
    OBVIOUS
  <1>2. PICK a : a = Assigns(d)
    OBVIOUS
  <1>3. /\ a.set = (t.columns \ {"created_at"}) \cap DOMAIN d.value
        /\ a.add = t.columns \cap Numbers \cap DOMAIN d.added
        /\ a.clear = t.nullable \cap d.cleared
    BY <1>1, <1>2, AssignsAre
  <1>4. entity \in Entity /\ Shaped(mutation) /\ mutation.entity = entity /\ mutation.op = op
    BY DEF Building
  <1>5. D = UpdateDefaults[entity]
    BY <1>4 DEF DefaultsOf
  <1>6. /\ Fields(entity) = t.columns /\ t.nullable \subseteq t.columns
        /\ DOMAIN D = t.columns \cap {"updated_at"}
        /\ "created_at" \notin t.nullable /\ "updated_at" \notin t.nullable
    BY <1>4, <1>5, AgreeKinds, AgreeUpdate, AgreeCreate DEF KindsAgree, UpdateAgrees, CreateAgrees
  <1> HIDE DEF D
  <1>7. /\ DOMAIN d.value = DOMAIN mutation.value \cup DOMAIN D
        /\ d.cleared = mutation.cleared
        /\ DOMAIN d.added = {f \in DOMAIN mutation.added :
                                f \in DOMAIN mutation.value \/ f \notin DOMAIN D}
    BY <1>1, <1>4, DefaultedIs DEF D
  <1>8. "created_at" \notin Numbers /\ "updated_at" \notin Numbers
    BY DEF Numbers
  <1>9. ASSUME NEW f \in t.columns
        PROVE  f \in AssignsTwice(d) <=> Contradictory(Log, f)
    <2>1. /\ f \in DOMAIN mutation.added => f \in Numbers
          /\ f \in mutation.cleared => f \in t.nullable
      BY <1>6, EntriesOf
    <2>2. /\ f \in a.add <=> f \in DOMAIN mutation.added
          /\ f \in a.clear <=> f \in mutation.cleared
      BY <1>3, <1>6, <1>7, <1>8, <2>1
    <2>3. f \in a.add \/ f \in a.clear => (f \in a.set <=> f \in DOMAIN mutation.value)
      BY <1>3, <1>6, <1>7, <1>8
    <2>4. f \in AssignsTwice(d) <=> \/ f \in a.set /\ f \in a.add
                                    \/ f \in a.set /\ f \in a.clear
                                    \/ f \in a.add /\ f \in a.clear
      BY <1>2 DEF AssignsTwice
    <2>5. Contradictory(Log, f) <=> \/ f \in DOMAIN mutation.value /\ f \in DOMAIN mutation.added
                                    \/ f \in DOMAIN mutation.value /\ f \in mutation.cleared
                                    \/ f \in DOMAIN mutation.added /\ f \in mutation.cleared
      <3>1. IsLog(Log) /\ Reflects(mutation, Log, f)
        BY <1>6 DEF Building
      <3> QED BY <3>1, ContradictoryIs
    <2> QED BY <2>2, <2>3, <2>4, <2>5
  <1>10. AssignsTwice(d) \subseteq t.columns
    BY <1>2, <1>3, <1>6 DEF AssignsTwice
  <1> QED BY <1>1, <1>6, <1>9, <1>10

\* What the caller asked of column f: SavedAsAsked's right-hand side.
Asked(e, o, b, f, old) ==
    IF o = "create"
    THEN IF LastSet(b, f) > 0 THEN b.calls[LastSet(b, f)].arg
         ELSE IF f \in DOMAIN Defaults[e] THEN Defaults[e][f]
         ELSE NULL
    ELSE IF f = "created_at" THEN old
    ELSE IF f = "updated_at" /\ LastSet(b, f) = 0 THEN "now"
    ELSE LastWord(b, f, old)

LEMMA CreatedAsAsked ==
    ASSUME Building, op = "create", NEW f \in Table[entity].columns, NEW old
    PROVE  InsertedRow(Defaulted(mutation))[f] = Asked(entity, op, Log, f, old)
  <1> DEFINE D == DefaultsOf(mutation)
  <1>1. PICK d : d = Defaulted(mutation)
    OBVIOUS
  <1>2. entity \in Entity /\ Shaped(mutation) /\ mutation.entity = entity /\ mutation.op = op
    BY DEF Building
  <1>3. D = Defaults[entity]
    BY <1>2 DEF DefaultsOf
  <1> HIDE DEF D
  <1>4. /\ d.entity = entity /\ DOMAIN d.value = DOMAIN mutation.value \cup DOMAIN D
        /\ \A g \in DOMAIN d.value :
                d.value[g] = IF g \in DOMAIN mutation.value THEN mutation.value[g] ELSE D[g]
    BY <1>1, <1>2, DefaultedIs DEF D
  <1>5. InsertedRow(d)[f] = IF f \in DOMAIN d.value THEN d.value[f] ELSE NULL
    BY <1>2, <1>4, AgreeCreate DEF InsertedRow, CreateAgrees
  <1>6. /\ f \in DOMAIN mutation.value <=> LastSet(Log, f) > 0
        /\ f \in DOMAIN mutation.value => mutation.value[f] = Log.calls[LastSet(Log, f)].arg
    BY <1>2, AgreeKinds DEF Building, KindsAgree, Reflects
  <1>7. CASE LastSet(Log, f) > 0
    <2>1. InsertedRow(d)[f] = mutation.value[f]
      BY <1>4, <1>5, <1>6, <1>7
    <2> QED BY <1>1, <1>6, <1>7, <2>1 DEF Asked
  <1>8. CASE ~(LastSet(Log, f) > 0)
    <2>1. InsertedRow(d)[f] = IF f \in DOMAIN D THEN D[f] ELSE NULL
      BY <1>4, <1>5, <1>6, <1>8
    <2> QED BY <1>1, <1>3, <1>8, <2>1 DEF Asked
  <1> QED BY <1>7, <1>8

LEMMA UpdatedAsAsked ==
    ASSUME Building, op # "create", Row(entity, row), AssignsTwice(Defaulted(mutation)) = {},
           NEW f \in Table[entity].columns
    PROVE  UpdatedRow(Defaulted(mutation), row)[f] = Asked(entity, op, Log, f, row[f])
  <1> DEFINE t == Table[entity]
             D == DefaultsOf(mutation)
             old == IF row[f] = NULL THEN 0 ELSE row[f]
  <1>1. PICK d : d = Defaulted(mutation)
    OBVIOUS
  <1>2. PICK a : a = Assigns(d)
    OBVIOUS
  <1>3. PICK u : u = UpdatedRow(d, row)
    OBVIOUS
  <1>4. PICK b : b = Log
    OBVIOUS
  <1>5. /\ a.set = (t.columns \ {"created_at"}) \cap DOMAIN d.value
        /\ a.add = t.columns \cap Numbers \cap DOMAIN d.added
        /\ a.clear = t.nullable \cap d.cleared
    BY <1>1, <1>2, AssignsAre
  <1>6. entity \in Entity /\ Shaped(mutation) /\ mutation.entity = entity /\ mutation.op = op
    BY DEF Building
  <1>7. D = UpdateDefaults[entity]
    BY <1>6 DEF DefaultsOf
  <1>8. /\ Fields(entity) = t.columns /\ t.nullable \subseteq t.columns
        /\ DOMAIN D = t.columns \cap {"updated_at"} /\ (f \in DOMAIN D => D[f] = "now")
        /\ "created_at" \notin t.nullable /\ "updated_at" \notin t.nullable
    BY <1>6, <1>7, AgreeKinds, AgreeUpdate, AgreeCreate DEF KindsAgree, UpdateAgrees, CreateAgrees
  <1>9. "created_at" \notin Numbers /\ "updated_at" \notin Numbers
    BY DEF Numbers
  <1> HIDE DEF D
  <1>10. /\ DOMAIN d.value = DOMAIN mutation.value \cup DOMAIN D
         /\ f \in DOMAIN d.value =>
                d.value[f] = IF f \in DOMAIN mutation.value THEN mutation.value[f] ELSE D[f]
         /\ d.cleared = mutation.cleared
         /\ DOMAIN d.added = {g \in DOMAIN mutation.added :
                                g \in DOMAIN mutation.value \/ g \notin DOMAIN D}
         /\ f \in DOMAIN d.added => d.added[f] = mutation.added[f]
    BY <1>1, <1>6, DefaultedIs DEF D
  <1>11. /\ f \in a.set => u[f] = d.value[f]
         /\ f \in a.add => u[f] = d.added[f] + old
         /\ f \in a.clear => u[f] = NULL
         /\ f \notin a.set /\ f \notin a.add /\ f \notin a.clear => u[f] = row[f]
    BY <1>1, <1>2, <1>3, UpdatedIs DEF Row
  <1>12. /\ f \in DOMAIN mutation.added => f \in Numbers
         /\ f \in mutation.cleared => f \in t.nullable
    BY <1>8, EntriesOf
  <1>13. /\ f \in a.add <=> f \in DOMAIN mutation.added
         /\ f \in a.clear <=> f \in mutation.cleared
    BY <1>5, <1>8, <1>9, <1>10, <1>12
  <1>14. /\ IsLog(b) /\ b.entity = entity /\ Reflects(mutation, b, f)
    BY <1>4, <1>8, LogOf DEF Building
  <1>15. CASE f = "created_at"
    <2>1. u[f] = row[f]
      BY <1>5, <1>8, <1>9, <1>11, <1>15
    <2> QED BY <1>1, <1>3, <1>15, <2>1 DEF Asked
  <1>16. CASE f # "created_at" /\ LastSet(b, f) > 0
    <2>1. f \in DOMAIN mutation.value /\ mutation.value[f] = b.calls[LastSet(b, f)].arg
      BY <1>14, <1>16 DEF Reflects
    <2>2. u[f] = b.calls[LastSet(b, f)].arg
      BY <1>5, <1>10, <1>11, <1>16, <2>1
    <2>3. LastSet(b, f) # 0
      BY <1>16
    <2>4. Asked(entity, op, b, f, row[f]) = b.calls[LastSet(b, f)].arg
      BY <1>16, <2>3 DEF Asked, LastWord
    <2> QED BY <1>1, <1>3, <1>4, <2>2, <2>4
  <1>17. CASE f # "created_at" /\ ~(LastSet(b, f) > 0)
    <2>1. f \notin DOMAIN mutation.value /\ LastSet(b, f) = 0
      BY <1>14, <1>17, PositionsRange DEF Reflects
    <2>2. CASE f = "updated_at"
      <3>1. u[f] = "now"
        BY <1>5, <1>8, <1>10, <1>11, <1>17, <2>1, <2>2
      <3> QED BY <1>1, <1>3, <1>4, <2>1, <2>2, <3>1 DEF Asked
    <2>3. CASE f # "updated_at"
      <3>1. f \notin a.set
        BY <1>5, <1>8, <1>10, <2>1, <2>3
      <3>2. Asked(entity, op, b, f, row[f]) = LastWord(b, f, row[f])
        BY <1>17, <2>3 DEF Asked
      <3>3. u[f] = LastWord(b, f, row[f])
        <4>1. CASE Cleared(b, f) > 0
          <5>1. u[f] = NULL
            BY <1>11, <1>13, <1>14, <4>1 DEF Reflects
          <5> QED BY <1>17, <4>1, <5>1 DEF LastWord
        <4>2. CASE ~(Cleared(b, f) > 0)
          <5>1. Since(b, f) = Start(b, f) /\ f \notin a.clear
            BY <1>13, <1>14, <1>17, <4>2 DEF Since, Reflects
          <5>2. CASE AddsFrom(b, f, Start(b, f)) # {}
            <6>1. f \in DOMAIN mutation.added /\ mutation.added[f] = Added(b, f, Start(b, f))
              BY <1>14, <5>1, <5>2 DEF Reflects
            <6>2. f \in a.add /\ f \in DOMAIN d.added
              BY <1>5, <1>13, <6>1
            <6>3. u[f] = Added(b, f, Start(b, f)) + old
              BY <1>10, <1>11, <6>1, <6>2
            <6>4. LastWord(b, f, row[f]) = Added(b, f, Start(b, f)) + old
              BY <1>17, <4>2, <5>2 DEF LastWord
            <6> QED BY <6>3, <6>4
          <5>3. CASE AddsFrom(b, f, Start(b, f)) = {}
            <6>1. f \notin a.add
              BY <1>13, <1>14, <5>1, <5>3 DEF Reflects
            <6> QED BY <1>11, <1>17, <3>1, <4>2, <5>1, <5>3, <6>1 DEF LastWord
          <5> QED BY <5>2, <5>3
        <4> QED BY <4>1, <4>2
      <3> QED BY <1>1, <1>3, <1>4, <3>2, <3>3
    <2> QED BY <2>2, <2>3
  <1> QED BY <1>15, <1>16, <1>17

-----------------------------------------------------------------------------
(***************************************************************************)
(* The builder's theorems                                                  *)
(***************************************************************************)

BuilderInv == saved = "none" => Building

BuilderOk == SavedAsAsked /\ MalformedOnlyIfContradictory /\ ChecksCoverTable

\* Before Save, and without a builder, there is nothing to compare.
LEMMA NotSaved == saved \in {"none", "unused"} => BuilderOk
  BY DEF BuilderOk, SavedAsAsked, MalformedOnlyIfContradictory, ChecksCoverTable

LEMMA AsAskedAfter ==
    ASSUME UNCHANGED <<target, history, before>>,
           saved' = "ok" => \A f \in Table[entity].columns :
                                row'[f] = Asked(entity, op, Log, f, before[f])
    PROVE  SavedAsAsked'
  <1>1. entity' = entity /\ op' = op /\ Log' = Log /\ before' = before /\ history' = history
    BY DEF entity, op, Log
  <1>2. Log.calls = history
    BY LogOf
  <1> QED BY <1>1, <1>2 DEF SavedAsAsked, Asked

LEMMA SaveCreateKeeps ==
    ASSUME Building, SaveCreate
    PROVE  saved' # "none" /\ BuilderOk'
  <1> DEFINE d == Defaulted(mutation)
  <1>1. mutation.entity = entity /\ op = "create" /\ op' = op
    BY DEF Building, SaveCreate, op
  <1>2. CheckCreate(d) => Fits(entity, InsertedRow(d))
    BY <1>1, CreateFits
  <1>3. /\ saved' \in {"ValidationError", "ok"}
        /\ saved' = "ok" => CheckCreate(d) /\ row' = InsertedRow(d)
    BY <1>1, <1>2 DEF SaveCreate, CreateAnswer, Fits
  <1>4. SavedAsAsked'
    <2>1. saved' = "ok" => row' = InsertedRow(d)
      BY DEF SaveCreate
    <2>2. \A f \in Table[entity].columns :
            InsertedRow(d)[f] = Asked(entity, op, Log, f, before[f])
      BY <1>1, CreatedAsAsked
    <2> HIDE DEF d
    <2>3. saved' = "ok" => \A f \in Table[entity].columns :
                                row'[f] = Asked(entity, op, Log, f, before[f])
      BY <2>1, <2>2
    <2> QED BY <2>3, AsAskedAfter DEF SaveCreate
  <1>5. MalformedOnlyIfContradictory'
    BY <1>1 DEF MalformedOnlyIfContradictory
  <1>6. ChecksCoverTable'
    <2>1. entity' = entity
      BY DEF SaveCreate, entity
    <2> QED BY <1>2, <1>3, <2>1 DEF ChecksCoverTable, Fits
  <1> QED BY <1>3, <1>4, <1>5, <1>6 DEF BuilderOk

LEMMA SaveUpdateKeeps ==
    ASSUME Building, SaveUpdate
    PROVE  saved' # "none" /\ BuilderOk'
  <1> DEFINE d == Defaulted(mutation)
             twice == AssignsTwice(d) # {}
             nobody == IF op = "update" THEN "none affected" ELSE "NotFoundError"
             fits == RowFits(entity, UpdatedRow(d, row))
             ok == CheckUpdate(d) /\ ~twice /\ row # NULL
  <1>1. mutation.entity = entity /\ mutation.op = op /\ op # "create" /\ before = row
    BY DEF Building, SaveUpdate
  <1>2. entity' = entity /\ op' = op /\ Log' = Log
    BY DEF SaveUpdate, entity, op, Log
  <1>3. saved' = IF ~CheckUpdate(d) THEN "ValidationError"
                 ELSE IF twice THEN "SyntaxError"
                 ELSE IF row = NULL THEN nobody
                 ELSE IF ~fits THEN "ConstraintError" ELSE "ok"
    BY <1>1 DEF SaveUpdate, UpdateAnswer
  <1>4. ok => Fits(entity, UpdatedRow(d, row))
    BY <1>1, UpdateFits
  <1>5. nobody \in {"none affected", "NotFoundError"}
    OBVIOUS
  <1>6. twice <=> \E f \in Fields(entity) : Contradictory(Log, f)
    BY <1>1, TwiceIs
  <1>7. saved' = "ok" => \A f \in Table[entity].columns :
                            row'[f] = Asked(entity, op, Log, f, before[f])
    <2> SUFFICES ASSUME saved' = "ok", NEW f \in Table[entity].columns
                 PROVE  row'[f] = Asked(entity, op, Log, f, before[f])
      OBVIOUS
    <2>1. ~twice /\ row # NULL
      BY <1>3, <1>5
    <2>2. Row(entity, row)
      BY <2>1 DEF Building
    <2>3. UpdatedRow(d, row)[f] = Asked(entity, op, Log, f, row[f])
      BY <1>1, <2>1, <2>2, UpdatedAsAsked
    <2>4. row' = UpdatedRow(d, row)
      BY DEF SaveUpdate
    <2> QED BY <1>1, <2>3, <2>4
  <1>8. SavedAsAsked'
    BY <1>7, AsAskedAfter DEF SaveUpdate
  <1>12. ok => fits /\ UpdatedRow(d, row)["status"] \in Table[entity].enum
    BY <1>4 DEF Fits
  <1>13. saved' = "ok" => row' = UpdatedRow(d, row)
    BY DEF SaveUpdate
  <1> HIDE DEF d, twice, nobody, fits
  <1>9. saved' \notin {"none", "unused", "ConstraintError"}
    BY <1>3, <1>5, <1>12
  <1>10. saved' # "ValidationError" => (saved' = "SyntaxError" <=> twice)
    BY <1>3, <1>5
  <1>11. MalformedOnlyIfContradictory'
    BY <1>2, <1>6, <1>10 DEF MalformedOnlyIfContradictory
  <1>14. saved' = "ok" => row'["status"] \in Table[entity'].enum
    BY <1>2, <1>3, <1>5, <1>12, <1>13
  <1> QED BY <1>8, <1>9, <1>11, <1>14 DEF BuilderOk, ChecksCoverTable

LEMMA BuilderStepKeeps ==
    ASSUME BuilderInv, BuilderStep
    PROVE  BuilderInv' /\ BuilderOk'
  <1>1. saved = "none" /\ Building
    BY DEF BuilderInv, BuilderStep, SaveCreate, SaveUpdate
  <1>2. entity \in Entity /\ field \in Fields(entity)
    BY <1>1 DEF Building
  <1>3. ASSUME NEW c \in BuilderCall(entity), Made(c) PROVE BuilderInv' /\ BuilderOk'
    <2>1. Building'
      BY <1>1, <1>3, MadeKeeps
    <2>2. saved' = "none"
      BY <1>3 DEF Made
    <2>3. BuilderOk'
      BY <2>2 DEF BuilderOk, SavedAsAsked, MalformedOnlyIfContradictory, ChecksCoverTable
    <2> QED BY <2>1, <2>3 DEF BuilderInv
  <1>4. CASE \E c \in Offered : CallSetter(c)
    <2>1. PICK c \in Offered : Made(c)
      BY <1>4 DEF CallSetter
    <2>2. c \in BuilderCall(entity)
      BY <1>2, OfferedCalls
    <2> QED BY <1>3, <2>1, <2>2
  <1>5. CASE \E g \in Needed(entity) \ {field} : Provide(g)
    <2>1. PICK g \in Needed(entity) : Made(Set(g, Sample(entity, g)))
      BY <1>5 DEF Provide
    <2>2. Set(g, Sample(entity, g)) \in BuilderCall(entity)
      BY <1>2, ProvidedCalls
    <2> QED BY <1>3, <2>1, <2>2
  <1>6. CASE SaveCreate
    BY <1>1, <1>6, SaveCreateKeeps DEF BuilderInv
  <1>7. CASE SaveUpdate
    BY <1>1, <1>7, SaveUpdateKeeps DEF BuilderInv
  <1> QED BY <1>4, <1>5, <1>6, <1>7 DEF BuilderStep

LEMMA BuilderInductive ==
    /\ Init => BuilderInv /\ BuilderOk
    /\ (BuilderInv /\ BuilderOk) /\ [Next]_vars => (BuilderInv /\ BuilderOk)'
  <1>1. ASSUME Init PROVE BuilderInv /\ BuilderOk
    <2>1. CASE BuilderInit
      BY <2>1, BuildingInit, NotSaved DEF BuilderInv, BuilderInit
    <2>2. CASE NoBuilder
      BY <2>2, NotSaved DEF BuilderInv, NoBuilder
    <2> QED BY <1>1, <2>1, <2>2 DEF Init
  <1>2. ASSUME BuilderInv, BuilderOk, [Next]_vars PROVE BuilderInv' /\ BuilderOk'
    <2>1. CASE BuilderStep
      BY <1>2, <2>1, BuilderStepKeeps
    <2>2. CASE UNCHANGED builderVars
      <3>1. BuilderInv'
        BY <1>2, <2>2 DEF builderVars, BuilderInv, Building, entity, op, field, Log
      <3>2. BuilderOk'
        BY <1>2, <2>2 DEF builderVars, BuilderOk, SavedAsAsked, MalformedOnlyIfContradictory,
                          ChecksCoverTable, entity, op, Log
      <3> QED BY <3>1, <3>2
    <2> QED BY <1>2, <2>1, <2>2 DEF Next, vars
  <1> QED BY <1>1, <1>2

\* For any number of calls, a saved row holds the last word on every column.
THEOREM SavesAsAsked == Spec => []SavedAsAsked
  <1>1. BuilderOk => SavedAsAsked
    BY DEF BuilderOk
  <1> QED BY <1>1, BuilderInductive, PTL DEF Spec

\* An update is refused as malformed exactly when its calls contradict each
\* other on a column.
THEOREM MalformedIffContradictory == Spec => []MalformedOnlyIfContradictory
  <1>1. BuilderOk => MalformedOnlyIfContradictory
    BY DEF BuilderOk
  <1> QED BY <1>1, BuilderInductive, PTL DEF Spec

\* check() refuses every statement that the table's constraints would, and
\* every status outside the enum, which they would not.
THEOREM ChecksCover == Spec => []ChecksCoverTable
  <1>1. BuilderOk => ChecksCoverTable
    BY DEF BuilderOk
  <1> QED BY <1>1, BuilderInductive, PTL DEF Spec
=============================================================================
