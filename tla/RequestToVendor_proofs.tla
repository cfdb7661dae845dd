----------------------- MODULE RequestToVendor_proofs -----------------------
(***************************************************************************)
(* Proofs about the service between its clients and its vendors: what is   *)
(* stored is its own normal form, every address called is public, the      *)
(* dialer refuses no host for itself that comes to it as it was accepted,  *)
(* and an answer says what happened.                                       *)
(***************************************************************************)
EXTENDS RequestToVendor, SequenceTheorems, TLAPS

(***************************************************************************)
(* Validation and hosts                                                    *)
(***************************************************************************)
LEMMA MethodNormal ==
    ASSUME NEW m PROVE NormalMethod(NormalMethod(m)) = NormalMethod(m)
  BY DEF NormalMethod, UpperTrimmed

LEMMA NormalisedShape ==
    ASSUME NEW r \in Request
    PROVE  LET n == Normalised(r)
           IN  /\ n.method = NormalMethod(r.method)
               /\ n.url = [r.url EXCEPT !.spaced = FALSE]
               /\ n.url.host = r.url.host /\ ~n.url.spaced
               /\ n.max_attempts = NormalMaxAttempts(r.max_attempts)
               /\ n.body = r.body
               /\ n.headers = NormalHeaders(r.headers)
  BY DEF Normalised, NormalURL, Request

LEMMA NormalisedIsRequest ==
    ASSUME NEW r \in Request
    PROVE  Normalised(r) \in Request
  <1>1. NormalMethod(r.method) \in {"POST", "PUT", "PATCH", "GET", "", "post", " Put ", " ", "get"}
    BY DEF Request, NormalMethod, UpperTrimmed
  <1>2. NormalURL(r.url) \in [ absolute : BOOLEAN, scheme : {"http", "https", "ftp"},
                               host : Host, spaced : BOOLEAN ]
    BY DEF Request, NormalURL
  <1>3. NormalMaxAttempts(r.max_attempts) \in Int
    <2>1. r.max_attempts \in Int
      BY DEF Request
    <2> QED
      BY <2>1 DEF NormalMaxAttempts
  <1>4. NormalHeaders(r.headers)
          \in {NULL} \cup SUBSET Header
    BY DEF NormalHeaders, Request
  <1> QED
    BY <1>1, <1>2, <1>3, <1>4 DEF Request, Normalised

\* What was normalised once is its own normal form.
LEMMA NormalisedTwice ==
    ASSUME NEW r \in Request
    PROVE  Normalised(Normalised(r)) = Normalised(r)
  <1> DEFINE n == Normalised(r)
  <1>1. n \in Request
    BY NormalisedIsRequest
  <1>2. NormalMethod(n.method) = n.method
    BY NormalisedShape, MethodNormal
  <1>3. NormalURL(n.url) = n.url
    BY <1>1, NormalisedShape DEF NormalURL, Request
  <1>4. NormalMaxAttempts(n.max_attempts) = n.max_attempts
    BY NormalisedShape DEF NormalMaxAttempts
  <1>5. NormalHeaders(n.headers) = n.headers
    BY NormalisedShape, NilAssumption DEF NormalHeaders
  <1>6. Normalised(n) = [ method |-> n.method, url |-> n.url, max_attempts |-> n.max_attempts,
                          body |-> n.body, headers |-> n.headers ]
    BY <1>2, <1>3, <1>4, <1>5 DEF Normalised
  <1>7. n = [ method |-> n.method, url |-> n.url, max_attempts |-> n.max_attempts,
              body |-> n.body, headers |-> n.headers ]
    BY DEF Normalised
  <1> QED
    BY <1>6, <1>7

\* A request that is valid as it is stored.
Stored(req) ==
    /\ req \in Request
    /\ Normalised(req) = req
    /\ Acceptable(req)

LEMMA ValidatedIsStored ==
    ASSUME NEW r \in Request, ValidateCreateRequest(r) # Invalid
    PROVE  /\ Stored(ValidateCreateRequest(r))
           /\ ValidateCreateRequest(r).url.host = r.url.host
  <1>1. Acceptable(r) /\ ValidateCreateRequest(r) = Normalised(r)
    BY DEF ValidateCreateRequest
  <1>2. Normalised(r) \in Request /\ Normalised(Normalised(r)) = Normalised(r)
    BY <1>1, NormalisedIsRequest, NormalisedTwice
  <1>3. Acceptable(Normalised(r))
    BY <1>1, <1>2 DEF Acceptable
  <1> QED
    BY <1>1, <1>2, <1>3, NormalisedShape DEF Stored

LEMMA StoredIsNormal ==
    ASSUME NEW req, Stored(req)
    PROVE  /\ req.method \in AllowedMethods
           /\ ~req.url.spaced /\ req.headers # NULL
           /\ req.max_attempts \in 1..20
           /\ ValidateCreateRequest(req) = req
           /\ req.url.host \in Host /\ ~RejectBlockedHost(req.url.host)
  <1>1. ~req.url.spaced
    BY NormalisedShape DEF Stored
  <1>2. req.headers # NULL
    BY NormalisedShape, NilAssumption DEF Stored, NormalHeaders
  <1>3. req.url.host \in Host
    BY DEF Stored, Request
  <1> QED
    BY <1>1, <1>2, <1>3 DEF Stored, Acceptable, URLValid, ValidateCreateRequest

PublicAddr == {a \in Addr : a.range = "public"}

\* A host the boundary accepts.
Dialable == {h \in Host : ~RejectBlockedHost(h) /\ NameKnown(h)}

LEMMA AddrNotRejected ==
    ASSUME NEW a \in Addr, ~RejectBlockedAddr(a)
    PROVE  a \in PublicAddr
  BY DEF Addr, PublicAddr, RejectBlockedAddr, InPrefix, Range4, Internal

\* A host that is not refused and that parses as an address is a public one.
LEMMA ParsedIsPublic ==
    ASSUME NEW h \in Host, ~RejectBlockedHost(h), Parses(h)
    PROVE  h.addr \in PublicAddr
  <1>1. h.kind = "addr"
    BY DEF Parses
  <1>2. h.addr \in Addr
    <2>1. h # NoHost /\ h \notin [kind : {"name"}, name : STRING]
      BY <1>1 DEF NoHost
    <2> QED
      BY <2>1 DEF Host
  <1>3. RejectBlockedHost(h) <=> RejectBlockedAddr(h.addr)
    BY <1>1 DEF RejectBlockedHost
  <1> QED
    BY <1>2, <1>3, AddrNotRejected

\* What is dialled for an accepted host is again a host.
LEMMA ConvertedIsHost ==
    ASSUME NEW h \in Host
    PROVE  ToASCII(h) \in Host
  BY IDNAAssumption DEF ToASCII

-----------------------------------------------------------------------------
(***************************************************************************)
(* Connections                                                             *)
(***************************************************************************)
Delivery == [ pc : {"idle", "unsendable", "resolve", "dial", "sent"}, host : Host,
              addr : PublicAddr \cup {NULL}, reused : BOOLEAN ]

\* A worker calls hosts the boundary accepted, on addresses that were checked.
ConnInv ==
    /\ dns \in [Names -> Answers]
    /\ deliver \in [Worker -> Delivery]
    /\ \A w \in Worker :
         /\ deliver[w].pc # "idle" => deliver[w].host \in Dialable
         /\ deliver[w].pc \in {"dial", "sent"} => deliver[w].addr \in PublicAddr
    /\ pool \subseteq [host : Host, addr : PublicAddr]
    /\ LayersAgree

LEMMA DialableIsHost == Dialable \subseteq Host
  BY DEF Dialable

LEMMA ConnInvInit == Init => ConnInv
  BY DEF Init, ConnectionInit, ConnInv, Idle, Delivery, Host, LayersAgree

\* Deliver comes to a delivery that is in order, and changes nothing else but
\* the connections that are kept.
LEMMA DeliverBecomes ==
    ASSUME ConnInv, NEW w \in Worker, NEW d \in Delivery,
           d.pc # "idle" => d.host \in Dialable,
           d.pc \in {"dial", "sent"} => d.addr \in PublicAddr,
           deliver' = [deliver EXCEPT ![w] = d],
           pool' \subseteq [host : Host, addr : PublicAddr],
           UNCHANGED dns, LayersAgree'
    PROVE  ConnInv'
  BY DEF ConnInv

LEMMA ReturnKeeps ==
    ASSUME ConnInv, NEW w \in Worker, Return(w),
           pool' \subseteq [host : Host, addr : PublicAddr],
           UNCHANGED dns, LayersAgree'
    PROVE  ConnInv'
  <1>1. Idle \in Delivery /\ Idle.pc = "idle"
    BY DEF Idle, Delivery, Host
  <1> QED
    BY <1>1, DeliverBecomes DEF Return

LEMMA ConnectKeeps ==
    ASSUME ConnInv, NEW w \in Worker, NEW h \in Dialable, Connect(w, h), UNCHANGED <<dns, refused>>
    PROVE  ConnInv'
  <1>0. LayersAgree'
    BY DEF ConnInv, LayersAgree
  <1>1. CASE /\ deliver' = [deliver EXCEPT ![w] =
                  [pc |-> "resolve", host |-> h, addr |-> NULL, reused |-> FALSE]]
             /\ UNCHANGED pool
    <2> DEFINE d == [pc |-> "resolve", host |-> h, addr |-> NULL, reused |-> FALSE]
    <2>1. d \in Delivery /\ d.pc = "resolve" /\ d.host = h
      BY DialableIsHost DEF Delivery
    <2>2. pool' \subseteq [host : Host, addr : PublicAddr]
      BY <1>1 DEF ConnInv
    <2> HIDE DEF d
    <2>3. deliver' = [deliver EXCEPT ![w] = d]
      BY <1>1 DEF d
    <2> QED
      BY <1>0, <2>1, <2>2, <2>3, DeliverBecomes
  <1>2. ASSUME NEW c \in pool,
               /\ deliver' = [deliver EXCEPT ![w] =
                    [pc |-> "sent", host |-> h, addr |-> c.addr, reused |-> TRUE]]
               /\ pool' = pool \ {c}
        PROVE  ConnInv'
    <2> DEFINE d == [pc |-> "sent", host |-> h, addr |-> c.addr, reused |-> TRUE]
    <2>0. c.addr \in PublicAddr
      BY DEF ConnInv
    <2>1. d \in Delivery /\ d.pc = "sent" /\ d.host = h /\ d.addr \in PublicAddr
      BY <2>0, DialableIsHost DEF Delivery
    <2>2. pool' \subseteq [host : Host, addr : PublicAddr]
      BY <1>2 DEF ConnInv
    <2> HIDE DEF d
    <2>3. deliver' = [deliver EXCEPT ![w] = d]
      BY <1>2 DEF d
    <2> QED
      BY <1>0, <2>1, <2>2, <2>3, DeliverBecomes
  <1> QED
    BY <1>1, <1>2 DEF Connect

LEMMA BeginKeeps ==
    ASSUME ConnInv, NEW w \in Worker, NEW h \in Dialable, NEW headers, Begin(w, h, headers)
    PROVE  ConnInv'
  <1>1. CASE Sendable(headers)
    BY <1>1, ConnectKeeps DEF Begin
  <1>2. CASE ~Sendable(headers)
    <2> DEFINE d == [Idle EXCEPT !.pc = "unsendable", !.host = h]
    <2>1. d \in Delivery /\ d.pc = "unsendable" /\ d.host = h
      BY DialableIsHost DEF Delivery, Idle
    <2>2. /\ deliver' = [deliver EXCEPT ![w] = d]
          /\ pool' \subseteq [host : Host, addr : PublicAddr] /\ LayersAgree' /\ UNCHANGED dns
      BY <1>2 DEF Begin, ConnInv, LayersAgree
    <2> HIDE DEF d
    <2> QED
      BY <2>1, <2>2, DeliverBecomes
  <1> QED
    BY <1>1, <1>2

\* The address to dial is public, and only a host that the same check would
\* not have accepted is refused without asking DNS.
LEMMA ResolvedIsPublic ==
    ASSUME ConnInv, NEW h \in Host, RejectBlockedHost(h) \/ Parses(h) \/ h \in Names
    PROVE  LET r == ResolvePublicAddress(h)
           IN  /\ r.err = "nil" => r.addr \in PublicAddr
               /\ r.err = "host" => RejectBlockedHost(h)
  <1>1. CASE RejectBlockedHost(h)
    BY <1>1 DEF ResolvePublicAddress
  <1>2. CASE ~RejectBlockedHost(h) /\ Parses(h)
    BY <1>2, ParsedIsPublic DEF ResolvePublicAddress
  <1>3. CASE ~RejectBlockedHost(h) /\ ~Parses(h)
    <2>1. h \in Names
      BY <1>3
    <2>2. dns[h] \in Seq(Addr)
      BY <2>1, ConnectionAssumption DEF ConnInv
    <2>3. CASE dns[h] = <<>> \/ \E i \in 1..Len(dns[h]) : RejectBlockedAddr(dns[h][i])
      BY <1>3, <2>3 DEF ResolvePublicAddress
    <2>4. CASE dns[h] # <<>> /\ \A i \in 1..Len(dns[h]) : ~RejectBlockedAddr(dns[h][i])
      <3>1. 1 \in 1..Len(dns[h]) /\ dns[h][1] \in Addr
        BY <2>2, <2>4
      <3>2. dns[h][1] \in PublicAddr
        BY <2>4, <3>1, AddrNotRejected
      <3>3. ResolvePublicAddress(h) = [err |-> "nil", addr |-> dns[h][1]]
        BY <1>3, <2>4 DEF ResolvePublicAddress
      <3> QED
        BY <3>2, <3>3
    <2> QED
      BY <2>3, <2>4
  <1> QED
    BY <1>1, <1>2, <1>3

LEMMA BecomeKeeps ==
    ASSUME ConnInv, NEW w \in Worker, NEW pc \in {"dial", "sent"}, NEW a \in PublicAddr,
           deliver[w].pc # "idle", Become(w, pc, a), UNCHANGED <<dns, pool>>, LayersAgree'
    PROVE  ConnInv'
  <1> DEFINE d == [deliver[w] EXCEPT !.pc = pc, !.addr = a]
  <1>1. deliver' = [deliver EXCEPT ![w] = d]
    BY DEF Become, ConnInv
  <1>2. deliver[w] \in Delivery /\ deliver[w].host \in Dialable
    BY DEF ConnInv
  <1>3. d \in Delivery /\ d.pc = pc /\ d.host = deliver[w].host /\ d.addr = a
    BY <1>2 DEF Delivery
  <1>4. LayersAgree' /\ pool' \subseteq [host : Host, addr : PublicAddr]
    BY DEF ConnInv, LayersAgree
  <1> HIDE DEF d
  <1> QED
    BY <1>1, <1>2, <1>3, <1>4, DeliverBecomes

LEMMA DeliverStepKeeps ==
    ASSUME ConnInv, NEW w \in Worker, DeliverStep(w)
    PROVE  ConnInv'
  <1>1. CASE Resend(w)
    <2>1. deliver[w].host \in Dialable
      BY <1>1 DEF Resend, ConnInv
    <2> QED
      BY <1>1, <2>1, ConnectKeeps DEF Resend
  <1>2. CASE Resolve(w)
    <2> DEFINE h == deliver[w].host
               r == ResolvePublicAddress(ToASCII(h))
    <2>1. h \in Dialable /\ deliver[w].pc = "resolve"
      BY <1>2 DEF Resolve, ConnInv
    <2>2. /\ r.err = "nil" => r.addr \in PublicAddr
          /\ r.err = "host" => RejectBlockedHost(ToASCII(h))
      BY <2>1, ConvertedIsHost, ResolvedIsPublic DEF Dialable, NameKnown
    <2>3. r.err = "host" => ToASCII(h) # h
      BY <2>1, <2>2 DEF Dialable
    <2> HIDE DEF r
    <2>4. LayersAgree'
      <3>1. refused' = IF r.err = "host" THEN refused \cup {h} ELSE refused
        BY <1>2 DEF Resolve, r
      <3> QED
        BY <2>3, <3>1 DEF ConnInv, LayersAgree
    <2>5. CASE r.err = "nil"
      <3>1. Become(w, "dial", r.addr)
        BY <1>2, <2>5 DEF Resolve, r
      <3> QED
        BY <1>2, <2>1, <2>2, <2>4, <2>5, <3>1, BecomeKeeps DEF Resolve
    <2>6. CASE r.err # "nil"
      <3>1. Return(w)
        BY <1>2, <2>6 DEF Resolve, r
      <3> QED
        BY <1>2, <2>4, <3>1, ReturnKeeps DEF Resolve, ConnInv
    <2> QED
      BY <2>5, <2>6
  <1>3. CASE Dial(w)
    <2>1. deliver[w].addr \in PublicAddr /\ deliver[w].pc # "idle"
      BY <1>3 DEF Dial, ConnInv
    <2>2. CASE Become(w, "sent", deliver[w].addr)
      BY <1>3, <2>1, <2>2, BecomeKeeps DEF Dial, ConnInv, LayersAgree
    <2>3. CASE Return(w)
      BY <1>3, <2>3, ReturnKeeps DEF Dial, ConnInv, LayersAgree
    <2> QED
      BY <1>3, <2>2, <2>3 DEF Dial
  <1>4. CASE Finish(w)
    <2>1. deliver[w].host \in Dialable /\ deliver[w].addr \in PublicAddr
      BY <1>4 DEF Finish, ConnInv
    <2>2. ToASCII(deliver[w].host) \in Host
      BY <2>1, ConvertedIsHost, DialableIsHost
    <2>3. pool' \subseteq [host : Host, addr : PublicAddr]
      BY <1>4, <2>1, <2>2 DEF Finish, ConnInv
    <2> QED
      BY <1>4, <2>3, ReturnKeeps DEF Finish, ConnInv, LayersAgree
  <1>5. CASE Unsendable(w)
    BY <1>5, ReturnKeeps DEF Unsendable, ConnInv, LayersAgree
  <1> QED
    BY <1>1, <1>2, <1>3, <1>4, <1>5 DEF DeliverStep

LEMMA OutsideKeeps ==
    ASSUME ConnInv, Outside
    PROVE  ConnInv'
  BY DEF Outside, DnsChanges, Closes, ConnInv, LayersAgree

-----------------------------------------------------------------------------
(***************************************************************************)
(* The rows and the calls                                                  *)
(***************************************************************************)
KnownRequest == {r \in Request : NameKnown(r.url.host)}
StoredRequest == {r \in KnownRequest : Stored(r)}

Row == [ req : StoredRequest, call : Nat, requeued_by : SUBSET Nat,
         status : {"pending", "delivering", "retrying", "failed", "succeeded"} ]

Place == {"received", "service", "answering", "done"}
Error == {"nil", "ErrInvalid", "ErrNotFound", "ErrConflict", "database"}
Code == {NoAnswer, 200, 202, 400, 404, 409, 500}

Call == [ op : {"create", "retry", "get", "attempts"}, req : KnownRequest \cup {NULL}, id : Int,
          pc : Place, err : Error, answer : Code ]

IntakeType ==
    /\ rows \in Seq(Row)
    /\ calls \in Seq(Call)
    /\ \A c \in CallID :
         calls[c].op = "create" /\ calls[c].pc = "service" => calls[c].req \in KnownRequest

\* What the calls did is on the rows they did it to; an id a call was given
\* stays the id of a row.
Known ==
    /\ \A i \in 1..Len(rows) : rows[i].call \in CallID /\ rows[i].requeued_by \subseteq CallID
    /\ \A c \in CallID :
         /\ calls[c].id \in -1..Len(rows)
         /\ calls[c].op = "retry" /\ calls[c].pc = "service" => calls[c].id >= 0

\* Call c made, or requeued, row i.
Did(c, i) == IF calls[c].op = "create" THEN rows[i].call = c ELSE c \in rows[i].requeued_by

DidNothing(c) == \A i \in 1..Len(rows) : ~Did(c, i)
DidSomething(c) == \E i \in 1..Len(rows) : Did(c, i)

\* Before the transaction a call did nothing; after it, its error tells, and
\* so does its answer.
SaysRight(call, nothing, something) ==
    /\ call.pc \in {"received", "service"} => nothing /\ call.err = "nil"
    /\ call.pc # "done" => call.answer = NoAnswer
    /\ call.op \in {"get", "attempts"} => nothing
    /\ call.err \in {"ErrInvalid", "ErrNotFound", "ErrConflict"} => nothing
    /\ call.pc = "answering" /\ call.err = "nil" /\ call.op \in {"create", "retry"} => something
    /\ call.answer = 202 => something
    /\ call.answer \in {200, 400, 404, 409} => nothing

CallSaid(c) ==
    /\ \A i, j \in 1..Len(rows) : Did(c, i) /\ Did(c, j) => i = j
    /\ SaysRight(calls[c], DidNothing(c), DidSomething(c))

IntakeInv ==
    /\ IntakeType
    /\ Known
    /\ \A c \in CallID : CallSaid(c)

LEMMA IntakeInvInit == Init => IntakeInv
  BY DEF Init, IntakeInit, IntakeInv, IntakeType, Known, CallID

LEMMA SaysWhatHappened == IntakeInv => AnswersSayWhatHappened
  <1> SUFFICES ASSUME IntakeInv, NEW c \in CallID
               PROVE  LET done == IF calls[c].op = "create" THEN Made(c) ELSE Requeued(c)
                      IN  /\ calls[c].answer = 202 => \E i \in done : done = {i}
                          /\ calls[c].answer \in {200, 400, 404, 409} => done = {}
                          /\ \A i, j \in done : i = j
    BY DEF AnswersSayWhatHappened
  <1> DEFINE done == IF calls[c].op = "create" THEN Made(c) ELSE Requeued(c)
  <1>1. \A i : i \in done <=> i \in 1..Len(rows) /\ Did(c, i)
    BY DEF Made, Requeued, Did
  <1>2. CallSaid(c)
    BY DEF IntakeInv
  <1> HIDE DEF done
  <1>3. \A i, j \in done : i = j
    BY <1>1, <1>2 DEF CallSaid
  <1>4. calls[c].answer = 202 => \E i \in done : done = {i}
    BY <1>1, <1>2, <1>3 DEF CallSaid, SaysRight, DidSomething
  <1>5. calls[c].answer \in {200, 400, 404, 409} => done = {}
    BY <1>1, <1>2 DEF CallSaid, SaysRight, DidNothing
  <1> QED
    BY <1>3, <1>4, <1>5 DEF done

LEMMA InNormalForm == IntakeInv => StoredInNormalForm
  <1> SUFFICES ASSUME IntakeInv, NEW i \in 1..Len(rows)
               PROVE  Stored(rows[i].req)
    BY StoredIsNormal DEF StoredInNormalForm
  <1>1. rows[i] \in Row
    BY DEF IntakeInv, IntakeType
  <1> QED
    BY <1>1 DEF Row, StoredRequest

\* The host of a row is one the boundary accepted.
LEMMA RowIsDialable ==
    ASSUME IntakeInv, NEW i \in 1..Len(rows)
    PROVE  rows[i].req.url.host \in Dialable
  <1>1. rows[i] \in Row
    BY DEF IntakeInv, IntakeType
  <1>2. Stored(rows[i].req) /\ NameKnown(rows[i].req.url.host)
    BY <1>1 DEF Row, StoredRequest, KnownRequest
  <1> QED
    BY <1>2, StoredIsNormal DEF Dialable

-----------------------------------------------------------------------------
\* A row whose status changes is the same row.
LEMMA BecomesEffect ==
    ASSUME IntakeInv, NEW i,
           NEW status \in {"pending", "delivering", "retrying", "failed", "succeeded"},
           Becomes(i, status)
    PROVE  /\ rows' \in Seq(Row) /\ Len(rows') = Len(rows)
           /\ \A j \in 1..Len(rows) : /\ rows'[j].call = rows[j].call
                                      /\ rows'[j].requeued_by = rows[j].requeued_by
  <1>0. rows \in Seq(Row) /\ rows' = [rows EXCEPT ![i].status = status]
    BY DEF IntakeInv, IntakeType, Becomes
  <1>1. CASE i \in 1..Len(rows)
    <2> DEFINE row == [rows[i] EXCEPT !.status = status]
    <2>1. rows[i] \in Row
      BY <1>0, <1>1
    <2>2. row \in Row /\ row.call = rows[i].call /\ row.requeued_by = rows[i].requeued_by
      BY <2>1 DEF Row
    <2>3. rows' = [rows EXCEPT ![i] = row]
      BY <1>0
    <2> HIDE DEF row
    <2> QED
      BY <1>0, <1>1, <2>2, <2>3, ExceptSeq
  <1>2. CASE i \notin 1..Len(rows)
    <2>1. rows' = rows
      BY <1>0, <1>2
    <2> QED
      BY <1>0, <2>1
  <1> QED
    BY <1>1, <1>2

LEMMA StatusKeeps ==
    ASSUME IntakeInv, UNCHANGED calls, rows' \in Seq(Row), Len(rows') = Len(rows),
           \A j \in 1..Len(rows) : /\ rows'[j].call = rows[j].call
                                  /\ rows'[j].requeued_by = rows[j].requeued_by
    PROVE  IntakeInv'
  <1>1. IntakeType' /\ Known'
    BY DEF IntakeInv, IntakeType, Known, CallID
  <1>2. ASSUME NEW c \in CallID PROVE CallSaid(c)'
    <2>1. CallSaid(c) /\ \A i \in 1..Len(rows) : Did(c, i)' <=> Did(c, i)
      BY DEF IntakeInv, Did
    <2>2. (DidNothing(c)' <=> DidNothing(c)) /\ (DidSomething(c)' <=> DidSomething(c))
      BY <2>1 DEF DidNothing, DidSomething
    <2> QED
      BY <2>1, <2>2 DEF CallSaid, SaysRight
  <1> QED
    BY <1>1, <1>2 DEF IntakeInv, CallID

\* What a step does to the rows, it does in the name of call c: it inserts rows
\* of c and adds at most c to the calls that requeued a row.
RowsChangedBy(c) ==
    /\ rows' \in Seq(Row) /\ Len(rows) <= Len(rows')
    /\ \A i \in 1..Len(rows) :
          /\ rows'[i].call = rows[i].call
          /\ rows'[i].requeued_by \subseteq CallID
          /\ \A d \in CallID \ {c} : d \in rows'[i].requeued_by <=> d \in rows[i].requeued_by
    /\ \A i \in 1..Len(rows') : i > Len(rows) => rows'[i].call = c /\ rows'[i].requeued_by = {}

\* A handler moves its call, and does what it does to rows in its own name.
LEMMA OneCallMoves ==
    ASSUME IntakeInv, NEW c \in CallID, NEW call \in Call,
           calls' = [calls EXCEPT ![c] = call],
           call.op = calls[c].op, call.id = calls[c].id,
           call.op = "create" /\ call.pc = "service" => call.req \in KnownRequest,
           call.op = "retry" /\ call.pc = "service" => call.id >= 0,
           RowsChangedBy(c),
           CallSaid(c)'
    PROVE  IntakeInv'
  <1> USE DEF RowsChangedBy
  <1>0. calls \in Seq(Call)
    BY DEF IntakeInv, IntakeType
  <1>1. /\ calls' \in Seq(Call) /\ Len(calls') = Len(calls)
        /\ \A d \in CallID : calls'[d] = IF d = c THEN call ELSE calls[d]
    BY <1>0, ExceptSeq DEF CallID
  <1>2. CallID' = CallID
    BY <1>1 DEF CallID
  <1>3. IntakeType'
    BY <1>1, <1>2 DEF IntakeInv, IntakeType
  <1>4. Known'
    <2>1. Len(rows) \in Nat /\ Len(rows') \in Nat
      BY DEF IntakeInv, IntakeType
    <2>2. \A d \in CallID : calls[d].id \in Int
      <3>1. \A d \in CallID : calls[d] \in Call
        BY <1>0 DEF CallID
      <3> QED
        BY <3>1 DEF Call
    <2>3. \A i \in 1..Len(rows') : rows'[i].call \in CallID /\ rows'[i].requeued_by \subseteq CallID
      BY <2>1 DEF IntakeInv, Known
    <2>4. \A d \in CallID : /\ calls'[d].id \in -1..Len(rows')
                            /\ calls'[d].op = "retry" /\ calls'[d].pc = "service" => calls'[d].id >= 0
      BY <1>1, <2>1, <2>2 DEF IntakeInv, Known
    <2> QED
      BY <1>2, <2>3, <2>4 DEF Known
  <1>5. ASSUME NEW d \in CallID, d # c PROVE CallSaid(d)'
    <2>1. CallSaid(d) /\ calls'[d] = calls[d]
      BY <1>1, <1>5 DEF IntakeInv
    <2>2. \A i \in 1..Len(rows) : Did(d, i)' <=> Did(d, i)
      BY <1>5, <2>1 DEF Did
    <2>3. \A i \in 1..Len(rows') : i > Len(rows) => ~Did(d, i)'
      BY <1>5, <2>1 DEF Did
    <2>4. Len(rows) \in Nat /\ Len(rows') \in Nat
      BY DEF IntakeInv, IntakeType
    <2>5. \A i \in 1..Len(rows') : Did(d, i)' <=> i \in 1..Len(rows) /\ Did(d, i)
      BY <2>2, <2>3, <2>4
    <2>6. (DidNothing(d)' <=> DidNothing(d)) /\ (DidSomething(d)' <=> DidSomething(d))
      BY <2>4, <2>5 DEF DidNothing, DidSomething
    <2> QED
      BY <2>1, <2>4, <2>5, <2>6 DEF CallSaid, SaysRight
  <1> QED
    BY <1>2, <1>3, <1>4, <1>5 DEF IntakeInv

\* A handler's step that leaves the rows alone.
LEMMA QuietMove ==
    ASSUME IntakeInv, NEW c \in CallID, NEW call \in Call,
           calls' = [calls EXCEPT ![c] = call],
           call.op = calls[c].op, call.id = calls[c].id,
           call.op = "create" /\ call.pc = "service" => call.req \in KnownRequest,
           call.op = "retry" /\ call.pc = "service" => call.id >= 0,
           UNCHANGED rows,
           SaysRight(call, DidNothing(c), DidSomething(c))
    PROVE  IntakeInv'
  <1>1. CallSaid(c) /\ rows \in Seq(Row) /\ calls \in Seq(Call)
    BY DEF IntakeInv, IntakeType
  <1>2. calls'[c] = call
    BY <1>1, ExceptSeq DEF CallID
  <1>3. \A i \in 1..Len(rows) : Did(c, i)' <=> Did(c, i)
    BY <1>2 DEF Did
  <1>4. (DidNothing(c)' <=> DidNothing(c)) /\ (DidSomething(c)' <=> DidSomething(c))
    BY <1>3 DEF DidNothing, DidSomething
  <1>5. CallSaid(c)'
    BY <1>1, <1>2, <1>3, <1>4 DEF CallSaid, SaysRight
  <1>6. \A i \in 1..Len(rows) : rows[i].requeued_by \subseteq CallID
    BY DEF IntakeInv, Known
  <1>7. RowsChangedBy(c)
    BY <1>1, <1>6 DEF RowsChangedBy
  <1> QED
    BY <1>5, <1>7, OneCallMoves

LEMMA ProceedEffect ==
    ASSUME IntakeInv, NEW c \in CallID, NEW pc \in Place, NEW err \in Error, Proceed(c, pc, err)
    PROVE  \E call \in Call :
               /\ calls' = [calls EXCEPT ![c] = call]
               /\ call.op = calls[c].op /\ call.id = calls[c].id /\ call.req = calls[c].req
               /\ call.pc = pc /\ call.err = err /\ call.answer = calls[c].answer
  <1> DEFINE call == [calls[c] EXCEPT !.pc = pc, !.err = err]
  <1>1. calls \in Seq(Call) /\ calls[c] \in Call
    BY DEF IntakeInv, IntakeType, CallID
  <1>2. calls' = [calls EXCEPT ![c] = call]
    BY <1>1 DEF Proceed
  <1>3. call \in Call
    BY <1>1 DEF Call
  <1>4. /\ call.op = calls[c].op /\ call.id = calls[c].id /\ call.req = calls[c].req
        /\ call.pc = pc /\ call.err = err /\ call.answer = calls[c].answer
    BY <1>1 DEF Call
  <1> QED
    BY <1>2, <1>3, <1>4

\* The service comes back without having done anything.
LEMMA NothingDone ==
    ASSUME IntakeInv, NEW c \in CallID, calls[c].pc \in {"received", "service"},
           NEW err \in Error,
           err = "nil" => calls[c].op \in {"get", "attempts"},
           Proceed(c, "answering", err), UNCHANGED rows
    PROVE  IntakeInv'
  <1>1. PICK call \in Call :
        /\ calls' = [calls EXCEPT ![c] = call]
        /\ call.op = calls[c].op /\ call.id = calls[c].id
        /\ call.pc = "answering" /\ call.err = err /\ call.answer = calls[c].answer
    BY ProceedEffect DEF Place
  <1>2. SaysRight(calls[c], DidNothing(c), DidSomething(c))
    BY DEF IntakeInv, CallSaid
  <1>3. SaysRight(call, DidNothing(c), DidSomething(c))
    BY <1>1, <1>2 DEF SaysRight, NoAnswer
  <1> QED
    BY <1>1, <1>3, QuietMove

LEMMA BindCreateKeeps ==
    ASSUME IntakeInv, NEW c \in CallID, BindCreate(c)
    PROVE  IntakeInv'
  <1> DEFINE req  == calls[c].req
             norm == IF req = NULL THEN Invalid ELSE ValidateCreateRequest(req)
  <1>0. /\ calls[c].op = "create" /\ calls[c].pc = "received" /\ UNCHANGED rows
        /\ IF norm = Invalid THEN Proceed(c, "answering", "ErrInvalid")
           ELSE calls' = [calls EXCEPT ![c].pc = "service", ![c].req = norm]
    BY DEF BindCreate
  <1>1. CASE norm = Invalid
    BY <1>0, <1>1, NothingDone DEF Error
  <1>2. CASE norm # Invalid
    <2> DEFINE call == [calls[c] EXCEPT !.pc = "service", !.req = norm]
    <2>1. calls \in Seq(Call) /\ calls[c] \in Call
      BY DEF IntakeInv, IntakeType, CallID
    <2>2. req \in KnownRequest /\ norm = ValidateCreateRequest(req)
      BY <1>2, <2>1 DEF Call, Invalid
    <2>3. norm \in KnownRequest
      <3>1. Stored(norm) /\ norm.url.host = req.url.host
        BY <1>2, <2>2, ValidatedIsStored DEF KnownRequest
      <3> QED
        BY <2>2, <3>1 DEF KnownRequest, Stored, NameKnown
    <2> HIDE DEF norm
    <2>4. /\ call \in Call /\ call.op = "create" /\ call.id = calls[c].id /\ call.req = norm
          /\ call.pc = "service" /\ call.err = calls[c].err /\ call.answer = calls[c].answer
      BY <1>0, <2>1, <2>3 DEF Call, Place
    <2>5. calls' = [calls EXCEPT ![c] = call]
      BY <1>0, <1>2, <2>1
    <2>6. SaysRight(calls[c], DidNothing(c), DidSomething(c))
      BY DEF IntakeInv, CallSaid
    <2> HIDE DEF call
    <2>7. SaysRight(call, DidNothing(c), DidSomething(c))
      BY <1>0, <2>4, <2>6 DEF SaysRight, NoAnswer
    <2> QED
      BY <1>0, <2>3, <2>4, <2>5, <2>7, QuietMove
  <1> QED
    BY <1>1, <1>2

LEMMA BindIDKeeps ==
    ASSUME IntakeInv, NEW c \in CallID, BindID(c)
    PROVE  IntakeInv'
  <1>1. CASE calls[c].id = -1
    BY <1>1, NothingDone DEF BindID, Error
  <1>2. CASE calls[c].id # -1
    <2>1. PICK call \in Call :
          /\ calls' = [calls EXCEPT ![c] = call]
          /\ call.op = calls[c].op /\ call.id = calls[c].id
          /\ call.pc = "service" /\ call.err = "nil" /\ call.answer = calls[c].answer
      BY <1>2, ProceedEffect DEF BindID, Place, Error
    <2>2. SaysRight(calls[c], DidNothing(c), DidSomething(c)) /\ calls[c].id >= 0
      BY <1>2 DEF IntakeInv, CallSaid, Known
    <2>3. SaysRight(call, DidNothing(c), DidSomething(c))
      BY <2>1, <2>2 DEF SaysRight, NoAnswer, BindID
    <2> QED
      BY <2>1, <2>2, <2>3, QuietMove DEF BindID
  <1> QED
    BY <1>1, <1>2

LEMMA ServiceReadKeeps ==
    ASSUME IntakeInv, NEW c \in CallID, ServiceRead(c)
    PROVE  IntakeInv'
  <1>1. calls[c].op \in {"get", "attempts"} /\ calls[c].pc = "service" /\ UNCHANGED rows
    BY DEF ServiceRead
  <1>2. PICK err \in {"nil", "ErrNotFound", "database"} : Proceed(c, "answering", err)
    BY DEF ServiceRead
  <1> QED
    BY <1>1, <1>2, NothingDone DEF Error

\* A transaction that committed, whether the handler learns of it or not:
\* the call now did one thing.
LEMMA OneThingDone ==
    ASSUME IntakeInv, NEW c \in CallID, calls[c].pc = "service",
           calls[c].op \in {"create", "retry"},
           NEW err \in {"nil", "database"}, Proceed(c, "answering", err),
           NEW k \in 1..Len(rows'),
           RowsChangedBy(c),
           \A i \in 1..Len(rows') : Did(c, i)' <=> i = k
    PROVE  IntakeInv'
  <1>1. PICK call \in Call :
        /\ calls' = [calls EXCEPT ![c] = call]
        /\ call.op = calls[c].op /\ call.id = calls[c].id
        /\ call.pc = "answering" /\ call.err = err /\ call.answer = calls[c].answer
    BY ProceedEffect DEF Place, Error
  <1>2. calls \in Seq(Call) /\ SaysRight(calls[c], DidNothing(c), DidSomething(c))
    BY DEF IntakeInv, IntakeType, CallSaid
  <1>3. calls'[c] = call
    BY <1>1, <1>2, ExceptSeq DEF CallID
  <1>4. DidSomething(c)'
    BY DEF DidSomething
  <1>5. SaysRight(calls'[c], DidNothing(c)', DidSomething(c)')
    BY <1>1, <1>2, <1>3, <1>4 DEF SaysRight, NoAnswer
  <1>6. CallSaid(c)'
    BY <1>5 DEF CallSaid
  <1> QED
    BY <1>1, <1>6, OneCallMoves

LEMMA InsertKeeps ==
    ASSUME IntakeInv, NEW c \in CallID, calls[c].pc = "service", calls[c].op = "create",
           NEW err \in {"nil", "database"}, Proceed(c, "answering", err),
           NEW norm \in StoredRequest, rows' = Append(rows, NewRow(c, norm))
    PROVE  IntakeInv'
  <1> DEFINE row == NewRow(c, norm)
             k   == Len(rows) + 1
  <1>1. rows \in Seq(Row) /\ calls \in Seq(Call)
    BY DEF IntakeInv, IntakeType
  <1>2. row \in Row /\ row.call = c /\ row.requeued_by = {}
    BY <1>1 DEF NewRow, Row, CallID
  <1> HIDE DEF row
  <1>3. /\ rows' \in Seq(Row) /\ Len(rows') = k /\ rows'[k] = row
        /\ \A i \in 1..Len(rows) : rows'[i] = rows[i]
    BY <1>1, <1>2 DEF row
  <1>4. \A i \in 1..Len(rows') : i \in 1..Len(rows) \/ i = k
    BY <1>1, <1>3
  <1>5. PICK call \in Call : calls' = [calls EXCEPT ![c] = call] /\ call.op = calls[c].op
    BY ProceedEffect DEF Place, Error
  <1>6. calls'[c].op = "create"
    BY <1>1, <1>5, ExceptSeq DEF CallID
  <1>7. DidNothing(c)
    BY DEF IntakeInv, CallSaid, SaysRight
  <1>8. \A i \in 1..Len(rows') : Did(c, i)' <=> i = k
    BY <1>1, <1>2, <1>3, <1>4, <1>6, <1>7 DEF Did, DidNothing
  <1>9. k \in 1..Len(rows') /\ RowsChangedBy(c)
    BY <1>1, <1>2, <1>3, <1>4 DEF IntakeInv, Known, RowsChangedBy
  <1> QED
    BY <1>8, <1>9, OneThingDone

LEMMA RequeueKeeps ==
    ASSUME IntakeInv, NEW c \in CallID, calls[c].pc = "service", calls[c].op = "retry",
           NEW err \in {"nil", "database"}, Proceed(c, "answering", err),
           NEW k \in 1..Len(rows),
           rows' = [rows EXCEPT ![k].status = "pending", ![k].requeued_by = @ \cup {c}]
    PROVE  IntakeInv'
  <1> DEFINE row == [rows[k] EXCEPT !.status = "pending", !.requeued_by = @ \cup {c}]
  <1>1. rows \in Seq(Row) /\ calls \in Seq(Call) /\ rows[k] \in Row /\ c \in Nat
    BY DEF IntakeInv, IntakeType, CallID
  <1>2. row \in Row /\ row.call = rows[k].call /\ row.requeued_by = rows[k].requeued_by \cup {c}
    BY <1>1 DEF Row
  <1>3. rows' = [rows EXCEPT ![k] = row]
    BY <1>1
  <1> HIDE DEF row
  <1>4. /\ rows' \in Seq(Row) /\ Len(rows') = Len(rows)
        /\ \A i \in 1..Len(rows) : rows'[i] = IF i = k THEN row ELSE rows[i]
    <2> DEFINE new == [rows EXCEPT ![k] = row]
    <2>1. /\ new \in Seq(Row) /\ Len(new) = Len(rows)
          /\ \A i \in 1..Len(rows) : new[i] = IF i = k THEN row ELSE rows[i]
      BY <1>1, <1>2, ExceptSeq
    <2> HIDE DEF new
    <2>2. rows' = new
      BY <1>3 DEF new
    <2> QED
      BY <2>1, <2>2
  <1>5. PICK call \in Call : calls' = [calls EXCEPT ![c] = call] /\ call.op = calls[c].op
    BY ProceedEffect DEF Place, Error
  <1>6. calls'[c].op = "retry"
    BY <1>1, <1>5, ExceptSeq DEF CallID
  <1>7. DidNothing(c)
    BY DEF IntakeInv, CallSaid, SaysRight
  <1>8. \A i \in 1..Len(rows') : Did(c, i)' <=> i = k
    BY <1>2, <1>4, <1>6, <1>7 DEF Did, DidNothing
  <1>9. k \in 1..Len(rows')
    BY <1>4
  <1>10. RowsChangedBy(c)
    <2>1. \A i \in 1..Len(rows) : rows[i].requeued_by \subseteq CallID
      BY DEF IntakeInv, Known
    <2>2. ASSUME NEW i \in 1..Len(rows)
          PROVE  /\ rows'[i].call = rows[i].call
                 /\ rows'[i].requeued_by \subseteq CallID
                 /\ \A d \in CallID \ {c} : d \in rows'[i].requeued_by <=> d \in rows[i].requeued_by
      <3>1. CASE i = k
        BY <1>2, <1>4, <2>1, <3>1
      <3>2. CASE i # k
        BY <1>4, <2>1, <3>2
      <3> QED
        BY <3>1, <3>2
    <2>3. Len(rows) <= Len(rows') /\ \A i \in 1..Len(rows') : ~(i > Len(rows))
      BY <1>1, <1>4
    <2> QED
      BY <1>4, <2>2, <2>3 DEF RowsChangedBy
  <1> QED
    BY <1>8, <1>9, <1>10, OneThingDone

LEMMA ServiceCreateKeeps ==
    ASSUME IntakeInv, NEW c \in CallID, ServiceCreate(c)
    PROVE  IntakeInv'
  <1> DEFINE norm == ValidateCreateRequest(calls[c].req)
  <1>0. calls[c].op = "create" /\ calls[c].pc = "service" /\ calls[c].req \in KnownRequest
    BY DEF ServiceCreate, IntakeInv, IntakeType
  <1>1. CASE UNCHANGED rows
    <2>1. PICK err \in {"ErrInvalid", "database"} :
            Proceed(c, "answering", err) \/ rows' = Append(rows, NewRow(c, norm))
      BY <1>1 DEF ServiceCreate
    <2>2. rows' # Append(rows, NewRow(c, norm))
      BY <1>1 DEF IntakeInv, IntakeType
    <2> QED
      BY <1>0, <1>1, <2>1, <2>2, NothingDone DEF Error
  <1>2. CASE rows' # rows
    <2>1. norm # Invalid /\ rows' = Append(rows, NewRow(c, norm))
      BY <1>2 DEF ServiceCreate
    <2>2. PICK err \in {"nil", "database"} : Proceed(c, "answering", err)
      BY <1>2 DEF ServiceCreate
    <2>3. norm \in StoredRequest
      <3>1. Stored(norm) /\ norm.url.host = calls[c].req.url.host
        BY <1>0, <2>1, ValidatedIsStored DEF KnownRequest
      <3> QED
        BY <1>0, <3>1 DEF KnownRequest, StoredRequest, Stored, NameKnown
    <2> QED
      BY <1>0, <2>1, <2>2, <2>3, InsertKeeps
  <1> QED
    BY <1>1, <1>2

LEMMA ServiceRetryKeeps ==
    ASSUME IntakeInv, NEW c \in CallID, ServiceRetry(c)
    PROVE  IntakeInv'
  <1> DEFINE k == calls[c].id
             requeued == [rows EXCEPT ![k].status = "pending", ![k].requeued_by = @ \cup {c}]
  <1>0. calls[c].op = "retry" /\ calls[c].pc = "service" /\ k \in 0..Len(rows)
    BY DEF ServiceRetry, IntakeInv, IntakeType, Known
  <1>1. CASE \E err \in {"ErrNotFound", "ErrConflict", "database"} :
               Proceed(c, "answering", err) /\ UNCHANGED rows
    BY <1>0, <1>1, NothingDone DEF Error
  <1>2. CASE /\ k # 0 /\ rows' = requeued
             /\ \E err \in {"nil", "database"} : Proceed(c, "answering", err)
    <2>1. k \in 1..Len(rows)
      BY <1>0, <1>2 DEF IntakeInv, IntakeType
    <2> QED
      BY <1>0, <1>2, <2>1, RequeueKeeps
  <1> QED
    BY <1>1, <1>2 DEF ServiceRetry

LEMMA AnswerKeeps ==
    ASSUME IntakeInv, NEW c \in CallID, Answer(c)
    PROVE  IntakeInv'
  <1> DEFINE code == IF calls[c].err = "nil" THEN Success(calls[c].op) ELSE StatusOf(calls[c].err)
  <1>1. /\ calls \in Seq(Call) /\ calls[c] \in Call /\ calls[c].pc = "answering" /\ UNCHANGED rows
        /\ SaysRight(calls[c], DidNothing(c), DidSomething(c))
    BY DEF Answer, IntakeInv, IntakeType, CallID, CallSaid
  <1>2. /\ code = 202 => calls[c].err = "nil" /\ calls[c].op \in {"create", "retry"}
        /\ code \in {200, 400, 404, 409} =>
             \/ calls[c].op \in {"get", "attempts"}
             \/ calls[c].err \in {"ErrInvalid", "ErrNotFound", "ErrConflict"}
        /\ code \in {200, 202, 400, 404, 409, 500}
    <2>1. calls[c].op \in {"create", "retry", "get", "attempts"} /\ calls[c].err \in Error
      BY <1>1 DEF Call
    <2>2. /\ Success(calls[c].op) \in {200, 202}
          /\ Success(calls[c].op) = 202 => calls[c].op \in {"create", "retry"}
          /\ Success(calls[c].op) = 200 => calls[c].op \in {"get", "attempts"}
      BY <2>1 DEF Success
    <2>3. CASE calls[c].err = "nil"
      BY <2>2, <2>3
    <2>4. CASE calls[c].err # "nil"
      <3>1. /\ calls[c].err = "ErrInvalid" => StatusOf(calls[c].err) = 400
            /\ calls[c].err = "ErrNotFound" => StatusOf(calls[c].err) = 404
            /\ calls[c].err = "ErrConflict" => StatusOf(calls[c].err) = 409
            /\ calls[c].err = "database" => StatusOf(calls[c].err) = 500
        BY DEF StatusOf
      <3> QED
        BY <2>1, <2>4, <3>1 DEF Error
    <2> QED
      BY <2>3, <2>4
  <1> HIDE DEF code
  <1>3. ASSUME NEW answer \in {code, NoAnswer}, answer = NoAnswer => calls[c].answer = NoAnswer,
               calls' = [calls EXCEPT ![c].pc = "done", ![c].answer = answer]
        PROVE  IntakeInv'
    <2> DEFINE call == [calls[c] EXCEPT !.pc = "done", !.answer = answer]
    <2>1. answer \in Code
      BY <1>2, <1>3 DEF Code
    <2>2. /\ call \in Call /\ call.op = calls[c].op /\ call.id = calls[c].id
          /\ call.pc = "done" /\ call.err = calls[c].err /\ call.answer = answer
      BY <1>1, <2>1 DEF Call, Place
    <2>3. calls' = [calls EXCEPT ![c] = call]
      BY <1>1, <1>3
    <2> HIDE DEF call
    <2>4. SaysRight(call, DidNothing(c), DidSomething(c))
      BY <1>1, <1>2, <1>3, <2>2 DEF SaysRight, NoAnswer
    <2> QED
      BY <1>1, <2>2, <2>3, <2>4, QuietMove
  <1>4. CASE calls' = [calls EXCEPT ![c].pc = "done", ![c].answer = code]
    BY <1>1, <1>2, <1>3, <1>4 DEF NoAnswer
  <1>5. CASE calls' = [calls EXCEPT ![c].pc = "done"]
    <2> DEFINE call == [calls[c] EXCEPT !.pc = "done"]
    <2>1. /\ call \in Call /\ call.op = calls[c].op /\ call.id = calls[c].id
          /\ call.pc = "done" /\ call.err = calls[c].err /\ call.answer = calls[c].answer
      BY <1>1 DEF Call, Place
    <2>2. calls' = [calls EXCEPT ![c] = call]
      BY <1>1, <1>5
    <2> HIDE DEF call
    <2>3. SaysRight(call, DidNothing(c), DidSomething(c))
      BY <1>1, <2>1 DEF SaysRight, NoAnswer
    <2> QED
      BY <1>1, <2>1, <2>2, <2>3, QuietMove
  <1> QED
    BY <1>4, <1>5 DEF Answer, code

LEMMA ExitKeeps ==
    ASSUME IntakeInv, Exit
    PROVE  IntakeInv'
  <1>0. rows \in Seq(Row) /\ calls \in Seq(Call) /\ UNCHANGED rows
    BY DEF IntakeInv, IntakeType, Exit
  <1>1. /\ calls' = [c \in CallID |-> [calls[c] EXCEPT !.pc = "done"]]
        /\ \A c \in CallID : calls[c] \in Call
    BY <1>0 DEF Exit, CallID
  <1>2. \A c \in CallID : /\ calls'[c] \in Call /\ calls'[c].pc = "done"
                          /\ calls'[c].op = calls[c].op /\ calls'[c].id = calls[c].id
                          /\ calls'[c].err = calls[c].err /\ calls'[c].answer = calls[c].answer
    BY <1>1 DEF Call, Place
  <1>3. calls' \in Seq(Call) /\ Len(calls') = Len(calls) /\ CallID' = CallID
    <2>1. Len(calls) \in Nat /\ calls' \in [1..Len(calls) -> Call]
      BY <1>0, <1>1, <1>2 DEF CallID
    <2> QED
      BY <2>1, SeqDef DEF CallID
  <1>4. IntakeType' /\ Known'
    BY <1>0, <1>2, <1>3 DEF IntakeInv, IntakeType, Known
  <1>5. ASSUME NEW c \in CallID PROVE CallSaid(c)'
    <2>1. CallSaid(c) /\ \A i \in 1..Len(rows) : Did(c, i)' <=> Did(c, i)
      BY <1>0, <1>2 DEF IntakeInv, Did
    <2>2. (DidNothing(c)' <=> DidNothing(c)) /\ (DidSomething(c)' <=> DidSomething(c))
      BY <1>0, <2>1 DEF DidNothing, DidSomething
    <2>3. SaysRight(calls[c], DidNothing(c), DidSomething(c))'
      <3>1. SaysRight(calls[c], DidNothing(c), DidSomething(c))
        BY <2>1 DEF CallSaid
      <3> QED
        BY <1>2, <2>2, <3>1 DEF SaysRight
    <2>4. \A i, j \in 1..Len(rows) : Did(c, i)' /\ Did(c, j)' => i = j
      BY <2>1 DEF CallSaid
    <2> QED
      BY <1>0, <2>3, <2>4 DEF CallSaid
  <1> QED
    BY <1>3, <1>4, <1>5 DEF IntakeInv

LEMMA NewCallKeeps ==
    ASSUME IntakeInv, NEW call \in Call, calls' = Append(calls, call), UNCHANGED rows,
           call.pc = "received", call.err = "nil", call.answer = NoAnswer,
           call.id \in -1..Len(rows)
    PROVE  IntakeInv'
  <1>0. rows \in Seq(Row) /\ calls \in Seq(Call)
    BY DEF IntakeInv, IntakeType
  <1> PICK n \in Nat : n = Len(calls) + 1
    BY <1>0
  <1>1. /\ calls' \in Seq(Call) /\ CallID' = CallID \cup {n} /\ n \notin CallID /\ calls'[n] = call
        /\ \A c \in CallID : calls'[c] = calls[c]
    BY <1>0 DEF CallID
  <1>2. IntakeType' /\ Known'
    BY ZenonT(60), <1>0, <1>1 DEF IntakeInv, IntakeType, Known
  <1>3. ASSUME NEW c \in CallID PROVE CallSaid(c)'
    <2>1. CallSaid(c) /\ \A i \in 1..Len(rows) : Did(c, i)' <=> Did(c, i)
      BY <1>0, <1>1 DEF IntakeInv, Did
    <2>2. (DidNothing(c)' <=> DidNothing(c)) /\ (DidSomething(c)' <=> DidSomething(c))
      BY <1>0, <2>1 DEF DidNothing, DidSomething
    <2>3. SaysRight(calls[c], DidNothing(c), DidSomething(c))'
      <3>1. calls'[c] = calls[c]
        BY <1>1
      <3>2. SaysRight(calls[c], DidNothing(c), DidSomething(c))
        BY <2>1 DEF CallSaid
      <3> QED
        BY <2>2, <3>1, <3>2 DEF SaysRight
    <2>4. \A i, j \in 1..Len(rows) : Did(c, i)' /\ Did(c, j)' => i = j
      BY <2>1 DEF CallSaid
    <2> QED
      BY <2>3, <2>4 DEF CallSaid
  <1>4. CallSaid(n)'
    <2>1. \A i \in 1..Len(rows) : ~Did(n, i)'
      BY <1>1 DEF IntakeInv, Known, Did
    <2>2. DidNothing(n)'
      BY <1>0, <2>1 DEF DidNothing
    <2> QED
      BY <1>0, <1>1, <2>1, <2>2 DEF CallSaid, SaysRight, NoAnswer
  <1> QED
    BY <1>1, <1>2, <1>3, <1>4 DEF IntakeInv

LEMMA IntakeStepKeeps ==
    ASSUME IntakeInv, IntakeStep
    PROVE  IntakeInv'
  <1>0. Len(rows) \in Nat
    BY DEF IntakeInv, IntakeType
  <1>1. CASE Post
    <2>1. PICK req \in Requests \cup {NULL} : calls' = Append(calls, NewCall("create", req, 0))
      BY <1>1 DEF Post
    <2>2. req \in KnownRequest \cup {NULL}
      BY IntakeAssumption, NamesAssumption DEF KnownRequest
    <2>3. LET call == NewCall("create", req, 0)
          IN  /\ call \in Call /\ call.pc = "received" /\ call.err = "nil"
              /\ call.answer = NoAnswer /\ call.id = 0
      BY <2>2 DEF NewCall, Call, Place, Error, Code
    <2> QED
      BY <1>0, <1>1, <2>1, <2>3, NewCallKeeps DEF Post
  <1>2. ASSUME NEW op \in {"retry", "get", "attempts"}, Ask(op) PROVE IntakeInv'
    <2>1. PICK id \in -1..Len(rows) : calls' = Append(calls, NewCall(op, NULL, id))
      BY <1>2 DEF Ask
    <2>2. LET call == NewCall(op, NULL, id)
          IN  /\ call \in Call /\ call.pc = "received" /\ call.err = "nil"
              /\ call.answer = NoAnswer /\ call.id = id
      BY <1>0 DEF NewCall, Call, Place, Error, Code
    <2> QED
      BY <1>2, <2>1, <2>2, NewCallKeeps DEF Ask
  <1>3. ASSUME NEW c \in CallID, Handler(c) PROVE IntakeInv'
    BY <1>3, BindCreateKeeps, BindIDKeeps, ServiceCreateKeeps, ServiceRetryKeeps,
       ServiceReadKeeps, AnswerKeeps DEF Handler
  <1> QED
    BY <1>1, <1>2, <1>3, ExitKeeps DEF IntakeStep

-----------------------------------------------------------------------------
(***************************************************************************)
(* The service                                                             *)
(***************************************************************************)
Inv == IntakeInv /\ ConnInv

LEMMA InvInit == Init => Inv
  BY IntakeInvInit, ConnInvInit DEF Inv

LEMMA InvNext ==
    ASSUME Inv, [Next]_vars
    PROVE  Inv'
  <1>0. IntakeInv /\ ConnInv
    BY DEF Inv
  <1>1. CASE UNCHANGED vars
    BY <1>0, <1>1 DEF vars, intakeVars, connectionVars, Inv, ConnInv, LayersAgree, IntakeInv,
                IntakeType, Known, CallSaid, Did, DidNothing, DidSomething, CallID, SaysRight
  <1>2. CASE Intake
    <2>1. ConnInv'
      BY <1>0, <1>2 DEF Intake, connectionVars, ConnInv, LayersAgree
    <2> QED
      BY <1>0, <1>2, <2>1, IntakeStepKeeps DEF Intake, Inv
  <1>3. ASSUME NEW w \in Worker, Deliver(w) PROVE Inv'
    <2>1. ConnInv'
      BY <1>0, <1>3, DeliverStepKeeps DEF Deliver
    <2>2. CASE UNCHANGED rows
      BY <1>0, <1>3, <2>1, <2>2, StatusKeeps DEF Deliver, Inv, IntakeInv, IntakeType
    <2>3. CASE rows' # rows
      <3>1. PICK status \in {"retrying", "failed", "succeeded"} : Becomes(task[w], status)
        BY <1>3, <2>3 DEF Deliver, Recorded
      <3> QED
        BY <1>0, <1>3, <2>1, <3>1, BecomesEffect, StatusKeeps DEF Deliver, Inv
    <2> QED
      BY <2>2, <2>3
  <1>4. ASSUME NEW w \in Worker, NEW i \in 1..Len(rows), Take(w, i) PROVE Inv'
    <2>1. rows[i].req.url.host \in Dialable
      BY <1>0, RowIsDialable
    <2>2. ConnInv'
      BY <1>0, <1>4, <2>1, BeginKeeps DEF Take
    <2>3. IntakeInv'
      BY <1>0, <1>4, BecomesEffect, StatusKeeps DEF Take
    <2> QED
      BY <2>2, <2>3 DEF Inv
  <1>5. CASE Outside /\ UNCHANGED <<intakeVars, task, faults>>
    <2>1. IntakeInv'
      BY <1>0, <1>5, StatusKeeps DEF intakeVars, IntakeInv, IntakeType
    <2> QED
      BY <1>0, <1>5, <2>1, OutsideKeeps DEF Inv
  <1> QED
    BY <1>1, <1>2, <1>3, <1>4, <1>5 DEF Next

\* For any requests, any number of calls and any failures: what is stored is
\* its own normal form, so that validating it a second time (service.go:30,
\* after router.go:65) refuses and changes nothing.
THEOREM RowsInNormalForm == Spec => []StoredInNormalForm
  <1>1. Inv => StoredInNormalForm
    BY InNormalForm DEF Inv
  <1> QED
    BY <1>1, InvInit, InvNext, PTL DEF Spec

\* An answer says what happened, to exactly one row or none (router.go:60).
THEOREM AnswersHonest == Spec => []AnswersSayWhatHappened
  <1>1. Inv => AnswersSayWhatHappened
    BY SaysWhatHappened DEF Inv
  <1> QED
    BY <1>1, InvInit, InvNext, PTL DEF Spec

\* Whatever DNS answers, and however often it changes its answer, no worker
\* dials or keeps a connection to an internal address (http.go:28).
THEOREM OnlyPublicConnections == Spec => []ConnectionsPublic
  <1>1. Inv => ConnectionsPublic
    BY DEF Inv, ConnInv, ConnectionsPublic, Delivery, PublicAddr
  <1> QED
    BY <1>1, InvInit, InvNext, PTL DEF Spec

\* For any names, whatever net/http converts them to and whatever DNS answers:
\* a host that is dialled as it was accepted is never refused for the host
\* alone (netguard.go:44).
THEOREM OneRuleForHosts == Spec => []LayersAgree
  <1>1. Inv => LayersAgree
    BY DEF Inv, ConnInv
  <1> QED
    BY <1>1, InvInit, InvNext, PTL DEF Spec
=============================================================================
