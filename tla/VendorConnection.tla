-------------------------- MODULE VendorConnection --------------------------
(***************************************************************************)
(* How an accepted notification reaches its vendor: the HTTPDispatcher     *)
(* (internal/delivery/http.go) that all workers of a process share, its    *)
(* dialer (netguard.ResolvePublicAddress) and the connections net/http     *)
(* keeps.  A host is checked when the request is accepted and again when   *)
(* it is dialled; DNS may answer differently at any moment in between, and *)
(* a connection that is kept is used again without asking DNS.  What is    *)
(* dialled is the host net/http makes of the one in the URL: a name that   *)
(* is not ASCII is converted (IDNA), to another name or to an address.     *)
(*                                                                         *)
(* DNS, net/http with its connection pool, and the vendor are external:    *)
(* modelled from how the dispatcher uses them.                             *)
(***************************************************************************)
EXTENDS RequestValidation, Sequences

CONSTANTS Worker,       \* the goroutines that deliver
          Names,        \* the hosts that DNS is asked for
          IDNA,         \* what names that are not ASCII are converted to
          Answers,      \* what DNS may answer: sequences of addresses
          MaxChanges,   \* bound: how often DNS changes
          MaxDeliveries \* bound: how many deliveries are started

ASSUME ConnectionAssumption ==
    Answers \subseteq Seq(Addr) /\ MaxChanges \in Nat /\ MaxDeliveries \in Nat

ASSUME IDNAAssumption == \A h \in DOMAIN IDNA : h.kind = "name" /\ IDNA[h] \in Host

VARIABLES
    dns,        \* what DNS answers for each name now
    changes,
    deliver,    \* per worker: [pc, host (of the URL), addr, reused] of its Deliver
    pool,       \* connections kept open: [host (dialled), addr]
    refused,    \* hosts of URLs that the dialer refused without asking DNS
    deliveries

connectionVars == <<dns, changes, deliver, pool, refused, deliveries>>

Idle == [pc |-> "idle", host |-> NoHost, addr |-> NULL, reused |-> FALSE]

ConnectionInit ==
    /\ dns \in [Names -> Answers]
    /\ changes = 0
    /\ deliver = [w \in Worker |-> Idle]
    /\ pool = {}
    /\ refused = {}
    /\ deliveries = 0

DnsChanges(h) ==
    /\ changes < MaxChanges
    /\ \E a \in Answers : a # dns[h] /\ dns' = [dns EXCEPT ![h] = a]
    /\ changes' = changes + 1
    /\ UNCHANGED <<deliver, pool, refused, deliveries>>

-----------------------------------------------------------------------------
(***************************************************************************)
(* One Deliver                                                             *)
(***************************************************************************)
Become(w, pc, addr) == deliver' = [deliver EXCEPT ![w].pc = pc, ![w].addr = addr]

Return(w) == deliver' = [deliver EXCEPT ![w] = Idle]

\* The host that net/http looks for a connection to.
ToASCII(h) == IF h \in DOMAIN IDNA THEN IDNA[h] ELSE h

\* net/http sends only headers whose names are tokens and whose values have
\* no control characters.
Sendable(headers) == \A x \in headers : x.name = "token" /\ x.value = "text"

\* The request goes out on a connection that is kept for its host, or waits
\* for a new one.
Connect(w, h) ==
    LET kept == {c \in pool : c.host = ToASCII(h)}
    IN  \/ /\ kept = {}
           /\ deliver' = [deliver EXCEPT ![w] =
                [pc |-> "resolve", host |-> h, addr |-> NULL, reused |-> FALSE]]
           /\ UNCHANGED pool
        \/ \E c \in kept :
             /\ deliver' = [deliver EXCEPT ![w] =
                  [pc |-> "sent", host |-> h, addr |-> c.addr, reused |-> TRUE]]
             /\ pool' = pool \ {c}

\* client.Do, which looks at the headers before it looks for a connection.
Begin(w, h, headers) ==
    /\ deliver[w].pc = "idle"
    /\ deliveries < MaxDeliveries /\ deliveries' = deliveries + 1
    /\ IF Sendable(headers) THEN Connect(w, h)
       ELSE /\ deliver' = [deliver EXCEPT ![w] = [Idle EXCEPT !.pc = "unsendable", !.host = h]]
            /\ UNCHANGED pool
    /\ UNCHANGED <<dns, changes, refused>>

\* client.Do returns an error and nothing was sent.
Unsendable(w) ==
    /\ deliver[w].pc = "unsendable"
    /\ Return(w)
    /\ UNCHANGED <<dns, changes, pool, refused, deliveries>>

\* A kept connection breaks under the request: net/http sends it again, as
\* its Idempotency-Key header says it may.
Resend(w) ==
    /\ deliver[w].pc = "sent" /\ deliver[w].reused
    /\ Connect(w, deliver[w].host)
    /\ UNCHANGED <<dns, changes, refused, deliveries>>

\* What netip.ParseAddr takes for an address: one without a dot at its end.
Parses(h) == h.kind = "addr" /\ ~h.dotted

\* ResolvePublicAddress: an address to dial, after the host and every
\* address DNS answered have been checked.
ResolvePublicAddress(h) ==
    IF RejectBlockedHost(h) THEN [err |-> "host", addr |-> NULL]
    ELSE IF Parses(h) THEN [err |-> "nil", addr |-> h.addr]
    ELSE IF dns[h] = <<>> \/ \E i \in 1..Len(dns[h]) : RejectBlockedAddr(dns[h][i])
         THEN [err |-> "dns", addr |-> NULL]
         ELSE [err |-> "nil", addr |-> dns[h][1]]

Resolve(w) ==
    /\ deliver[w].pc = "resolve"
    /\ LET h == deliver[w].host
           r == ResolvePublicAddress(ToASCII(h))
       IN  /\ IF r.err = "nil" THEN Become(w, "dial", r.addr) ELSE Return(w)
           /\ refused' = IF r.err = "host" THEN refused \cup {h} ELSE refused
    /\ UNCHANGED <<dns, changes, pool, deliveries>>

\* Mutant: the dialer is given the host again, asks DNS itself and tries the
\* addresses in turn.
DialByName(w) ==
    /\ deliver[w].pc = "dial"
    /\ LET h == ToASCII(deliver[w].host)
       IN  IF ~Parses(h) /\ dns[h] # <<>>
             THEN \E i \in 1..Len(dns[h]) : Become(w, "sent", dns[h][i])
             ELSE Become(w, "sent", deliver[w].addr)
    /\ UNCHANGED <<dns, changes, pool, refused, deliveries>>

\* dialer.DialContext to the address that was checked; it may fail.
Dial(w) ==
    /\ deliver[w].pc = "dial"
    /\ Become(w, "sent", deliver[w].addr) \/ Return(w)
    /\ UNCHANGED <<dns, changes, pool, refused, deliveries>>

\* The vendor answers (a redirect is an answer like any other) and the
\* connection is kept; or the time is up, or the connection breaks.
Finish(w) ==
    /\ deliver[w].pc = "sent"
    /\ Return(w)
    /\ pool' \in {pool, pool \cup {[host |-> ToASCII(deliver[w].host), addr |-> deliver[w].addr]}}
    /\ UNCHANGED <<dns, changes, refused, deliveries>>

\* A kept connection is closed by the vendor or after its idle time.
Closes(c) ==
    /\ pool' = pool \ {c}
    /\ UNCHANGED <<dns, changes, deliver, refused, deliveries>>

\* A worker's steps within Deliver.
DeliverStep(w) == Unsendable(w) \/ Resend(w) \/ Resolve(w) \/ Dial(w) \/ Finish(w)

\* What others do to DNS and to the connections.
Outside ==
    \/ \E h \in DOMAIN dns : DnsChanges(h)
    \/ \E c \in pool : Closes(c)

-----------------------------------------------------------------------------
\* Whatever DNS answers and whenever it changes its answer, every address a
\* worker dials or has a connection to is a public one (http.go:28,
\* netguard.go:39): the address used is one that was checked, not a second
\* answer of DNS.
ConnectionsPublic ==
    /\ \A w \in Worker : deliver[w].addr # NULL => deliver[w].addr.range = "public"
    /\ \A c \in pool : c.addr.range = "public"

\* The two layers apply one rule: a host that comes to the dialer as it was
\* accepted (validation.go:43) is refused there only for what DNS answers,
\* never for the host alone (netguard.go:44).  The exception is a name that
\* net/http converts in between: the dialer then judges a host that
\* validation has not seen.
LayersAgree == \A h \in refused : ToASCII(h) # h
=============================================================================
