------------------------- MODULE RequestValidation -------------------------
(***************************************************************************)
(* What the service makes of a client's request and of a vendor's host:    *)
(* ValidateCreateRequest (internal/notification/validation.go) and the     *)
(* checks of internal/netguard it shares with the worker's dialer.         *)
(*                                                                         *)
(* Text is abstracted to what the checks tell apart: a method to itself in *)
(* its spellings, a URL to its form, scheme and host, a host to a name or  *)
(* an address, an address to the range it is in, a body to its length and  *)
(* whether it is JSON, a header to the kind of its name and value.         *)
(***************************************************************************)
EXTENDS Integers

CONSTANT NULL               \* nil headers, and the result of a refused request

ASSUME NilAssumption == NULL # {}    \* encoding/json tells null from {}

-----------------------------------------------------------------------------
(***************************************************************************)
(* Addresses and hosts                                                     *)
(***************************************************************************)

\* The ranges RejectBlockedAddr asks about, and the rest.
Internal == {"loopback", "private", "link_local", "multicast", "unspecified",
             "carrier_nat", "this_network"}
Range4 == Internal \cup {"public"}

\* An address: its range, and whether it is written as IPv4 in IPv6.
Addr == [range : Range4, mapped : BOOLEAN]

\* A prefix of IPv4 addresses does not contain the IPv6 form of one.
InPrefix(addr, range) == ~addr.mapped /\ addr.range = range

\* RejectBlockedAddr: an error for every internal range.
RejectBlockedAddr(addr) ==
    LET a == [addr EXCEPT !.mapped = FALSE]
    IN  \/ a.range \in Internal \ {"carrier_nat", "this_network"}
        \/ InPrefix(a, "carrier_nat") \/ InPrefix(a, "this_network")

\* A host is nothing, a name, or an address in textual form, which may have a
\* dot at its end as a name may.
NoHost == [kind |-> "empty"]
Name(n) == [kind |-> "name", name |-> n]
Literal(addr, dotted) == [kind |-> "addr", addr |-> addr, dotted |-> dotted]
Host == {NoHost} \cup [kind : {"name"}, name : STRING]
                 \cup [kind : {"addr"}, addr : Addr, dotted : BOOLEAN]
LocalNames == {"localhost", "x.localhost", "localhost."}

\* RejectBlockedHost: what can be refused without asking DNS.  The dot at the
\* end does not count.
RejectBlockedHost(host) ==
    CASE host.kind = "empty" -> TRUE
      [] host.kind = "name"  -> host.name \in LocalNames
      [] host.kind = "addr"  -> RejectBlockedAddr(host.addr)

-----------------------------------------------------------------------------
(***************************************************************************)
(* CreateRequest                                                           *)
(***************************************************************************)
Invalid == NULL

\* A header: a name that is an HTTP token or is not, and a value of plain
\* text or with a line break or another control character in it.
Header == [ name : {"token", "empty", "control", "separator", "non_ascii"},
            value : {"text", "line_break", "control"} ]

\* What ValidateCreateRequest is given.  A body that came through
\* ShouldBindJSON is JSON; validation does not rely on it.
Request ==
    [ method : {"POST", "PUT", "PATCH", "GET", "", "post", " Put ", " ", "get"},
      url : [absolute : BOOLEAN, scheme : {"http", "https", "ftp"}, host : Host, spaced : BOOLEAN],
      max_attempts : Int,
      body : [bytes : Nat, json : BOOLEAN],
      headers : {NULL} \cup SUBSET Header ]

\* strings.ToUpper(strings.TrimSpace(method)), on the spellings considered.
UpperTrimmed(method) ==
    CASE method = "post"  -> "POST"
      [] method = " Put " -> "PUT"
      [] method = " "     -> ""
      [] method = "get"   -> "GET"
      [] OTHER            -> method

NormalMethod(method) ==
    IF UpperTrimmed(method) = "" THEN "POST" ELSE UpperTrimmed(method)

AllowedMethods == {"POST", "PUT", "PATCH"}

\* The URL as parsed.String() writes it: without the spaces around it.
NormalURL(url) == [url EXCEPT !.spaced = FALSE]

\* Mutant: the host is left to the dialer to check.
URLUnguarded(url) ==
    url.absolute /\ url.host # NoHost /\ url.scheme \in {"http", "https"}

URLValid(url) ==
    /\ url.absolute /\ url.host # NoHost
    /\ url.scheme \in {"http", "https"}
    /\ ~RejectBlockedHost(url.host)

NormalMaxAttempts(max) == IF max = 0 THEN 5 ELSE max

MaxBodyBytes == 256 * 1024

BodyValid(body) ==
    /\ body.bytes <= MaxBodyBytes
    /\ body.bytes > 0 => body.json

\* validHeaderName refuses ASCII control characters, separators and blanks,
\* and lets what is not ASCII pass; a value is refused for a line break only.
HeaderValid(h) ==
    /\ h.name \notin {"empty", "control", "separator"}
    /\ h.value # "line_break"

NormalHeaders(headers) == IF headers = NULL THEN {} ELSE headers

Normalised(req) ==
    [ method |-> NormalMethod(req.method), url |-> NormalURL(req.url),
      max_attempts |-> NormalMaxAttempts(req.max_attempts),
      body |-> req.body, headers |-> NormalHeaders(req.headers) ]

Acceptable(req) ==
    LET r == Normalised(req)
    IN  /\ r.method \in AllowedMethods
        /\ URLValid(r.url)
        /\ r.max_attempts \in 1..20
        /\ BodyValid(r.body)
        /\ \A h \in r.headers : HeaderValid(h)

\* Mutant: the normal method is checked but not given back.
ValidateKeepingMethod(req) ==
    IF Acceptable(req) THEN [Normalised(req) EXCEPT !.method = req.method] ELSE Invalid

\* The normalised request, or ErrInvalid.
ValidateCreateRequest(req) == IF Acceptable(req) THEN Normalised(req) ELSE Invalid
=============================================================================
