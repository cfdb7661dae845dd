------------------------- MODULE MCRequestToVendor -------------------------
(***************************************************************************)
(* Requests and DNS answers for RequestToVendor.  Plain and Untidy differ  *)
(* from each other in everything a valid request may differ in.  Three     *)
(* more are accepted although they meet something else on the way out: a   *)
(* host that net/http converts to an internal address, a public address    *)
(* with a dot at its end, and headers that net/http does not send.  Every  *)
(* other one is the first with one part made invalid.                      *)
(***************************************************************************)
EXTENDS RequestToVendor

Public == [range |-> "public", mapped |-> FALSE]
Mapped(range) == [range |-> range, mapped |-> TRUE]

VendorURL == [absolute |-> TRUE, scheme |-> "https", host |-> Name("vendor"), spaced |-> FALSE]

Body(n) == [bytes |-> n, json |-> TRUE]

Plain == [ method |-> "POST", url |-> VendorURL, max_attempts |-> 20,
           body |-> Body(MaxBodyBytes), headers |-> {[name |-> "token", value |-> "text"]} ]

Untidy == [ method |-> " Put ", max_attempts |-> 0, body |-> Body(0), headers |-> NULL,
            url |-> [VendorURL EXCEPT !.scheme = "http", !.host = Literal(Public, FALSE),
                                      !.spaced = TRUE] ]

Wide == Name("fullwidth 127.0.0.1")

Loopback == [range |-> "loopback", mapped |-> FALSE]

Conversions == [h \in {Wide} |-> Literal(Loopback, FALSE)]

Surprising ==
    {[Plain EXCEPT !.url.host = Wide], [Plain EXCEPT !.url.host = Literal(Public, TRUE)],
     [Plain EXCEPT !.headers = {[name |-> "non_ascii", value |-> "control"]}]}

BlockedHosts == {NoHost, Name("x.localhost"), Literal([range |-> "private", mapped |-> FALSE], TRUE),
                 Literal(Mapped("carrier_nat"), FALSE)}

SomeRequests ==
    {Plain, Untidy, [Plain EXCEPT !.method = "get"],
     [Plain EXCEPT !.url.scheme = "ftp"], [Plain EXCEPT !.url.absolute = FALSE],
     [Plain EXCEPT !.max_attempts = -1], [Plain EXCEPT !.max_attempts = 21],
     [Plain EXCEPT !.body = Body(MaxBodyBytes + 1)],
     [Plain EXCEPT !.headers = {[name |-> "separator", value |-> "text"]}]}
    \cup {[Plain EXCEPT !.url.host = h] : h \in BlockedHosts} \cup Surprising

WorkerSymmetry == Permutations(Worker)

LookedUp == {Name("vendor"), Literal(Public, TRUE)}

SomeAnswers == {<<>>, <<Public>>, <<Public, Mapped("carrier_nat")>>}
=============================================================================
