-------------------------------- MODULE Http --------------------------------
(***************************************************************************)
(* One request of the driver's HTTP client (src/httputils/httputils.go):   *)
(* doRequest over a client that follows redirects and a connection that    *)
(* breaks where it likes, against a service that may refuse, redirect,     *)
(* carry the request out, or carry it out and fail.  What a caller may     *)
(* conclude from the result is what FabricManager calls an Outcome.        *)
(***************************************************************************)
EXTENDS Naturals

CONSTANTS
  MaxHops,       (* redirects net/http follows before it gives up: 9       *)
  MaxKept        (* connections it keeps open to one service: 2            *)

ASSUME BoundsAssumption == MaxHops \in Nat /\ MaxKept \in Nat

VARIABLES
  asked,    (* the method the caller asked for                             *)
  decode,   (* has the caller given a responseAddress?                     *)
  method,   (* the method of the request on its way                        *)
  pc,       (* how far doRequest has come, or "idle"                       *)
  kept,     (* connections kept open from earlier requests                 *)
  hops,     (* the redirects followed                                      *)
  answer,   (* the class of the answer's status; "none" before it          *)
  ret,      (* the error doRequest returns                                 *)
  effects,  (* (history) how often the service carried out what was asked: *)
            (* not at all, once, or more often                             *)
  moved     (* (history) was there an answer between 300 and 399?          *)

vars == <<asked, decode, method, pc, kept, hops, answer, ret, effects, moved>>

Methods == {"GET", "POST", "PUT", "DELETE"}
Answers == {"done", "moved", "error"}
Errors  == {"url", "sending", "reading", "status", "json"}

Init ==
  /\ asked \in Methods /\ method = asked /\ decode \in BOOLEAN
  /\ pc = "url" /\ kept \in 0 .. MaxKept /\ hops = 0
  /\ answer = "none" /\ ret = "none" /\ effects = 0 /\ moved = FALSE

---------------------------------------------------------------------------
(***************************************************************************)
(* doRequest.                                                              *)
(***************************************************************************)

Goto(p)   == pc' = p /\ UNCHANGED ret
Return(r) == pc' = "idle" /\ ret' = r

\* An URL that does not parse is an error before anything is sent.
Url ==
  /\ pc = "url" /\ (Return("url") \/ Goto("send"))
  /\ UNCHANGED <<asked, decode, method, kept, hops, answer, effects, moved>>

\* Mutant: a request that got no answer is sent once more.
SendingFailedAgain ==
  /\ pc = "broken" /\ (Return("sending") \/ Goto("send"))
  /\ UNCHANGED <<asked, decode, method, kept, hops, answer, effects, moved>>

\* doRequest itself never sends a request again.
SendingFailed ==
  /\ pc = "broken" /\ Return("sending")
  /\ UNCHANGED <<asked, decode, method, kept, hops, answer, effects, moved>>

\* Where a readable answer of an acceptable status leads.
Accepted == IF decode THEN Goto("decode") ELSE Return("nil")

\* Mutant: the status is not looked at.
ReadBodyUnchecked ==
  /\ pc = "body" /\ (Return("reading") \/ Accepted)
  /\ UNCHANGED <<asked, decode, method, kept, hops, answer, effects, moved>>

\* The body is read to its end; then a status from 400 on is an error.
ReadBody ==
  /\ pc = "body"
  /\ \/ Return("reading")
     \/ answer = "error" /\ Return("status")
     \/ answer # "error" /\ Accepted
  /\ UNCHANGED <<asked, decode, method, kept, hops, answer, effects, moved>>

Decode ==
  /\ pc = "decode" /\ (Return("json") \/ Return("nil"))
  /\ UNCHANGED <<asked, decode, method, kept, hops, answer, effects, moved>>

---------------------------------------------------------------------------
(***************************************************************************)
(* net/http's default client, the network and the service: c.Client.Do.    *)
(***************************************************************************)

\* A request under its own method does what was asked; one a redirect made a
\* GET of does not.
Carried(done) ==
  effects' = IF done /\ method = asked /\ effects < 2 THEN effects + 1 ELSE effects

\* A kept connection may turn out to be closed: the request goes out again on
\* another one.
Reconnect == kept > 0 /\ kept' = kept - 1 /\ Goto("send")
GiveUp == Goto("broken") /\ UNCHANGED kept

\* Nothing of the request was written: any request is tried again.
BrokenBefore ==
  /\ pc = "send" /\ (Reconnect \/ GiveUp)
  /\ UNCHANGED <<asked, decode, method, hops, answer, effects, moved>>

\* It was written and no answer came: only one that changes nothing is.
BrokenAfter ==
  /\ pc = "send" /\ \E done \in BOOLEAN : Carried(done)
  /\ (method = "GET" /\ Reconnect) \/ GiveUp
  /\ UNCHANGED <<asked, decode, method, hops, answer, moved>>

\* The service carries the request out, or fails it when it may already be
\* done, or sends it elsewhere without saying where.
Answered ==
  /\ pc = "send" /\ Goto("body")
  /\ \/ answer' = "done" /\ Carried(TRUE)
     \/ answer' = "error" /\ \E done \in BOOLEAN : Carried(done)
     \/ answer' = "moved" /\ Carried(FALSE)
  /\ moved' = (moved \/ answer' = "moved")
  /\ UNCHANGED <<asked, decode, method, kept, hops>>

\* A redirect is followed: 307 and 308 with the same method; 301, 302 and 303
\* with GET.
Redirected ==
  /\ pc = "send" /\ moved' = TRUE
  /\ \/ hops = MaxHops /\ GiveUp /\ UNCHANGED <<method, hops>>
     \/ /\ hops < MaxHops /\ hops' = hops + 1
        /\ method' \in {method, "GET"} /\ kept' \in 0 .. MaxKept
        /\ UNCHANGED <<pc, ret>>
  /\ UNCHANGED <<asked, decode, answer, effects>>

---------------------------------------------------------------------------

ClientStep == Url \/ SendingFailed \/ ReadBody \/ Decode
NetworkStep == BrokenBefore \/ BrokenAfter \/ Answered \/ Redirected

Next == ClientStep \/ NetworkStep

Spec == Init /\ [][Next]_vars

\* The client has no timeout: that a call ends takes a network that answers
\* or breaks.
FairSpec == Spec /\ WF_vars(ClientStep) /\ WF_vars(NetworkStep)

---------------------------------------------------------------------------

(* Every variable stays in its range: connections and redirects stay within
   net/http's limits, and the error is one of those doRequest wraps. *)
TypeOK ==
  /\ asked \in Methods /\ decode \in BOOLEAN
  /\ method \in Methods
  /\ pc \in {"url", "send", "broken", "body", "decode", "idle"}
  /\ kept \in 0 .. MaxKept /\ hops \in 0 .. MaxHops
  /\ answer \in Answers \cup {"none"}
  /\ ret \in Errors \cup {"none", "nil"}
  /\ effects \in 0 .. 2 /\ moved \in BOOLEAN

(* A nil error of Post, Put, Get or Delete means the service carried out what
   was asked, once if it was not a GET: what the driver builds on after a power
   request, an installation or a removal.  It does not hold of an answer with a
   3xx status, which is below the 400 doRequest tests for, nor of a request a
   redirect has turned into a GET. *)
NilMeansCarriedOut ==
  ret = "nil" /\ ~moved => effects >= 1 /\ (asked # "GET" => effects = 1)

(* No POST, PUT or DELETE is carried out twice in one call, however often the
   connection breaks: creating a machine is not idempotent, and an error must
   leave at most one machine behind. *)
AtMostOnce == asked # "GET" => effects <= 1

(* Every call of the client ends, on a network that answers or breaks: neither
   redirects nor closed connections keep it going for ever. *)
CallEnds == <>(pc = "idle")

\* The steps of doRequest a request has still before it.
StepsLeft == [url |-> 5, send |-> 4, broken |-> 3, body |-> 2, decode |-> 1, idle |-> 0]

(* Why a call ends: it never goes back to a step it has left, doRequest sends
   nothing again, and what net/http sends again costs it one of the redirects
   it may still follow or one of the connections it has kept. *)
NearerTheEnd ==
  [][\/ StepsLeft[pc'] < StepsLeft[pc]
     \/ /\ pc = "send" /\ pc' = "send"
        /\ \/ hops' > hops
           \/ hops' = hops /\ kept' < kept]_vars

\* What these promises rest on.
IInv ==
  /\ TypeOK
  /\ method \in {asked, "GET"}
  /\ moved \/ method = asked
  /\ asked # "GET" =>
       /\ effects <= 1
       /\ pc \in {"url", "send"} => effects = 0
  /\ pc \in {"url", "send", "broken"} <=> (answer = "none" /\ pc # "idle")
  /\ pc = "decode" => answer \in {"done", "moved"}
  /\ answer = "done" /\ ~moved => effects >= 1
  /\ ret = "nil" => answer \in {"done", "moved"}
  /\ answer = "moved" => moved
  /\ pc # "idle" <=> ret = "none"

===========================================================================
