------------------------------- MODULE Proxy --------------------------------
(***************************************************************************)
(* proxy_handler.cc: one request passed on to another server by a curl     *)
(* handle, followed as long as the answer is a redirect.  The callback     *)
(* appends each part of a body to one string that all the transfers of the *)
(* request share.                                                          *)
(*                                                                         *)
(* The other servers are a map from URLs to answers.  A transfer may break *)
(* off anywhere, fail before it has begun, or stop for ever.               *)
(***************************************************************************)
EXTENDS Integers, FiniteSets, Sequences

CONSTANTS
  Urls,
  None,        \* nextURL without a Location header: NULL
  Webs,        \* what the servers answer: code, next and body of each URL
  MaxResponse  \* bound on the length of serverResponse

Redirects == {301, 302}

ASSUME WebAssumption ==
  /\ None \notin Urls /\ IsFiniteSet(Urls)
  /\ \A web \in Webs : \A u \in Urls :
       web[u].next \in Urls \cup {None} /\ web[u].body \in Seq(Nat)

VARIABLES
  web,             \* one of Webs
  silent,          \* the server of the current transfer has stopped answering
  at,              \* where HandleRequest is
  url,             \* CURLOPT_URL
  part,            \* parts of the body of the current transfer that have arrived
  serverResponse,
  http_code,       \* CURLINFO_RESPONSE_CODE
  nextURL,         \* CURLINFO_REDIRECT_URL
  start,           \* host and the URI of the request
  broken,          \* a transfer of this request has failed
  reply

transferVars == <<url, part, serverResponse>>
infoVars == <<http_code, nextURL>>
vars == <<web, silent, at, transferVars, infoVars, start, broken, reply>>

NoReply == [code |-> 0, body |-> <<>>]

Init ==
  /\ web \in Webs
  /\ silent = FALSE /\ at = "idle"
  /\ url = None /\ part = 0 /\ serverResponse = <<>>
  /\ http_code = 0 /\ nextURL = None
  /\ start = None /\ broken = FALSE
  /\ reply = NoReply

(* A new handle and an empty string; the first getServerResponse.          *)
HandleRequest ==
  /\ at = "idle"
  /\ start' \in Urls
  /\ url' = start' /\ part' = 0 /\ serverResponse' = <<>>
  /\ http_code' = 0 /\ nextURL' = None /\ broken' = FALSE
  /\ reply' = NoReply
  /\ at' = "perform"
  /\ UNCHANGED <<web, silent>>

-----------------------------------------------------------------------------
(* curl_easy_perform                                                       *)

Transferring == at = "perform" /\ url # None /\ ~silent

curlCallback ==
  /\ Transferring /\ part < Len(web[url].body)
  /\ Len(serverResponse) < MaxResponse
  /\ part' = part + 1
  /\ serverResponse' = Append(serverResponse, web[url].body[part + 1])
  /\ UNCHANGED <<web, silent, at, url, infoVars, start, broken, reply>>

TransferCompletes ==
  /\ Transferring /\ part = Len(web[url].body)
  /\ http_code' = web[url].code
  /\ nextURL' = IF web[url].code \in Redirects THEN web[url].next ELSE None
  /\ at' = "check"
  /\ UNCHANGED <<web, silent, transferVars, start, broken, reply>>

(* Before the headers came the code is 0; after them, also when            *)
(* curlCallback returns 0 for want of memory, it is what they said.        *)
TransferBreaks ==
  /\ Transferring
  /\ \/ part = 0 /\ http_code' = 0 /\ nextURL' = None
     \/ /\ http_code' = web[url].code
        /\ nextURL' = IF web[url].code \in Redirects THEN web[url].next ELSE None
  /\ broken' = TRUE
  /\ at' = "check"
  /\ UNCHANGED <<web, silent, transferVars, start, reply>>

(* Without a URL there is no transfer, and the handle may still have the   *)
(* code and the URL of the one before.                                     *)
NoTransfer ==
  /\ at = "perform" /\ url = None
  /\ http_code' \in {0, http_code}
  /\ broken' = TRUE
  /\ at' = "check"
  /\ UNCHANGED <<web, silent, transferVars, nextURL, start, reply>>

(* No timeout is set.                                                      *)
ServerStops ==
  /\ at = "perform" /\ ~silent /\ silent' = TRUE
  /\ UNCHANGED <<web, at, transferVars, infoVars, start, broken, reply>>

-----------------------------------------------------------------------------

IsRedirect_mutant == http_code = 301

IsRedirect == http_code \in Redirects

NextTarget_mutant == start                    \* asks the first server again

NextTarget == nextURL

redirect ==
  /\ at = "check" /\ IsRedirect
  /\ url' = NextTarget /\ part' = 0
  /\ at' = "perform"
  /\ UNCHANGED <<web, silent, serverResponse, infoVars, start, broken, reply>>

answer ==
  /\ at = "check" /\ ~IsRedirect
  /\ reply' = [code |-> 200, body |-> serverResponse]
  /\ at' = "idle"
  /\ UNCHANGED <<web, silent, transferVars, infoVars, start, broken>>

Thread == curlCallback \/ TransferCompletes \/ NoTransfer \/ redirect \/ answer

Next == HandleRequest \/ Thread \/ TransferBreaks \/ ServerStops

Spec == Init /\ [][Next]_vars

(* The thread runs; a server that is not silent goes on with its answer.   *)
FairSpec == Spec /\ WF_vars(Thread)

-----------------------------------------------------------------------------
(* Properties                                                              *)

(* The URL after n redirects, None where they end.                         *)
Hop(n) ==
  LET hop[k \in 0 .. n] ==
        IF k = 0 THEN start
        ELSE IF hop[k - 1] = None \/ web[hop[k - 1]].code \notin Redirects THEN None
        ELSE web[hop[k - 1]].next
  IN hop[n]

IsFinal(n) == Hop(n) # None /\ web[Hop(n)].code \notin Redirects

(* Following the redirects leads to a page; if so, in fewer hops than      *)
(* there are URLs.                                                         *)
Hops == {n \in 0 .. Cardinality(Urls) : IsFinal(n)}
LeadsToPage == start # None /\ Hops # {}

(* The bodies of the first n + 1 answers, one after the other.             *)
Bodies(n) ==
  LET bodies[k \in 0 .. n] ==
        IF k = 0 THEN web[Hop(0)].body ELSE bodies[k - 1] \o web[Hop(k)].body
  IN bodies[n]

(* A reply comes after the last redirect and carries the body of every     *)
(* answer on the way, each part once and in order: the body of the page    *)
(* alone when the redirects have none.                                     *)
RelaysBodies ==
  reply.code # 0 /\ ~broken =>
    LeadsToPage /\ reply.body = Bodies(CHOOSE n \in Hops : TRUE)

(* Every request is answered, also when a transfer breaks, unless a server *)
(* falls silent or the redirects lead round in a circle or to no URL.      *)
RequestAnswered == (at # "idle") ~> (at = "idle" \/ silent \/ ~LeadsToPage)

=============================================================================
