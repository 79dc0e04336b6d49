------------------------------- MODULE Server -------------------------------
(***************************************************************************)
(* The server process: the accept loop (server.cc), the session objects    *)
(* and their completion handlers (session.cc), the handler manager and its *)
(* request counters (handler_manager.cc) and the status report             *)
(* (status_handler.cc), run by the io_service thread pool of               *)
(* server_main.cc.                                                         *)
(*                                                                         *)
(* A thread of the pool takes one completed operation at a time and runs   *)
(* its handler.  A handler is one action where no other thread can see it  *)
(* half done, and several actions (pc) where it blocks on mtx, reads state *)
(* it has not locked, or goes on running after it has started the          *)
(* asynchronous operation whose handler comes next.                        *)
(***************************************************************************)
EXTENDS Integers, FiniteSets, FiniteSetsExt

CONSTANTS
  Threads,       \* threads that call io_service::run
  Sessions,      \* session objects start_accept may allocate (bound)
  Requests,      \* what a client may send, see RequestAssumption
  MaxRequests,   \* bound on the number of requests that arrive
  MaxDeferred,   \* bound on the write_some calls a reply needs after the first
  None

(***************************************************************************)
(* A request is what parse_request_line leaves of a read: whether it is    *)
(* valid, its path (a number that follows the order of std::map; 0 is the  *)
(* empty path, which only an invalid request has) and the name configured  *)
(* for the location the path falls under.                                  *)
(***************************************************************************)
ASSUME RequestAssumption ==
  \A r \in Requests : /\ r.valid \in BOOLEAN
                      /\ r.path \in Nat
                      /\ r.valid <=> r.path > 0

ASSUME NoneAssumption == None \notin Threads \cup Sessions \cup Requests

ASSUME BoundAssumption == MaxRequests \in Nat /\ MaxDeferred \in Nat

VARIABLES
  proc,          \* life of the process
  accept,        \* state of the one async_accept
  new_session,   \* the session bound to it
  life,          \* session objects: free, alive, deleted
  link,          \* the peer's end of a session's socket
  op,            \* the asynchronous operation of a session
  inbox,         \* what a completed read delivered
  left,          \* write_some calls the current reply still needs
  wbuf,          \* the string http_response the current write reads from
  garbled,       \* sessions that were sent bytes not of their reply
  pc,            \* where each thread is
  cur,           \* the session (this) of the handler a thread runs
  req,           \* its request
  code,          \* the code of its reply
  rep,           \* the status report a thread is making
  sum,           \* the three sums of that report
  mtx,           \* owner of the mutex mtx of session.cc
  url_counter,   \* std::map of handler_manager: path -> requests
  code_counter,  \* std::map of handler_manager: code -> replies
  sent,          \* number of replies given to async_write
  arrived        \* number of requests that have arrived

socketVars == <<life, link, op, inbox, left, wbuf, garbled>>
threadVars == <<pc, cur, req, code, rep, sum>>
acceptVars == <<accept, new_session>>
counterVars == <<url_counter, code_counter>>
vars == <<proc, acceptVars, socketVars, threadVars, mtx, counterVars, sent,
          arrived>>

Loops == {"total", "urls", "codes"}

(* pc values inside handle_read, up to and including the async_write.      *)
InHandleRead == {"create", "handle", "upstream", "lock", "url", "code", "write"}
                  \cup Loops

(* A report: the key its iterator stands on (-1 before the first), whether *)
(* a key was inserted under it, and the replies sent before it started.    *)
NoReport == [it |-> -1, harm |-> "none", before |-> 0]
NoSums == [l \in Loops |-> 0]
EmptyMap == [k \in {} |-> 0]

Init ==
  /\ proc = "constructed"
  /\ accept = "none" /\ new_session = None
  /\ life = [s \in Sessions |-> "free"]
  /\ link = [s \in Sessions |-> "none"]
  /\ op = [s \in Sessions |-> "none"]
  /\ inbox = [s \in Sessions |-> None]
  /\ left = [s \in Sessions |-> 0]
  /\ wbuf = [s \in Sessions |-> "none"]
  /\ garbled = {}
  /\ pc = [t \in Threads |-> "idle"]
  /\ cur = [t \in Threads |-> None]
  /\ req = [t \in Threads |-> None]
  /\ code = [t \in Threads |-> 0]
  /\ rep = [t \in Threads |-> NoReport]
  /\ sum = [t \in Threads |-> NoSums]
  /\ mtx = None
  /\ url_counter = EmptyMap /\ code_counter = EmptyMap
  /\ sent = 0 /\ arrived = 0

-----------------------------------------------------------------------------
(* Handlers: which class serves a configured name, and the codes it gives. *)

createByNameClass(name) ==
  IF name \in {"echo", "static", "status", "proxy", "meme", "health"}
    THEN name ELSE "bad_request"

echo_codes == {200}
health_codes == {200}
static_codes_mutant == {-1, 404}       \* code is left at its initial -1
static_codes == {200, 404}
meme_codes == {200, 400, 404}
bad_request_codes == {404}

(* The handlers that answer in one step: all but status and proxy.         *)
HandlerCodes ==
  [echo |-> echo_codes, health |-> health_codes, static |-> static_codes,
   meme |-> meme_codes, bad_request |-> bad_request_codes]

Class(t) == createByNameClass(req[t].name)

Idle(t) == proc = "running" /\ pc[t] = "idle"

(* A thread inside a handler goes on after io_service::stop, not after the *)
(* process has exited.                                                     *)
At(t, where) == proc \in {"running", "stopped"} /\ pc[t] = where

Fresh == {s \in Sessions : life[s] = "free"}

-----------------------------------------------------------------------------
(* server.cc                                                               *)

start_accept(s, lives) ==
  /\ life' = [lives EXCEPT ![s] = "alive"]
  /\ accept' = "pending"
  /\ new_session' = s

(* server::init, called by main, which exits when it returns false.        *)
init ==
  /\ proc = "constructed"
  /\ \/ /\ proc' = "running"
        /\ \E s \in Fresh : start_accept(s, life)
     \/ /\ proc' = "exited"
        /\ UNCHANGED <<life, acceptVars>>
  /\ UNCHANGED <<link, op, inbox, left, wbuf, garbled, threadVars, mtx,
                 counterVars, sent, arrived>>

(* server::kill: io_service::stop lets running handlers finish.            *)
kill ==
  /\ proc = "running"
  /\ proc' = "stopped"
  /\ UNCHANGED <<acceptVars, socketVars, threadVars, mtx, counterVars, sent,
                 arrived>>

(* Every io_service::run has returned, main returns 0.                     *)
main_returns ==
  /\ proc = "stopped"
  /\ \A t \in Threads : pc[t] = "idle"
  /\ proc' = "exited"
  /\ UNCHANGED <<acceptVars, socketVars, threadVars, mtx, counterVars, sent,
                 arrived>>

got_signal ==
  /\ proc # "exited"
  /\ proc' = "exited"
  /\ UNCHANGED <<acceptVars, socketVars, threadVars, mtx, counterVars, sent,
                 arrived>>

(* handle_accept without error, up to the async_read_some that             *)
(* session::start issues before it asks for the peer's address.            *)
handle_accept(t) ==
  /\ Idle(t) /\ accept = "ready"
  /\ op' = [op EXCEPT ![new_session] = "reading"]
  /\ pc' = [pc EXCEPT ![t] = "remote_ip"]
  /\ cur' = [cur EXCEPT ![t] = new_session]
  /\ accept' = "none" /\ new_session' = None
  /\ UNCHANGED <<proc, life, link, inbox, left, wbuf, garbled, req, code, rep,
                 sum, mtx, counterVars, sent, arrived>>

handle_accept_error_mutant(t) ==       \* returns without the next start_accept
  /\ Idle(t) /\ accept = "error"
  /\ life' = [life EXCEPT ![new_session] = "deleted"]
  /\ accept' = "none" /\ new_session' = None
  /\ UNCHANGED <<proc, link, op, inbox, left, wbuf, garbled, threadVars, mtx,
                 counterVars, sent, arrived>>

handle_accept_error_starts(t) ==       \* starts the session it has deleted
  /\ Idle(t) /\ accept = "error"
  /\ life' = [life EXCEPT ![new_session] = "deleted"]
  /\ pc' = [pc EXCEPT ![t] = "remote_ip"]
  /\ cur' = [cur EXCEPT ![t] = new_session]
  /\ accept' = "none" /\ new_session' = None
  /\ UNCHANGED <<proc, link, op, inbox, left, wbuf, garbled, req, code, rep, sum, mtx,
                 counterVars, sent, arrived>>

handle_accept_error(t) ==
  /\ Idle(t) /\ accept = "error"
  /\ \E s \in Fresh :
       start_accept(s, [life EXCEPT ![new_session] = "deleted"])
  /\ UNCHANGED <<proc, link, op, inbox, left, wbuf, garbled, threadVars, mtx,
                 counterVars, sent, arrived>>

(* The rest of session::start and of handle_accept.  remote_endpoint       *)
(* throws once the peer has reset the connection, and the exception leaves *)
(* io_service::run.  If the read has already failed on another thread the  *)
(* session is gone: the call on freed memory may throw or may not.         *)
get_remote_ip(t) ==
  /\ At(t, "remote_ip")
  /\ life[cur[t]] = "alive" => link[cur[t]] # "reset"
  /\ \E s \in Fresh : start_accept(s, life)
  /\ pc' = [pc EXCEPT ![t] = "idle"]
  /\ cur' = [cur EXCEPT ![t] = None]
  /\ UNCHANGED <<proc, link, op, inbox, left, wbuf, garbled, req, code, rep,
                 sum, mtx, counterVars, sent, arrived>>

get_remote_ip_throws(t) ==
  /\ At(t, "remote_ip")
  /\ life[cur[t]] = "deleted" \/ link[cur[t]] = "reset"
  /\ proc' = "exited"
  /\ UNCHANGED <<acceptVars, socketVars, threadVars, mtx, counterVars, sent,
                 arrived>>

-----------------------------------------------------------------------------
(* session.cc, handle_read: reading, routing and handling the request      *)

handle_read_error(t, s) ==
  /\ Idle(t) /\ op[s] = "readError"
  /\ life' = [life EXCEPT ![s] = "deleted"]
  /\ op' = [op EXCEPT ![s] = "none"]
  /\ UNCHANGED <<proc, acceptVars, link, inbox, left, wbuf, garbled,
                 threadVars, mtx, counterVars, sent, arrived>>

handle_read_mutant(t, s) ==            \* issues the next read at once
  /\ Idle(t) /\ op[s] = "readDone"
  /\ op' = [op EXCEPT ![s] = "reading"]
  /\ inbox' = [inbox EXCEPT ![s] = None]
  /\ cur' = [cur EXCEPT ![t] = s]
  /\ req' = [req EXCEPT ![t] = inbox[s]]
  /\ pc' = [pc EXCEPT ![t] = "lock"]
  /\ code' = [code EXCEPT ![t] = 400]
  /\ UNCHANGED <<proc, acceptVars, life, link, left, wbuf, garbled, rep, sum,
                 mtx, counterVars, sent, arrived>>

(* data_ is copied and parsed; an invalid request gets make_400_request    *)
(* and no handler.                                                         *)
handle_read(t, s) ==
  /\ Idle(t) /\ op[s] = "readDone"
  /\ op' = [op EXCEPT ![s] = "none"]
  /\ inbox' = [inbox EXCEPT ![s] = None]
  /\ cur' = [cur EXCEPT ![t] = s]
  /\ req' = [req EXCEPT ![t] = inbox[s]]
  /\ \/ /\ inbox[s].valid
        /\ pc' = [pc EXCEPT ![t] = "create"]
        /\ UNCHANGED code
     \/ /\ ~inbox[s].valid
        /\ pc' = [pc EXCEPT ![t] = "lock"]
        /\ code' = [code EXCEPT ![t] = 400]
  /\ UNCHANGED <<proc, acceptVars, life, link, left, wbuf, garbled, rep, sum,
                 mtx, counterVars, sent, arrived>>

lock_mutant(t) == mtx' = t             \* the other mutex, mtx2, is locked

(* mtx.lock()                                                              *)
lock(t) == mtx = None /\ mtx' = t

createByName_mutant(t) ==              \* mtx is not unlocked
  /\ At(t, "create") /\ lock(t)
  /\ pc' = [pc EXCEPT ![t] = "handle"]
  /\ UNCHANGED <<proc, acceptVars, socketVars, cur, req, code, rep, sum,
                 counterVars, sent, arrived>>

(* mtx is locked, and unlocked again before HandleRequest is called.       *)
createByName(t) ==
  /\ At(t, "create") /\ mtx = None
  /\ pc' = [pc EXCEPT ![t] = "handle"]
  /\ UNCHANGED <<proc, acceptVars, socketVars, cur, req, code, rep, sum, mtx,
                 counterVars, sent, arrived>>

HandleRequest(t) ==
  /\ At(t, "handle") /\ Class(t) \in DOMAIN HandlerCodes
  /\ \E c \in HandlerCodes[Class(t)] : code' = [code EXCEPT ![t] = c]
  /\ pc' = [pc EXCEPT ![t] = "lock"]
  /\ UNCHANGED <<proc, acceptVars, socketVars, cur, req, rep, sum, mtx,
                 counterVars, sent, arrived>>

(* proxy_handler blocks in curl_easy_perform, which has no timeout and is  *)
(* called again as long as it is answered by a redirect.                   *)
getServerResponse(t) ==
  /\ At(t, "handle") /\ Class(t) = "proxy"
  /\ pc' = [pc EXCEPT ![t] = "upstream"]
  /\ UNCHANGED <<proc, acceptVars, socketVars, cur, req, code, rep, sum, mtx,
                 counterVars, sent, arrived>>

UpstreamAnswers(t) ==
  /\ At(t, "upstream")
  /\ pc' = [pc EXCEPT ![t] = "lock"]
  /\ code' = [code EXCEPT ![t] = 200]
  /\ UNCHANGED <<proc, acceptVars, socketVars, cur, req, rep, sum, mtx,
                 counterVars, sent, arrived>>

-----------------------------------------------------------------------------
(* status_handler.cc: three loops over maps that other threads update.     *)

start_report(t) ==
  /\ At(t, "handle") /\ Class(t) = "status"
  /\ pc' = [pc EXCEPT ![t] = "total"]
  /\ code' = [code EXCEPT ![t] = 200]
  /\ rep' = [rep EXCEPT ![t] = [NoReport EXCEPT !.before = sent]]
  /\ UNCHANGED <<proc, acceptVars, socketVars, cur, req, sum, mtx,
                 counterVars, sent, arrived>>

Counter(loop) == IF loop = "codes" THEN code_counter ELSE url_counter

Ahead_mutant(t) ==                     \* requests with the empty path are skipped
  {k \in DOMAIN Counter(pc[t]) \ {0} : k > rep[t].it}

Ahead(t) == {k \in DOMAIN Counter(pc[t]) : k > rep[t].it}

(* The iterator moves, once and for all away from where it was torn.       *)
Move(r, k) ==
  [r EXCEPT !.it = k, !.harm = IF @ = "torn" THEN "raced" ELSE @]

(* One round of a loop.  An iterator whose map another thread has changed  *)
(* may go anywhere: the loop is not synchronised with the insertion.       *)
visit(t, k) ==
  /\ \E l \in Loops : At(t, l)
  /\ k \in DOMAIN Counter(pc[t])
  /\ rep[t].harm = "torn" \/ (k \in Ahead(t) /\ \A j \in Ahead(t) : k <= j)
  /\ sum' = [sum EXCEPT ![t][pc[t]] = @ + Counter(pc[t])[k]]
  /\ rep' = [rep EXCEPT ![t] = Move(@, k)]
  /\ UNCHANGED <<proc, acceptVars, socketVars, pc, cur, req, code, mtx,
                 counterVars, sent, arrived>>

AfterLoop_mutant == [total |-> "codes", codes |-> "urls", urls |-> "lock"]

AfterLoop == [total |-> "urls", urls |-> "codes", codes |-> "lock"]

end_loop(t) ==
  /\ \E l \in Loops : At(t, l)
  /\ rep[t].harm = "torn" \/ Ahead(t) = {}
  /\ rep' = [rep EXCEPT ![t] = Move(@, -1)]
  /\ pc' = [pc EXCEPT ![t] = AfterLoop[@]]
  /\ UNCHANGED <<proc, acceptVars, socketVars, cur, req, code, sum, mtx,
                 counterVars, sent, arrived>>

(* The other outcome of an iterator that was pulled away.                  *)
torn_iterator_crashes(t) ==
  /\ \E l \in Loops : At(t, l)
  /\ rep[t].harm = "torn"
  /\ proc' = "exited"
  /\ UNCHANGED <<acceptVars, socketVars, threadVars, mtx, counterVars, sent,
                 arrived>>

-----------------------------------------------------------------------------
(* session.cc, handle_read: counting and answering the request             *)

With_mutant(map, k, n) ==              \* a new key starts at 1
  [j \in DOMAIN map \cup {k} |-> IF j = k THEN n + 1 ELSE map[j]]

With(map, k, n) ==
  [j \in DOMAIN map \cup {k} |-> IF j = k THEN n ELSE map[j]]

(* What an insertion does to the loops that stand inside the same map.     *)
Tear(loops) ==
  [u \in Threads |->
     IF pc[u] \in loops /\ rep[u].it # -1
       THEN [rep[u] EXCEPT !.harm = "torn"] ELSE rep[u]]

(* mtx.lock and the insertion of a new path with count 0.                  *)
lock_count(t) ==
  /\ At(t, "lock") /\ lock(t)
  /\ pc' = [pc EXCEPT ![t] = "url"]
  /\ \/ /\ req[t].path \in DOMAIN url_counter
        /\ UNCHANGED <<url_counter, rep>>
     \/ /\ req[t].path \notin DOMAIN url_counter
        /\ url_counter' = With(url_counter, req[t].path, 0)
        /\ rep' = Tear({"total", "urls"})
  /\ UNCHANGED <<proc, acceptVars, socketVars, cur, req, code, sum,
                 code_counter, sent, arrived>>

count_url(t) ==
  /\ At(t, "url")
  /\ url_counter' = [url_counter EXCEPT ![req[t].path] = @ + 1]
  /\ pc' = [pc EXCEPT ![t] = "code"]
  /\ UNCHANGED <<proc, acceptVars, socketVars, cur, req, code, rep, sum, mtx,
                 code_counter, sent, arrived>>

insert_code(t) ==
  /\ At(t, "code") /\ code[t] \notin DOMAIN code_counter
  /\ code_counter' = With(code_counter, code[t], 0)
  /\ rep' = Tear({"codes"})
  /\ UNCHANGED <<proc, acceptVars, socketVars, pc, cur, req, code, sum, mtx,
                 url_counter, sent, arrived>>

(* The increment and mtx.unlock.                                           *)
count_code(t) ==
  /\ At(t, "code") /\ code[t] \in DOMAIN code_counter
  /\ code_counter' = [code_counter EXCEPT ![code[t]] = @ + 1]
  /\ mtx' = None
  /\ pc' = [pc EXCEPT ![t] = "write"]
  /\ UNCHANGED <<proc, acceptVars, socketVars, cur, req, code, rep, sum,
                 url_counter, sent, arrived>>

(* mtx.lock and async_write, which tries to send at once and defers what   *)
(* the socket does not take or exceeds its chunk size.                     *)
async_write(t) ==
  /\ At(t, "write") /\ lock(t)
  /\ sent' = sent + 1
  /\ pc' = [pc EXCEPT ![t] = "unlock"]
  /\ LET s == cur[t] IN
       \/ /\ link[s] = "reset"
          /\ op' = [op EXCEPT ![s] = "writeError"]
          /\ UNCHANGED <<left, wbuf>>
       \/ /\ link[s] # "reset"
          /\ op' = [op EXCEPT ![s] = "writeDone"]
          /\ UNCHANGED <<left, wbuf>>
       \/ /\ link[s] # "reset"
          /\ op' = [op EXCEPT ![s] = "writing"]
          /\ \E n \in 1..MaxDeferred : left' = [left EXCEPT ![s] = n]
          /\ wbuf' = [wbuf EXCEPT ![s] = "alive"]
  /\ UNCHANGED <<proc, acceptVars, life, link, inbox, garbled, cur, req, code,
                 rep, sum, counterVars, arrived>>

handle_read_returns_mutant(t) ==       \* delete this, as after the write
  /\ At(t, "unlock")
  /\ mtx' = None
  /\ life' = [life EXCEPT ![cur[t]] = "deleted"]
  /\ pc' = [pc EXCEPT ![t] = "idle"]
  /\ UNCHANGED <<proc, acceptVars, link, op, inbox, left, wbuf, garbled, cur,
                 req, code, rep, sum, counterVars, sent, arrived>>

(* mtx.unlock and the end of handle_read, which destroys http_response.    *)
handle_read_returns(t) ==
  /\ At(t, "unlock")
  /\ mtx' = None
  /\ wbuf' = [wbuf EXCEPT ![cur[t]] = IF op[cur[t]] = "writing" THEN "freed" ELSE @]
  /\ pc' = [pc EXCEPT ![t] = "idle"]
  /\ cur' = [cur EXCEPT ![t] = None]
  /\ req' = [req EXCEPT ![t] = None]
  /\ code' = [code EXCEPT ![t] = 0]
  /\ rep' = [rep EXCEPT ![t] = NoReport]
  /\ sum' = [sum EXCEPT ![t] = NoSums]
  /\ UNCHANGED <<proc, acceptVars, life, link, op, inbox, left, garbled,
                 counterVars, sent, arrived>>

(* The pool sends the next piece of a deferred write.  Bytes read from a   *)
(* destroyed string may still be right.                                    *)
write_some(t, s) ==
  /\ Idle(t) /\ op[s] = "writing" /\ link[s] # "reset"
  /\ left' = [left EXCEPT ![s] = @ - 1]
  /\ \/ UNCHANGED garbled
     \/ wbuf[s] = "freed" /\ garbled' = garbled \cup {s}
  /\ \/ left[s] > 1 /\ UNCHANGED <<op, wbuf>>
     \/ /\ left[s] = 1
        /\ op' = [op EXCEPT ![s] = "writeDone"]
        /\ wbuf' = [wbuf EXCEPT ![s] = "none"]
  /\ UNCHANGED <<proc, acceptVars, life, link, inbox, threadVars, mtx,
                 counterVars, sent, arrived>>

-----------------------------------------------------------------------------
(* session.cc, handle_write                                                *)

handle_write(t, s) ==
  /\ Idle(t) /\ op[s] = "writeDone"
  /\ op' = [op EXCEPT ![s] = "reading"]
  /\ UNCHANGED <<proc, acceptVars, life, link, inbox, left, wbuf, garbled,
                 threadVars, mtx, counterVars, sent, arrived>>

handle_write_error_mutant(t, s) ==     \* the session is not deleted
  /\ Idle(t) /\ op[s] = "writeError"
  /\ op' = [op EXCEPT ![s] = "none"]
  /\ UNCHANGED <<proc, acceptVars, life, link, inbox, left, wbuf, garbled,
                 threadVars, mtx, counterVars, sent, arrived>>

handle_write_error(t, s) ==
  /\ Idle(t) /\ op[s] = "writeError"
  /\ life' = [life EXCEPT ![s] = "deleted"]
  /\ op' = [op EXCEPT ![s] = "none"]
  /\ UNCHANGED <<proc, acceptVars, link, inbox, left, wbuf, garbled,
                 threadVars, mtx, counterVars, sent, arrived>>

-----------------------------------------------------------------------------
(* The sockets and their peers                                             *)

(* Connections are bounded by Sessions: the accept that follows needs one. *)
ClientConnects ==
  /\ proc = "running" /\ accept = "pending" /\ Fresh # {}
  /\ accept' = "ready"
  /\ link' = [link EXCEPT ![new_session] = "open"]
  /\ UNCHANGED <<proc, new_session, life, op, inbox, left, wbuf, garbled,
                 threadVars, mtx, counterVars, sent, arrived>>

AcceptFails ==
  /\ proc = "running" /\ accept = "pending" /\ Fresh # {}
  /\ accept' = "error"
  /\ UNCHANGED <<proc, new_session, socketVars, threadVars, mtx, counterVars,
                 sent, arrived>>

(* What the peer has sent is read even after it has closed its end.        *)
ReadCompletes(s, r) ==
  /\ proc = "running" /\ op[s] = "reading" /\ link[s] \in {"open", "closed"}
  /\ arrived < MaxRequests
  /\ arrived' = arrived + 1
  /\ inbox' = [inbox EXCEPT ![s] = r]
  /\ op' = [op EXCEPT ![s] = "readDone"]
  /\ UNCHANGED <<proc, acceptVars, life, link, left, wbuf, garbled,
                 threadVars, mtx, counterVars, sent>>

ReadFails(s) ==
  /\ proc = "running" /\ op[s] = "reading" /\ link[s] \in {"closed", "reset"}
  /\ op' = [op EXCEPT ![s] = "readError"]
  /\ UNCHANGED <<proc, acceptVars, life, link, inbox, left, wbuf, garbled,
                 threadVars, mtx, counterVars, sent, arrived>>

WriteFails(s) ==
  /\ proc = "running" /\ op[s] = "writing" /\ link[s] = "reset"
  /\ op' = [op EXCEPT ![s] = "writeError"]
  /\ left' = [left EXCEPT ![s] = 0]
  /\ wbuf' = [wbuf EXCEPT ![s] = "none"]
  /\ UNCHANGED <<proc, acceptVars, life, link, inbox, garbled, threadVars, mtx,
                 counterVars, sent, arrived>>

PeerLeaves(s) ==
  /\ proc = "running" /\ life[s] = "alive"
  /\ \/ link[s] = "open" /\ link' = [link EXCEPT ![s] = "closed"]
     \/ link[s] \in {"open", "closed"} /\ link' = [link EXCEPT ![s] = "reset"]
  /\ UNCHANGED <<proc, acceptVars, life, op, inbox, left, wbuf, garbled,
                 threadVars, mtx, counterVars, sent, arrived>>

-----------------------------------------------------------------------------
(* What thread t does as soon as it is scheduled.                          *)
Thread(t) ==
  \/ handle_accept(t) \/ handle_accept_error(t)
  \/ get_remote_ip(t) \/ get_remote_ip_throws(t)
  \/ createByName(t) \/ HandleRequest(t) \/ getServerResponse(t)
  \/ start_report(t) \/ end_loop(t) \/ torn_iterator_crashes(t)
  \/ \E k \in DOMAIN url_counter \cup DOMAIN code_counter : visit(t, k)
  \/ lock_count(t) \/ count_url(t) \/ insert_code(t) \/ count_code(t)
  \/ async_write(t) \/ handle_read_returns(t)
  \/ \E s \in Sessions : \/ handle_read_error(t, s) \/ handle_read(t, s)
                         \/ handle_write(t, s) \/ handle_write_error(t, s)

(* The peers, the sockets and the upstream server of a proxy.              *)
Environment ==
  \/ ClientConnects \/ AcceptFails
  \/ \E s \in Sessions : \/ \E r \in Requests : ReadCompletes(s, r)
                         \/ ReadFails(s) \/ WriteFails(s) \/ PeerLeaves(s)
                         \/ \E t \in Threads : write_some(t, s)
  \/ \E t \in Threads : UpstreamAnswers(t)

Process == init \/ kill \/ main_returns \/ got_signal

Next == Process \/ Environment \/ \E t \in Threads : Thread(t)

Spec == Init /\ [][Next]_vars

(* Every thread keeps running, and a socket reports the loss of its peer.  *)
(* Clients need not send or read, an upstream server need not answer.      *)
Fairness ==
  /\ \A t \in Threads : WF_vars(Thread(t))
  /\ \A s \in Sessions : WF_vars(ReadFails(s)) /\ WF_vars(WriteFails(s))

-----------------------------------------------------------------------------
(* Properties                                                              *)

PCs == InHandleRead \cup {"idle", "remote_ip", "unlock"}
Codes == {0, 200, 400, 404}
Ops == {"none", "reading", "readDone", "readError", "writing", "writeDone",
        "writeError"}
Reports == [it : Int, harm : {"none", "torn", "raced"}, before : Nat]
IsCounter(map, keys) == DOMAIN map \subseteq keys /\ map \in [DOMAIN map -> Nat]

ProcessTypes ==
  /\ proc \in {"constructed", "running", "stopped", "exited"}
  /\ accept \in {"none", "pending", "ready", "error"}
  /\ new_session \in Sessions \cup {None}
  /\ mtx \in Threads \cup {None}
  /\ sent \in Nat /\ arrived \in Nat

SocketTypes ==
  /\ life \in [Sessions -> {"free", "alive", "deleted"}]
  /\ link \in [Sessions -> {"none", "open", "closed", "reset"}]
  /\ op \in [Sessions -> Ops]
  /\ inbox \in [Sessions -> Requests \cup {None}]
  /\ left \in [Sessions -> Nat]
  /\ wbuf \in [Sessions -> {"none", "alive", "freed"}]
  /\ garbled \subseteq Sessions
  /\ \A s \in Sessions : op[s] = "readDone" => inbox[s] \in Requests

ThreadTypes ==
  /\ pc \in [Threads -> PCs]
  /\ cur \in [Threads -> Sessions \cup {None}]
  /\ req \in [Threads -> Requests \cup {None}]
  /\ code \in [Threads -> Codes]
  /\ rep \in [Threads -> Reports]
  /\ sum \in [Threads -> [Loops -> Nat]]
  /\ \A t \in Threads : pc[t] \in InHandleRead => req[t] \in Requests

CounterTypes == IsCounter(url_counter, Nat) /\ IsCounter(code_counter, Codes)

(* Every variable has its type, and a completed read or a handler that     *)
(* runs has a request.                                                     *)
TypeOK == ProcessTypes /\ SocketTypes /\ ThreadTypes /\ CounterTypes

Serves(t, s) == pc[t] \in InHandleRead /\ cur[t] = s

(* A session is never in two hands: while a thread is inside handle_read   *)
(* with it up to async_write, no operation of it is outstanding, so no     *)
(* other handler of the same session can start on another thread.  It is   *)
(* what makes the unlocked use of data_ and socket_ in session.cc safe.    *)
OneHandlerPerSession ==
  \A s \in Sessions, t \in Threads :
    Serves(t, s) => /\ op[s] = "none"
                    /\ \A u \in Threads : Serves(u, s) => u = t

(* handle_read never runs on a deleted session, and delete this never hits *)
(* a session that has an operation outstanding or is bound to the accept.  *)
(* (session::start and the unlock after async_write may outlive theirs.)   *)
NoUseAfterDelete ==
  /\ \A t \in Threads : pc[t] \in InHandleRead => life[cur[t]] = "alive"
  /\ \A s \in Sessions : op[s] # "none" \/ new_session = s => life[s] = "alive"

(* mtx excludes: at most one thread is inside the counter update or the    *)
(* async_write call of handle_read.                                        *)
MutualExclusion ==
  \A t, u \in Threads :
    pc[t] \in {"url", "code", "unlock"} /\ pc[u] \in {"url", "code", "unlock"}
      => t = u

(* The accept chain neither breaks nor forks while the server runs: one    *)
(* async_accept is outstanding, or one thread is on its way through        *)
(* session::start to the next one, never both.                             *)
AcceptChain ==
  proc = "running" =>
    Cardinality({t \in Threads : pc[t] = "remote_ip"}) = IF accept = "none" THEN 1 ELSE 0

(* A session that was allocated and not deleted is reachable: it is bound  *)
(* to the accept, or has an operation outstanding, or is in handle_read.   *)
NoLeak ==
  \A s \in Sessions :
    life[s] = "alive" => \/ new_session = s
                         \/ op[s] # "none"
                         \/ \E t \in Threads : Serves(t, s)

(* The counters of handler_manager and the replies agree at every step:    *)
(* each reply given to async_write has been counted once per map, and only *)
(* the threads between the count and the write account for a difference.   *)
CountsMatchReplies ==
  LET Between(pcs) == Cardinality({t \in Threads : pc[t] \in pcs})
  IN /\ SumFunction(url_counter) = sent + Between({"code", "write"})
     /\ SumFunction(code_counter) = sent + Between({"write"})

Reported(t) ==
  /\ pc[t] \in {"lock", "url", "code", "write"}
  /\ req[t].valid
  /\ Class(t) = "status"

(* The three sums of a status report may disagree, since its loops do not  *)
(* hold mtx, but only in one way as long as no key was inserted under its  *)
(* iterator: every reply sent before the report is in its total, and later *)
(* loops see at least what earlier ones saw, up to the one request between *)
(* its url and its code count.                                             *)
ReportOrdered ==
  \A t \in Threads :
    Reported(t) /\ rep[t].harm = "none" =>
      /\ rep[t].before <= sum[t].total
      /\ sum[t].total <= sum[t].urls
      /\ sum[t].urls <= sum[t].codes + 1
      /\ sum[t].codes <= arrived

(* The three sums of every status report agree with each other: what       *)
(* thread_integration.sh expects of the pool.                              *)
ReportConsistent ==
  \A t \in Threads :
    Reported(t) => sum[t].total = sum[t].urls /\ sum[t].urls = sum[t].codes

(* They also agree with the number of replies sent before the report, when *)
(* a single thread runs the io_service: nothing is counted late or twice,  *)
(* invalid requests and new keys included.                                 *)
ReportExact ==
  /\ ReportConsistent
  /\ \A t \in Threads : Reported(t) => sum[t].total = rep[t].before

(* session::start asks for the peer's address of a session that still      *)
(* exists.  It has already issued the read by then, so this needs the one  *)
(* thread: with two the read may fail and handle_read delete the session.  *)
StartOnLiveSession ==
  \A t \in Threads : pc[t] = "remote_ip" => life[cur[t]] = "alive"

(* Every byte sent belongs to the reply: "reads the file into a buffer,    *)
(* and appends it as the body of a 200 reply" (README.txt).                *)
RepliesIntact == garbled = {}

(* Counters only grow, one key by one at a time, and new keys start at 0.  *)
Grows(old, new) ==
  \E k \in DOMAIN new :
    /\ DOMAIN new = DOMAIN old \cup {k}
    /\ new[k] = IF k \in DOMAIN old THEN old[k] + 1 ELSE 0
    /\ \A j \in DOMAIN old \ {k} : new[j] = old[j]

(* Reports can be ordered only because the counters change in one way: by  *)
(* one key and by one, each change made by the thread that holds mtx.      *)
CountersGrow ==
  [][/\ url_counter' # url_counter => Grows(url_counter, url_counter')
     /\ code_counter' # code_counter => Grows(code_counter, code_counter')
     /\ counterVars' # counterVars => mtx' # None \/ mtx # None]_vars

(* A session is deleted once its reply has been written: "Sessions are     *)
(* short lived and deleted after writing" (README.txt).                    *)
DeletedAfterWriting ==
  [][\A s \in Sessions :
       op[s] = "writeDone" /\ op'[s] # "writeDone" => life'[s] = "deleted"]_vars

(* No thread of the pool is left to run handlers: each waits for an        *)
(* upstream server that need never answer.                                 *)
PoolExhausted == \A t \in Threads : pc[t] = "upstream"

(* Every request that was read is answered, unless its own or every thread *)
(* waits for an upstream server, or the process ends.                      *)
EveryRequestAnswered ==
  \A s \in Sessions :
    op[s] = "readDone" ~>
      \/ op[s] \in {"writing", "writeDone", "writeError"}
      \/ \E t \in Threads : pc[t] = "upstream" /\ cur[t] = s
      \/ PoolExhausted \/ proc # "running"

(* The session of a peer that reset its connection is deleted, with the    *)
(* same exceptions.                                                        *)
LostSessionsDeleted ==
  \A s \in Sessions :
    link[s] = "reset" ~>
      \/ life[s] = "deleted"
      \/ \E t \in Threads : pc[t] = "upstream" /\ cur[t] = s
      \/ PoolExhausted \/ proc # "running"

(* The server comes back to accepting after every connection and after     *)
(* every failed accept, unless all threads wait for upstream servers.      *)
AcceptRearmed ==
  accept # "pending" /\ proc = "running" ~>
    accept = "pending" \/ PoolExhausted \/ proc # "running"

-----------------------------------------------------------------------------
(* The connection promised by module Connection                            *)

ConnOf(s) ==
  CASE life[s] = "free" \/ new_session = s -> "none"
    [] life[s] = "deleted" -> "closed"
    [] op[s] \in {"reading", "readError"} -> "waiting"
    [] op[s] \in {"writing", "writeDone", "writeError"} -> "replying"
    [] OTHER -> "serving"

conn == [s \in Sessions |-> ConnOf(s)]

C == INSTANCE Connection

(* Every step of the server is a step of one connection or none.           *)
RefinesConnection == C!Spec

=============================================================================
