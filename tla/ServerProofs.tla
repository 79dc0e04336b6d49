---------------------------- MODULE ServerProofs ----------------------------
(* Safety of module Server for every number of threads, sessions, requests *)
(* and bounds.                                                             *)
EXTENDS Server, FiniteSetTheorems, TLAPS

-----------------------------------------------------------------------------
(* Types                                                                   *)

LEMMA TypeInit == Init => TypeOK
  BY NoneAssumption DEF Init, TypeOK, ProcessTypes, SocketTypes, ThreadTypes,
     CounterTypes, Reports, NoReport, NoSums, EmptyMap, IsCounter, PCs, InHandleRead,
     Loops, Ops, Codes

(* The parts of the type invariant that a step leaves alone.               *)
LEMMA TypeFrames ==
  /\ SocketTypes /\ UNCHANGED socketVars => SocketTypes'
  /\ ThreadTypes /\ UNCHANGED threadVars => ThreadTypes'
  /\ CounterTypes /\ UNCHANGED counterVars => CounterTypes'
  /\ ProcessTypes /\ UNCHANGED <<proc, acceptVars, mtx, sent, arrived>>
       => ProcessTypes'
  BY DEF SocketTypes, ThreadTypes, CounterTypes, ProcessTypes, IsCounter,
     socketVars, threadVars, counterVars, acceptVars

(* A thread that moves on inside handle_read and leaves the rest alone.    *)
LEMMA TypeMoves ==
  ASSUME ThreadTypes, NEW t \in Threads, NEW to \in PCs,
         pc' = [pc EXCEPT ![t] = to],
         to \in InHandleRead => pc[t] \in InHandleRead,
         UNCHANGED <<cur, req, sum>>,
         code' \in [Threads -> Codes],
         rep' \in [Threads -> Reports]
  PROVE  ThreadTypes'
  BY DEF ThreadTypes

(* Moving a report's iterator, and an insertion under it, keep its type.   *)
LEMMA MoveType == \A r \in Reports, k \in Int : Move(r, k) \in Reports
  BY DEF Move, Reports

LEMMA TearType ==
  ASSUME ThreadTypes, NEW loops
  PROVE  Tear(loops) \in [Threads -> Reports]
<1>1. \A r \in Reports : [r EXCEPT !.harm = "torn"] \in Reports
  BY DEF Reports
<1> QED
  BY <1>1 DEF Tear, ThreadTypes

(* Counting one more under a key keeps the type of a counter.              *)
LEMMA CountType ==
  ASSUME NEW map, NEW keys, NEW k, IsCounter(map, keys)
  PROVE  IsCounter([map EXCEPT ![k] = @ + 1], keys)
<1> DEFINE D == DOMAIN map
           new == [map EXCEPT ![k] = @ + 1]
<1>1. map \in [D -> Nat] /\ D \subseteq keys
  BY DEF IsCounter
<1> HIDE DEF D
<1>2. new = [j \in D |-> IF j = k THEN map[j] + 1 ELSE map[j]]
  BY <1>1
<1>3. \A j \in D : map[j] \in Nat
  BY <1>1
<1> HIDE DEF new
<1>4. DOMAIN new = D /\ new \in [D -> Nat]
  BY <1>2, <1>3
<1> QED
  BY <1>1, <1>4 DEF IsCounter, new

(* The program counters, one by one.                                       *)
LEMMA Labels ==
  /\ \A l \in {"create", "handle", "upstream", "lock", "url", "code", "write",
               "total", "urls", "codes"} : l \in InHandleRead
  /\ \A l \in {"idle", "remote_ip", "unlock"} : l \in PCs /\ l \notin InHandleRead
  /\ InHandleRead \subseteq PCs
  /\ Loops = {"total", "urls", "codes"}
  BY DEF PCs, InHandleRead, Loops

(* The steps of the process keep the types.                                *)
LEMMA TypeProcess ==
  ASSUME TypeOK, Process
  PROVE  TypeOK'
<1> USE TypeFrames DEF TypeOK
<1>1. CASE init
  BY <1>1 DEF init, Fresh, start_accept, ProcessTypes, SocketTypes, acceptVars
<1>2. CASE kill \/ main_returns \/ got_signal
  BY <1>2 DEF kill, main_returns, got_signal, ProcessTypes, acceptVars
<1> QED
  BY <1>1, <1>2 DEF Process

(* The steps of sockets, peers and upstream servers keep the types.        *)
LEMMA TypeEnvironment ==
  ASSUME TypeOK, Environment
  PROVE  TypeOK'
<1> USE TypeFrames DEF TypeOK
<1>1. CASE ClientConnects
  BY <1>1 DEF ClientConnects, SocketTypes, ProcessTypes
<1>2. CASE AcceptFails
  BY <1>2 DEF AcceptFails, ProcessTypes
<1>3. ASSUME NEW s \in Sessions, NEW r \in Requests, ReadCompletes(s, r)
      PROVE  TypeOK'
  BY <1>3 DEF ReadCompletes, SocketTypes, ProcessTypes, acceptVars, Ops
<1>4. ASSUME NEW s \in Sessions, ReadFails(s)
      PROVE  TypeOK'
  BY <1>4 DEF ReadFails, SocketTypes, Ops
<1>5. ASSUME NEW s \in Sessions, WriteFails(s)
      PROVE  TypeOK'
  BY <1>5 DEF WriteFails, SocketTypes, Ops
<1>6. ASSUME NEW s \in Sessions, PeerLeaves(s)
      PROVE  TypeOK'
  BY <1>6 DEF PeerLeaves, SocketTypes
<1>7. ASSUME NEW s \in Sessions, NEW t \in Threads, write_some(t, s)
      PROVE  TypeOK'
  BY <1>7 DEF write_some, SocketTypes, Ops
<1>8. ASSUME NEW t \in Threads, UpstreamAnswers(t)
      PROVE  TypeOK'
  <2>1. ThreadTypes'
    BY <1>8, TypeMoves, Labels DEF UpstreamAnswers, At, ThreadTypes, Codes
  <2> QED
    BY <1>8, <2>1 DEF UpstreamAnswers
<1> QED
  BY <1>1, <1>2, <1>3, <1>4, <1>5, <1>6, <1>7, <1>8 DEF Environment

(* The steps of a thread keep the types.                                   *)
LEMMA TypeThread ==
  ASSUME TypeOK, NEW t \in Threads, Thread(t)
  PROVE  TypeOK'
<1> USE TypeFrames DEF TypeOK
<1>1. CASE handle_accept(t)
  <2>1. SocketTypes'
    BY <1>1 DEF handle_accept, SocketTypes, Ops
  <2>2. ThreadTypes'
    BY <1>1, Labels DEF handle_accept, ThreadTypes, ProcessTypes
  <2>3. ProcessTypes'
    BY <1>1 DEF handle_accept, ProcessTypes
  <2> QED
    BY <1>1, <2>1, <2>2, <2>3 DEF handle_accept
<1>2. CASE handle_accept_error(t)
  BY <1>2 DEF handle_accept_error, start_accept, Fresh, SocketTypes,
     ProcessTypes
<1>3. CASE get_remote_ip(t)
  <2>1. SocketTypes' /\ ProcessTypes'
    BY <1>3 DEF get_remote_ip, start_accept, Fresh, SocketTypes, ProcessTypes
  <2>2. ThreadTypes'
    BY <1>3, Labels DEF get_remote_ip, ThreadTypes
  <2> QED
    BY <1>3, <2>1, <2>2 DEF get_remote_ip
<1>4. CASE get_remote_ip_throws(t) \/ torn_iterator_crashes(t)
  BY <1>4 DEF get_remote_ip_throws, torn_iterator_crashes, ProcessTypes,
     acceptVars
<1>5. CASE createByName(t) \/ getServerResponse(t)
  <2>1. ThreadTypes'
    BY <1>5, TypeMoves, Labels DEF createByName, getServerResponse, At,
       ThreadTypes
  <2> QED
    BY <1>5, <2>1 DEF createByName, getServerResponse
<1>6. CASE HandleRequest(t)
  <2>1. code' \in [Threads -> Codes]
    BY <1>6 DEF HandleRequest, HandlerCodes, echo_codes, health_codes,
       static_codes, meme_codes, bad_request_codes, Codes, ThreadTypes
  <2>2. ThreadTypes'
    BY <1>6, <2>1, TypeMoves, Labels DEF HandleRequest, At, ThreadTypes
  <2> QED
    BY <1>6, <2>2 DEF HandleRequest
<1>7. CASE start_report(t)
  <2>1. code' \in [Threads -> Codes]
    BY <1>7 DEF start_report, Codes, ThreadTypes
  <2>2. ThreadTypes'
    BY <1>7, <2>1, TypeMoves, Labels DEF start_report, At, NoReport,
       Reports, ThreadTypes, ProcessTypes
  <2> QED
    BY <1>7, <2>2 DEF start_report
<1>8. CASE end_loop(t)
  <2>1. AfterLoop[pc[t]] \in InHandleRead
    BY <1>8, Labels DEF end_loop, At, AfterLoop
  <2>2. rep' \in [Threads -> Reports]
    BY <1>8, MoveType DEF end_loop, ThreadTypes
  <2>3. pc[t] \in InHandleRead
    BY <1>8, Labels DEF end_loop, At
  <2>4. ThreadTypes'
    BY <1>8, <2>1, <2>2, <2>3, TypeMoves, Labels DEF end_loop, ThreadTypes
  <2> QED
    BY <1>8, <2>4 DEF end_loop
<1>9. ASSUME NEW k \in DOMAIN url_counter \cup DOMAIN code_counter, visit(t, k)
      PROVE  TypeOK'
  <2>1. k \in Int /\ Counter(pc[t])[k] \in Nat
    BY <1>9 DEF visit, Counter, CounterTypes, IsCounter, Codes
  <2>2. pc[t] \in Loops
    BY <1>9 DEF visit, At
  <2>3. sum' \in [Threads -> [Loops -> Nat]]
    BY <1>9, <2>1, <2>2 DEF visit, ThreadTypes
  <2>4. ThreadTypes'
    BY <1>9, <2>1, <2>3, MoveType DEF visit, ThreadTypes
  <2> QED
    BY <1>9, <2>4 DEF visit
<1>10. CASE lock_count(t)
  <2>1. pc[t] \in InHandleRead /\ req[t].path \in Nat
    BY <1>10, Labels, RequestAssumption DEF lock_count, At, ThreadTypes
  <2>2. CounterTypes'
    BY <1>10, <2>1 DEF lock_count, With, CounterTypes, IsCounter
  <2>3. ThreadTypes'
    BY <1>10, <2>1, TypeMoves, TearType, Labels DEF lock_count, ThreadTypes
  <2>4. ProcessTypes'
    BY <1>10 DEF lock_count, lock, ProcessTypes, acceptVars
  <2> QED
    BY <1>10, <2>2, <2>3, <2>4 DEF lock_count
<1>11. CASE count_url(t)
  <2>1. CounterTypes'
    BY <1>11, CountType DEF count_url, CounterTypes
  <2>2. ThreadTypes'
    BY <1>11, TypeMoves, Labels DEF count_url, At, ThreadTypes
  <2> QED
    BY <1>11, <2>1, <2>2 DEF count_url
<1>12. CASE insert_code(t)
  <2>1. CounterTypes'
    BY <1>12 DEF insert_code, With, CounterTypes, IsCounter, ThreadTypes
  <2>2. ThreadTypes'
    BY <1>12, TearType DEF insert_code, ThreadTypes
  <2> QED
    BY <1>12, <2>1, <2>2 DEF insert_code
<1>13. CASE count_code(t)
  <2>1. CounterTypes'
    BY <1>13, CountType DEF count_code, CounterTypes
  <2>2. ThreadTypes'
    BY <1>13, TypeMoves, Labels DEF count_code, At, ThreadTypes
  <2>3. ProcessTypes'
    BY <1>13 DEF count_code, ProcessTypes, acceptVars
  <2> QED
    BY <1>13, <2>1, <2>2, <2>3 DEF count_code
<1>14. CASE async_write(t)
  <2>1. ThreadTypes'
    BY <1>14, TypeMoves, Labels DEF async_write, ThreadTypes
  <2>2. left' \in [Sessions -> Nat] /\ wbuf' \in [Sessions -> {"none", "alive", "freed"}]
    BY <1>14, BoundAssumption DEF async_write, SocketTypes
  <2>3. SocketTypes'
    BY <1>14, <2>2 DEF async_write, SocketTypes, Ops
  <2>4. ProcessTypes'
    BY <1>14 DEF async_write, lock, ProcessTypes, acceptVars
  <2> QED
    BY <1>14, <2>1, <2>3, <2>4 DEF async_write
<1>15. CASE handle_read_returns(t)
  <2>1. SocketTypes'
    BY <1>15 DEF handle_read_returns, SocketTypes
  <2>2. ThreadTypes'
    BY <1>15, Labels DEF handle_read_returns, Reports, NoReport, NoSums,
       Codes, ThreadTypes
  <2>3. ProcessTypes'
    BY <1>15 DEF handle_read_returns, ProcessTypes, acceptVars
  <2> QED
    BY <1>15, <2>1, <2>2, <2>3 DEF handle_read_returns
<1>16. ASSUME NEW s \in Sessions, handle_read_error(t, s) \/ handle_write(t, s)
                                  \/ handle_write_error(t, s)
       PROVE  TypeOK'
  BY <1>16 DEF handle_read_error, handle_write, handle_write_error,
     SocketTypes, Ops
<1>17. ASSUME NEW s \in Sessions, handle_read(t, s)
       PROVE  TypeOK'
  <2>1. SocketTypes'
    BY <1>17 DEF handle_read, SocketTypes, Ops
  <2>2. req' \in [Threads -> Requests \cup {None}] /\ req'[t] \in Requests
    BY <1>17 DEF handle_read, SocketTypes, ThreadTypes
  <2>3. code' \in [Threads -> Codes]
    <3>1. code' = code \/ code' = [code EXCEPT ![t] = 400]
      BY <1>17 DEF handle_read
    <3> QED
      BY <3>1 DEF ThreadTypes, Codes
  <2>4. ThreadTypes'
    BY <1>17, <2>2, <2>3, Labels DEF handle_read, ThreadTypes
  <2> QED
    BY <1>17, <2>1, <2>4 DEF handle_read
<1> QED
  BY <1>1, <1>2, <1>3, <1>4, <1>5, <1>6, <1>7, <1>8, <1>9, <1>10, <1>11,
     <1>12, <1>13, <1>14, <1>15, <1>16, <1>17 DEF Thread

LEMMA TypeNext == TypeOK /\ [Next]_vars => TypeOK'
<1>1. TypeOK /\ UNCHANGED vars => TypeOK'
  BY TypeFrames DEF TypeOK, vars
<1> QED
  BY <1>1, TypeProcess, TypeEnvironment, TypeThread DEF Next

(* Every variable of the server keeps its type, and a handler that runs    *)
(* always has a request to work on.                                        *)
THEOREM TypeCorrect == Spec => []TypeOK
<1> QED
  BY TypeInit, TypeNext, PTL DEF Spec

-----------------------------------------------------------------------------
(* The inductive invariant                                                 *)

Holding == {"url", "code", "unlock"}

(* mtx is held exactly where handle_read is between lock and unlock.       *)
MutexInv == \A t \in Threads : pc[t] \in Holding <=> mtx = t

(* One async_accept, or one thread on its way to the next one.             *)
AcceptInv ==
  /\ accept = "none" <=> new_session = None
  /\ proc = "constructed" => accept = "none" /\ \A t \in Threads : pc[t] = "idle"
  /\ \A t \in Threads :
       pc[t] = "remote_ip" => /\ accept = "none"
                              /\ \A u \in Threads : pc[u] = "remote_ip" => u = t
  /\ proc \in {"running", "stopped"} /\ accept = "none" =>
       \E t \in Threads : pc[t] = "remote_ip"

(* A session is bound to the accept, or has an operation outstanding, or   *)
(* is in the hands of one thread, or is not alive: never two of these.     *)
SessionInv ==
  /\ \A t \in Threads : pc[t] # "idle" => cur[t] \in Sessions
  /\ OneHandlerPerSession
  /\ NoUseAfterDelete
  /\ NoLeak
  /\ \A s \in Sessions :
       new_session = s => op[s] = "none" /\ \A t \in Threads : ~Serves(t, s)

Inv == TypeOK /\ MutexInv /\ AcceptInv /\ SessionInv

LEMMA InvInit == Init => Inv
<1> SUFFICES ASSUME Init PROVE Inv
  OBVIOUS
<1>1. TypeOK
  BY TypeInit
<1>2. MutexInv
  BY NoneAssumption DEF Init, MutexInv, Holding
<1>3. AcceptInv
  BY DEF Init, AcceptInv
<1>4. SessionInv
  BY NoneAssumption, Labels DEF Init, SessionInv, OneHandlerPerSession,
     NoUseAfterDelete, NoLeak, Serves
<1> QED
  BY <1>1, <1>2, <1>3, <1>4 DEF Inv

(* Steps that concern no session.                                          *)
LEMMA SessionFrame ==
  ASSUME SessionInv, UNCHANGED <<new_session, life, op, pc, cur>>
  PROVE  SessionInv'
  BY DEF SessionInv, OneHandlerPerSession, NoUseAfterDelete, NoLeak, Serves

(* Steps of a thread that stays inside handle_read with its session.       *)
LEMMA SessionMoves ==
  ASSUME TypeOK, SessionInv, NEW t \in Threads, NEW to \in InHandleRead,
         pc[t] \in InHandleRead, pc' = [pc EXCEPT ![t] = to],
         UNCHANGED <<new_session, life, op, cur>>
  PROVE  SessionInv'
<1>1. \A u \in Threads, s \in Sessions : Serves(u, s)' <=> Serves(u, s)
  BY DEF Serves, TypeOK, ThreadTypes
<1>2. \A u \in Threads : /\ pc'[u] # "idle" => pc[u] # "idle"
                         /\ pc'[u] \in InHandleRead => pc[u] \in InHandleRead
  BY Labels DEF TypeOK, ThreadTypes
<1> QED
  BY <1>1, <1>2 DEF SessionInv, OneHandlerPerSession, NoUseAfterDelete, NoLeak

(* Progress of an operation that stays outstanding.                        *)
LEMMA SessionOps ==
  ASSUME TypeOK, SessionInv, NEW s \in Sessions, NEW o,
         op[s] # "none", o # "none", op' = [op EXCEPT ![s] = o],
         UNCHANGED <<new_session, life, pc, cur>>
  PROVE  SessionInv'
  BY DEF SessionInv, OneHandlerPerSession, NoUseAfterDelete, NoLeak, Serves,
     TypeOK, SocketTypes

(* delete this, in the handler of the only operation outstanding.          *)
LEMMA SessionDelete ==
  ASSUME TypeOK, SessionInv, NEW s \in Sessions, op[s] # "none",
         op' = [op EXCEPT ![s] = "none"],
         life' = [life EXCEPT ![s] = "deleted"],
         UNCHANGED <<new_session, pc, cur>>
  PROVE  SessionInv'
<1>1. new_session # s /\ \A t \in Threads : ~Serves(t, s)
  BY DEF SessionInv, OneHandlerPerSession
<1>2. \A t \in Threads : pc[t] \in InHandleRead => cur[t] \in Sessions \ {s}
  BY <1>1, Labels DEF SessionInv, Serves
<1> QED
  BY <1>1, <1>2 DEF SessionInv, OneHandlerPerSession, NoUseAfterDelete,
     NoLeak, Serves, TypeOK, SocketTypes

(* A new session is bound to the accept.                                   *)
LEMMA SessionBind ==
  ASSUME TypeOK, SessionInv, NEW s \in Fresh, new_session = None,
         start_accept(s, life), UNCHANGED <<op, pc, cur>>
  PROVE  SessionInv'
<1>1. s \in Sessions /\ life[s] = "free"
  BY DEF Fresh
<1>2. op[s] = "none" /\ \A t \in Threads : ~Serves(t, s)
  BY <1>1 DEF SessionInv, NoUseAfterDelete, Serves
<1>3. life' = [life EXCEPT ![s] = "alive"] /\ new_session' = s
  BY DEF start_accept
<1> QED
  BY <1>1, <1>2, <1>3, NoneAssumption DEF SessionInv, OneHandlerPerSession,
     NoUseAfterDelete, NoLeak, Serves, TypeOK, SocketTypes

LEMMA SessionProcess ==
  ASSUME Inv, Process
  PROVE  SessionInv'
<1> USE DEF Inv
<1>1. CASE init
  <2>1. new_session = None
    BY <1>1 DEF init, AcceptInv
  <2>2. UNCHANGED <<op, pc, cur>>
    BY <1>1 DEF init, threadVars
  <2>3. ASSUME NEW s \in Fresh, start_accept(s, life)
        PROVE  SessionInv'
    BY <2>1, <2>2, <2>3, SessionBind
  <2>4. CASE UNCHANGED <<life, acceptVars>>
    BY <2>2, <2>4, SessionFrame DEF acceptVars
  <2> QED
    BY <1>1, <2>3, <2>4 DEF init
<1>2. CASE kill \/ main_returns \/ got_signal
  BY <1>2, SessionFrame DEF kill, main_returns, got_signal, acceptVars,
     socketVars, threadVars
<1> QED
  BY <1>1, <1>2 DEF Process

LEMMA SessionEnvironment ==
  ASSUME Inv, Environment
  PROVE  SessionInv'
<1> USE DEF Inv, acceptVars, socketVars, threadVars
<1>1. CASE ClientConnects \/ AcceptFails
  BY <1>1, SessionFrame DEF ClientConnects, AcceptFails
<1>2. ASSUME NEW s \in Sessions, NEW r \in Requests, ReadCompletes(s, r)
      PROVE  SessionInv'
  BY <1>2, SessionOps DEF ReadCompletes
<1>3. ASSUME NEW s \in Sessions, ReadFails(s) \/ WriteFails(s)
      PROVE  SessionInv'
  BY <1>3, SessionOps DEF ReadFails, WriteFails
<1>4. ASSUME NEW s \in Sessions, PeerLeaves(s)
      PROVE  SessionInv'
  BY <1>4, SessionFrame DEF PeerLeaves
<1>5. ASSUME NEW s \in Sessions, NEW t \in Threads, write_some(t, s)
      PROVE  SessionInv'
  <2>1. CASE UNCHANGED op
    BY <1>5, <2>1, SessionFrame DEF write_some
  <2>2. CASE op' = [op EXCEPT ![s] = "writeDone"]
    BY <1>5, <2>2, SessionOps DEF write_some
  <2> QED
    BY <1>5, <2>1, <2>2 DEF write_some
<1>6. ASSUME NEW t \in Threads, UpstreamAnswers(t)
      PROVE  SessionInv'
  BY <1>6, SessionMoves, Labels DEF UpstreamAnswers, At
<1> QED
  BY <1>1, <1>2, <1>3, <1>4, <1>5, <1>6 DEF Environment

(* The handlers of server.cc.                                              *)
LEMMA SessionAccept ==
  ASSUME Inv, NEW t \in Threads,
         handle_accept(t) \/ handle_accept_error(t) \/ get_remote_ip(t)
  PROVE  SessionInv'
<1> USE DEF Inv
<1>1. CASE handle_accept(t)
  <2>1. new_session \in Sessions
    BY <1>1 DEF handle_accept, AcceptInv, TypeOK, ProcessTypes
  <2>2. \A u \in Threads, s \in Sessions : Serves(u, s)' <=> Serves(u, s)
    BY <1>1, Labels DEF handle_accept, Idle, Serves, TypeOK, ThreadTypes
  <2>3. \A u \in Threads : pc'[u] \in InHandleRead =>
          pc[u] \in InHandleRead /\ cur'[u] = cur[u]
    BY <1>1, Labels DEF handle_accept, TypeOK, ThreadTypes
  <2>4. \A u \in Threads : pc'[u] # "idle" => cur'[u] \in Sessions
    BY <1>1, <2>1 DEF handle_accept, SessionInv, TypeOK, ThreadTypes
  <2>5. /\ op' = [op EXCEPT ![new_session] = "reading"]
        /\ life' = life /\ new_session' = None
    BY <1>1 DEF handle_accept
  <2> QED
    BY <2>1, <2>2, <2>3, <2>4, <2>5, NoneAssumption DEF SessionInv,
       OneHandlerPerSession, NoUseAfterDelete, NoLeak, TypeOK, SocketTypes
<1>2. CASE handle_accept_error(t)
  <2>1. PICK s \in Fresh : start_accept(s, [life EXCEPT ![new_session] = "deleted"])
    BY <1>2 DEF handle_accept_error
  <2>2. new_session \in Sessions
    BY <1>2 DEF handle_accept_error, AcceptInv, TypeOK, ProcessTypes
  <2>3. s \in Sessions /\ life[s] = "free" /\ s # new_session
    BY <2>2 DEF Fresh, SessionInv, NoUseAfterDelete
  <2>4. /\ life' = [[life EXCEPT ![new_session] = "deleted"] EXCEPT ![s] = "alive"]
        /\ new_session' = s
        /\ UNCHANGED <<op, pc, cur>>
    BY <1>2, <2>1 DEF handle_accept_error, start_accept, threadVars
  <2>5. op[s] = "none" /\ \A u \in Threads : ~Serves(u, s)
    BY <2>3 DEF SessionInv, NoUseAfterDelete, Serves
  <2>6. op[new_session] = "none" /\ \A u \in Threads : ~Serves(u, new_session)
    BY <2>2 DEF SessionInv
  <2>7. /\ life'[s] = "alive" /\ life'[new_session] = "deleted"
        /\ \A r \in Sessions \ {s, new_session} : life'[r] = life[r]
    BY <2>2, <2>3, <2>4 DEF TypeOK, SocketTypes
  <2>8. \A u \in Threads, r \in Sessions : Serves(u, r)' <=> Serves(u, r)
    BY <2>4 DEF Serves
  <2>9. \A u \in Threads :
          pc[u] \in InHandleRead => cur[u] \in Sessions \ {s, new_session}
    BY <2>5, <2>6, Labels DEF SessionInv, Serves
  <2>10. NoUseAfterDelete'
    BY <2>2, <2>3, <2>4, <2>5, <2>6, <2>7, <2>9, ZenonT(30) DEF SessionInv,
       NoUseAfterDelete
  <2>11. NoLeak'
    BY <2>2, <2>3, <2>4, <2>7, <2>8 DEF SessionInv, NoLeak
  <2> QED
    BY <2>3, <2>4, <2>5, <2>8, <2>10, <2>11 DEF SessionInv,
       OneHandlerPerSession
<1>3. CASE get_remote_ip(t)
  <2>1. new_session = None
    BY <1>3 DEF get_remote_ip, At, AcceptInv
  <2>2. PICK s \in Fresh : start_accept(s, life)
    BY <1>3 DEF get_remote_ip
  <2>3. s \in Sessions /\ life[s] = "free"
    BY DEF Fresh
  <2>4. \A u \in Threads, r \in Sessions : Serves(u, r)' <=> Serves(u, r)
    BY <1>3, Labels DEF get_remote_ip, At, Serves, TypeOK, ThreadTypes
  <2>5. \A u \in Threads :
          /\ pc'[u] # "idle" => pc[u] # "idle" /\ cur'[u] = cur[u]
          /\ pc'[u] \in InHandleRead => pc[u] \in InHandleRead
    BY <1>3, Labels DEF get_remote_ip, TypeOK, ThreadTypes
  <2>6. op[s] = "none" /\ \A u \in Threads : ~Serves(u, s)
    BY <2>3 DEF SessionInv, NoUseAfterDelete, Serves
  <2>7. /\ life' = [life EXCEPT ![s] = "alive"] /\ new_session' = s
        /\ UNCHANGED op
    BY <1>3, <2>2 DEF get_remote_ip, start_accept
  <2> QED
    BY <2>1, <2>3, <2>4, <2>5, <2>6, <2>7, NoneAssumption, Labels
    DEF SessionInv, OneHandlerPerSession, NoUseAfterDelete, NoLeak, TypeOK,
        SocketTypes
<1> QED
  BY <1>1, <1>2, <1>3

(* The handlers of session.cc.                                             *)
LEMMA SessionHandlers ==
  ASSUME Inv, NEW t \in Threads, NEW s \in Sessions,
         \/ handle_read_error(t, s) \/ handle_read(t, s)
         \/ handle_write(t, s) \/ handle_write_error(t, s)
  PROVE  SessionInv'
<1> USE DEF Inv, acceptVars, threadVars
<1>1. CASE handle_read_error(t, s) \/ handle_write_error(t, s)
  BY <1>1, SessionDelete DEF handle_read_error, handle_write_error
<1>2. CASE handle_write(t, s)
  BY <1>2, SessionOps DEF handle_write
<1>3. CASE handle_read(t, s)
  <2>1. op[s] = "readDone" /\ pc[t] = "idle"
    BY <1>3 DEF handle_read, Idle
  <2>2. new_session # s /\ life[s] = "alive" /\ \A u \in Threads : ~Serves(u, s)
    BY <2>1 DEF SessionInv, OneHandlerPerSession, NoUseAfterDelete
  <2>3. /\ op' = [op EXCEPT ![s] = "none"]
        /\ cur' = [cur EXCEPT ![t] = s]
        /\ UNCHANGED <<new_session, life>>
    BY <1>3 DEF handle_read
  <2>4. \E to \in InHandleRead : pc' = [pc EXCEPT ![t] = to]
    BY <1>3, Labels DEF handle_read
  <2>5. \A u \in Threads, r \in Sessions :
          Serves(u, r)' <=> (IF u = t THEN r = s ELSE Serves(u, r))
    BY <2>3, <2>4 DEF Serves, TypeOK, ThreadTypes
  <2>6. \A u \in Threads : u # t => pc'[u] = pc[u] /\ cur'[u] = cur[u]
    BY <2>3, <2>4 DEF TypeOK, ThreadTypes
  <2>7. cur'[t] = s
    BY <2>3 DEF TypeOK, ThreadTypes
  <2>8. ~Serves(t, s) /\ \A r \in Sessions : ~Serves(t, r)
    BY <2>1, Labels DEF Serves
  <2> QED
    BY <2>1, <2>2, <2>3, <2>5, <2>6, <2>7, <2>8 DEF SessionInv,
       OneHandlerPerSession, NoUseAfterDelete, NoLeak, TypeOK, SocketTypes
<1> QED
  BY <1>1, <1>2, <1>3

(* handle_read from createByName to its return.                            *)
LEMMA SessionServing ==
  ASSUME Inv, NEW t \in Threads,
         \/ createByName(t) \/ HandleRequest(t) \/ getServerResponse(t)
         \/ start_report(t) \/ end_loop(t)
         \/ \E k \in DOMAIN url_counter \cup DOMAIN code_counter : visit(t, k)
         \/ lock_count(t) \/ count_url(t) \/ insert_code(t) \/ count_code(t)
         \/ async_write(t) \/ handle_read_returns(t)
  PROVE  SessionInv'
<1> USE DEF Inv, acceptVars, socketVars
<1>1. CASE createByName(t) \/ HandleRequest(t) \/ getServerResponse(t)
           \/ start_report(t)
  BY <1>1, SessionMoves, Labels DEF createByName, HandleRequest,
     getServerResponse, start_report, At
<1>2. CASE end_loop(t)
  <2>1. AfterLoop[pc[t]] \in InHandleRead /\ pc[t] \in InHandleRead
    BY <1>2, Labels DEF end_loop, At, AfterLoop
  <2> QED
    BY <1>2, <2>1, SessionMoves DEF end_loop
<1>3. ASSUME NEW k \in DOMAIN url_counter \cup DOMAIN code_counter, visit(t, k)
      PROVE  SessionInv'
  BY <1>3, SessionFrame DEF visit
<1>4. CASE lock_count(t) \/ count_url(t) \/ count_code(t)
  BY <1>4, SessionMoves, Labels DEF lock_count, count_url, count_code, At
<1>5. CASE insert_code(t)
  BY <1>5, SessionFrame DEF insert_code
<1>6. CASE async_write(t)
  <2>1. pc[t] \in InHandleRead /\ cur[t] \in Sessions
    BY <1>6, Labels DEF async_write, At, SessionInv
  <2>2. \E o \in Ops \ {"none"} : op' = [op EXCEPT ![cur[t]] = o]
    BY <1>6 DEF async_write, Ops
  <2>3. pc' = [pc EXCEPT ![t] = "unlock"] /\ UNCHANGED <<new_session, life, cur>>
    BY <1>6 DEF async_write
  <2>4. \A u \in Threads, r \in Sessions :
          Serves(u, r)' <=> (u # t /\ Serves(u, r))
    BY <2>3, Labels DEF Serves, TypeOK, ThreadTypes
  <2>5. \A u \in Threads :
          /\ pc'[u] # "idle" => pc[u] # "idle"
          /\ pc'[u] \in InHandleRead => pc[u] \in InHandleRead
    BY <2>1, <2>3, Labels DEF TypeOK, ThreadTypes
  <2>6. Serves(t, cur[t]) /\ \A r \in Sessions : Serves(t, r) => r = cur[t]
    BY <2>1 DEF Serves
  <2>7. /\ op'[cur[t]] # "none"
        /\ \A r \in Sessions : r # cur[t] => op'[r] = op[r]
    BY <2>1, <2>2 DEF TypeOK, SocketTypes
  <2>8. life[cur[t]] = "alive" /\ new_session # cur[t]
    BY <2>1, <2>6 DEF SessionInv, NoUseAfterDelete
  <2> QED
    BY <2>1, <2>3, <2>4, <2>5, <2>6, <2>7, <2>8 DEF SessionInv,
       OneHandlerPerSession, NoUseAfterDelete, NoLeak
<1>7. CASE handle_read_returns(t)
  <2>1. \A u \in Threads, r \in Sessions : Serves(u, r)' <=> Serves(u, r)
    BY <1>7, Labels DEF handle_read_returns, At, Serves, TypeOK, ThreadTypes
  <2>2. \A u \in Threads :
          /\ pc'[u] # "idle" => pc[u] # "idle" /\ cur'[u] = cur[u]
          /\ pc'[u] \in InHandleRead => pc[u] \in InHandleRead
    BY <1>7, Labels DEF handle_read_returns, TypeOK, ThreadTypes
  <2>3. UNCHANGED <<new_session, life, op>>
    BY <1>7 DEF handle_read_returns
  <2> QED
    BY <2>1, <2>2, <2>3, Labels DEF SessionInv, OneHandlerPerSession,
       NoUseAfterDelete, NoLeak
<1> QED
  BY <1>1, <1>2, <1>3, <1>4, <1>5, <1>6, <1>7

LEMMA SessionNext == Inv /\ [Next]_vars => SessionInv'
<1>1. Inv /\ UNCHANGED vars => SessionInv'
  BY SessionFrame DEF Inv, vars, acceptVars, socketVars, threadVars
<1>2. ASSUME Inv, NEW t \in Threads,
             get_remote_ip_throws(t) \/ torn_iterator_crashes(t)
      PROVE  SessionInv'
  BY <1>2, SessionFrame DEF Inv, get_remote_ip_throws, torn_iterator_crashes,
     acceptVars, socketVars, threadVars
<1> QED
  BY <1>1, <1>2, SessionProcess, SessionEnvironment, SessionAccept,
     SessionHandlers, SessionServing DEF Next, Thread

-----------------------------------------------------------------------------
(* The mutex and the accept chain                                          *)

LEMMA MutexNext == TypeOK /\ MutexInv /\ [Next]_vars => MutexInv'
<1> SUFFICES ASSUME TypeOK, MutexInv, [Next]_vars PROVE MutexInv'
  OBVIOUS
<1> USE NoneAssumption DEF TypeOK, ThreadTypes, MutexInv, Holding
<1>1. ASSUME UNCHANGED <<pc, mtx>> PROVE MutexInv'
  BY <1>1
<1>2. CASE Process \/ UNCHANGED vars
  BY <1>1, <1>2 DEF Process, init, kill, main_returns, got_signal, vars,
     threadVars
<1>3. CASE Environment
  <2>1. ASSUME NEW t \in Threads, UpstreamAnswers(t)
        PROVE  MutexInv'
    BY <2>1 DEF UpstreamAnswers, At
  <2> QED
    BY <1>1, <1>3, <2>1 DEF Environment, ClientConnects, AcceptFails,
       ReadCompletes, ReadFails, WriteFails, PeerLeaves, write_some, threadVars
<1>4. ASSUME NEW t \in Threads, Thread(t)
      PROVE  MutexInv'
  <2>1. CASE handle_accept(t) \/ get_remote_ip(t) \/ createByName(t)
             \/ HandleRequest(t) \/ getServerResponse(t) \/ start_report(t)
    BY <2>1 DEF handle_accept, get_remote_ip, createByName, HandleRequest,
       getServerResponse, start_report, Idle, At
  <2>2. CASE end_loop(t)
    BY <2>2, Labels DEF end_loop, AfterLoop, At
  <2>3. CASE lock_count(t) \/ count_url(t) \/ count_code(t) \/ async_write(t)
             \/ handle_read_returns(t)
    BY <2>3 DEF lock_count, lock, count_url, count_code, async_write,
       handle_read_returns, At
  <2>4. ASSUME NEW s \in Sessions, handle_read(t, s)
        PROVE  MutexInv'
    BY <2>4 DEF handle_read, Idle
  <2>5. CASE handle_accept_error(t) \/ get_remote_ip_throws(t)
             \/ torn_iterator_crashes(t) \/ insert_code(t)
    BY <1>1, <2>5 DEF handle_accept_error, get_remote_ip_throws,
       torn_iterator_crashes, insert_code, threadVars
  <2>6. ASSUME NEW k, visit(t, k)
        PROVE  MutexInv'
    BY <1>1, <2>6 DEF visit
  <2>7. ASSUME NEW s \in Sessions, handle_read_error(t, s)
                 \/ handle_write(t, s) \/ handle_write_error(t, s)
        PROVE  MutexInv'
    BY <1>1, <2>7 DEF handle_read_error, handle_write, handle_write_error,
       threadVars
  <2> HIDE DEF TypeOK, ThreadTypes, MutexInv, Holding
  <2> QED
    BY <1>4, <2>1, <2>2, <2>3, <2>4, <2>5, <2>6, <2>7 DEF Thread
<1> QED
  BY <1>2, <1>3, <1>4 DEF Next

(* Steps that neither reach nor leave the second half of handle_accept.    *)
LEMMA AcceptFrame ==
  ASSUME TypeOK, AcceptInv,
         \A u \in Threads : pc'[u] = "remote_ip" <=> pc[u] = "remote_ip",
         proc' = "constructed" => proc = "constructed" /\ UNCHANGED pc,
         proc' \in {"running", "stopped"} => proc \in {"running", "stopped"},
         accept' = "none" <=> accept = "none", UNCHANGED new_session
  PROVE  AcceptInv'
  BY DEF AcceptInv

LEMMA AcceptNext == TypeOK /\ AcceptInv /\ [Next]_vars => AcceptInv'
<1> SUFFICES ASSUME TypeOK, AcceptInv, [Next]_vars PROVE AcceptInv'
  OBVIOUS
<1>1. ASSUME UNCHANGED <<acceptVars, pc, proc>> PROVE AcceptInv'
  BY <1>1, AcceptFrame DEF acceptVars
<1>2. CASE Process
  <2>1. CASE init
    BY <2>1, NoneAssumption DEF init, start_accept, Fresh, AcceptInv,
       acceptVars, threadVars
  <2>2. CASE kill \/ main_returns \/ got_signal
    BY <2>2, AcceptFrame DEF kill, main_returns, got_signal, acceptVars,
       threadVars
  <2> QED
    BY <1>2, <2>1, <2>2 DEF Process
<1>3. CASE Environment
  <2>1. CASE ClientConnects \/ AcceptFails
    BY <2>1, AcceptFrame DEF ClientConnects, AcceptFails, threadVars
  <2>2. ASSUME NEW t \in Threads, UpstreamAnswers(t)
        PROVE  AcceptInv'
    BY <2>2, AcceptFrame DEF UpstreamAnswers, At, acceptVars, TypeOK,
       ThreadTypes
  <2> QED
    BY <1>1, <1>3, <2>1, <2>2 DEF Environment, ReadCompletes, ReadFails,
       WriteFails, PeerLeaves, write_some, threadVars
<1>4. ASSUME NEW t \in Threads, Thread(t)
      PROVE  AcceptInv'
  <2>1. CASE handle_accept(t)
    BY <2>1 DEF handle_accept, Idle, AcceptInv, TypeOK, ThreadTypes
  <2>2. CASE handle_accept_error(t)
    BY <2>2, NoneAssumption DEF handle_accept_error, start_accept, Fresh,
       Idle, AcceptInv, threadVars
  <2>3. CASE get_remote_ip(t)
    BY <2>3, NoneAssumption DEF get_remote_ip, start_accept, Fresh, At,
       AcceptInv, TypeOK, ThreadTypes
  <2>4. CASE get_remote_ip_throws(t) \/ torn_iterator_crashes(t)
    BY <2>4, AcceptFrame DEF get_remote_ip_throws, torn_iterator_crashes,
       acceptVars, threadVars
  <2>5. CASE createByName(t) \/ HandleRequest(t) \/ getServerResponse(t)
             \/ start_report(t) \/ lock_count(t) \/ count_url(t)
             \/ count_code(t) \/ async_write(t) \/ handle_read_returns(t)
    BY <2>5, AcceptFrame DEF createByName, HandleRequest, getServerResponse,
       start_report, lock_count, count_url, count_code, async_write,
       handle_read_returns, At, acceptVars, TypeOK, ThreadTypes
  <2>6. CASE end_loop(t)
    BY <2>6, AcceptFrame, Labels DEF end_loop, AfterLoop, At, acceptVars,
       TypeOK, ThreadTypes
  <2>7. ASSUME NEW s \in Sessions, handle_read(t, s)
        PROVE  AcceptInv'
    BY <2>7, AcceptFrame DEF handle_read, Idle, acceptVars, TypeOK,
       ThreadTypes
  <2>8. ASSUME NEW k, insert_code(t) \/ visit(t, k)
        PROVE  AcceptInv'
    BY <1>1, <2>8 DEF insert_code, visit
  <2>9. ASSUME NEW s \in Sessions, handle_read_error(t, s)
                 \/ handle_write(t, s) \/ handle_write_error(t, s)
        PROVE  AcceptInv'
    BY <1>1, <2>9 DEF handle_read_error, handle_write, handle_write_error,
       threadVars
  <2> QED
    BY <1>4, <2>1, <2>2, <2>3, <2>4, <2>5, <2>6, <2>7, <2>8, <2>9 DEF Thread
<1>5. CASE UNCHANGED vars
  BY <1>1, <1>5 DEF vars, threadVars
<1> QED
  BY <1>2, <1>3, <1>4, <1>5 DEF Next

LEMMA Invariance == Spec => []Inv
<1>1. Inv /\ [Next]_vars => Inv'
  BY TypeNext, MutexNext, AcceptNext, SessionNext DEF Inv
<1> QED
  BY <1>1, InvInit, PTL DEF Spec

-----------------------------------------------------------------------------
(* What follows from the invariant                                         *)

(* At most one thread updates the counters or starts a write.              *)
THEOREM MutexSafe == Spec => []MutualExclusion
<1>1. Inv => MutualExclusion
  BY DEF Inv, MutexInv, Holding, MutualExclusion
<1> QED
  BY <1>1, Invariance, PTL

(* While a thread serves a session nothing else can run on that session.   *)
THEOREM SessionExclusive == Spec => []OneHandlerPerSession
<1>1. Inv => OneHandlerPerSession
  BY DEF Inv, SessionInv
<1> QED
  BY <1>1, Invariance, PTL

(* No handler of session.cc runs on a deleted session.                     *)
THEOREM SessionLifetime == Spec => []NoUseAfterDelete
<1>1. Inv => NoUseAfterDelete
  BY DEF Inv, SessionInv
<1> QED
  BY <1>1, Invariance, PTL

(* No session is lost: whatever its last operation did, a session that was *)
(* not deleted is still in the hands of an operation or of a thread.       *)
THEOREM NoSessionLost == Spec => []NoLeak
<1>1. Inv => NoLeak
  BY DEF Inv, SessionInv
<1> QED
  BY <1>1, Invariance, PTL

(* The accept chain neither breaks nor forks.                              *)
THEOREM AcceptChainKept == Spec => []AcceptChain
<1>1. Inv => AcceptChain
  <2> SUFFICES ASSUME Inv, proc = "running"
               PROVE  Cardinality({t \in Threads : pc[t] = "remote_ip"})
                        = IF accept = "none" THEN 1 ELSE 0
    BY DEF AcceptChain
  <2>1. CASE accept = "none"
    <3>1. PICK t \in Threads : pc[t] = "remote_ip"
      BY <2>1 DEF Inv, AcceptInv
    <3>2. {u \in Threads : pc[u] = "remote_ip"} = {t}
      BY <3>1 DEF Inv, AcceptInv
    <3> QED
      BY <2>1, <3>2, FS_Singleton
  <2>2. CASE accept # "none"
    <3>1. {u \in Threads : pc[u] = "remote_ip"} = {}
      BY <2>2 DEF Inv, AcceptInv
    <3> QED
      BY <2>2, <3>1, FS_EmptySet
  <2> QED
    BY <2>1, <2>2
<1> QED
  BY <1>1, Invariance, PTL

-----------------------------------------------------------------------------
(* The server implements Connection                                        *)

LEMMA ConnFrame ==
  ASSUME UNCHANGED <<life, new_session, op>>
  PROVE  UNCHANGED conn
  BY DEF conn, ConnOf

(* A step that moves one connection and no other.                          *)
LEMMA ConnMove ==
  ASSUME NEW s \in Sessions, NEW to, ConnOf(s)' = to,
         \A r \in Sessions \ {s} : ConnOf(r)' = ConnOf(r)
  PROVE  conn' = [conn EXCEPT ![s] = to]
  BY DEF conn

LEMMA ConnStays ==
  ASSUME \A r \in Sessions : ConnOf(r)' = ConnOf(r)
  PROVE  UNCHANGED conn
  BY DEF conn

LEMMA ConnInit == Init => C!Init
  BY DEF Init, C!Init, conn, ConnOf

(* Operations of a session that is not bound to the accept.                *)
LEMMA ConnOperation ==
  ASSUME Inv, NEW s \in Sessions, NEW o \in Ops, op[s] # "none",
         op' = [op EXCEPT ![s] = o], UNCHANGED <<life, new_session>>
  PROVE  /\ o = "readDone" /\ op[s] = "reading" => C!Receive(s)
         /\ o = "reading" /\ op[s] = "writeDone" => C!Resume(s)
         /\ o = "readError" /\ op[s] = "reading" => UNCHANGED conn
         /\ o \in {"writeDone", "writeError"} /\ op[s] = "writing" => UNCHANGED conn
<1>1. life[s] = "alive" /\ new_session # s
  BY DEF Inv, SessionInv, NoUseAfterDelete
<1>2. op'[s] = o /\ \A r \in Sessions \ {s} : op'[r] = op[r]
  BY DEF Inv, TypeOK, SocketTypes
<1>3. \A r \in Sessions \ {s} : ConnOf(r)' = ConnOf(r)
  BY <1>2 DEF ConnOf
<1>4. conn[s] = ConnOf(s)
  BY DEF conn
<1>5. o = "readDone" /\ op[s] = "reading" => C!Receive(s)
  BY <1>1, <1>2, <1>3, <1>4, ConnMove DEF C!Receive, C!Move, ConnOf
<1>6. o = "reading" /\ op[s] = "writeDone" => C!Resume(s)
  BY <1>1, <1>2, <1>3, <1>4, ConnMove DEF C!Resume, C!Move, ConnOf
<1>7. o = "readError" /\ op[s] = "reading" => UNCHANGED conn
  BY <1>1, <1>2, <1>3, ConnStays DEF ConnOf
<1>8. o \in {"writeDone", "writeError"} /\ op[s] = "writing" => UNCHANGED conn
  BY <1>1, <1>2, <1>3, ConnStays DEF ConnOf
<1> QED
  BY <1>5, <1>6, <1>7, <1>8

LEMMA ConnEnvironment ==
  ASSUME Inv, Environment
  PROVE  [C!Next]_conn
<1> USE DEF acceptVars, socketVars
<1>1. CASE ClientConnects \/ AcceptFails
  BY <1>1, ConnFrame DEF ClientConnects, AcceptFails
<1>2. ASSUME NEW s \in Sessions, NEW r \in Requests, ReadCompletes(s, r)
      PROVE  [C!Next]_conn
  BY <1>2, ConnOperation DEF ReadCompletes, C!Next, Ops
<1>3. ASSUME NEW s \in Sessions, ReadFails(s) \/ WriteFails(s)
      PROVE  UNCHANGED conn
  BY <1>3, ConnOperation DEF ReadFails, WriteFails, Ops
<1>4. ASSUME NEW s \in Sessions, PeerLeaves(s)
      PROVE  UNCHANGED conn
  BY <1>4, ConnFrame DEF PeerLeaves
<1>5. ASSUME NEW s \in Sessions, NEW t \in Threads, write_some(t, s)
      PROVE  UNCHANGED conn
  <2>1. CASE UNCHANGED op
    BY <1>5, <2>1, ConnFrame DEF write_some
  <2>2. CASE op' = [op EXCEPT ![s] = "writeDone"]
    BY <1>5, <2>2, ConnOperation DEF write_some, Ops
  <2> QED
    BY <1>5, <2>1, <2>2 DEF write_some
<1>6. ASSUME NEW t \in Threads, UpstreamAnswers(t)
      PROVE  UNCHANGED conn
  BY <1>6, ConnFrame DEF UpstreamAnswers
<1> QED
  BY <1>1, <1>2, <1>3, <1>4, <1>5, <1>6 DEF Environment

(* start_accept takes a session that never was a connection.               *)
LEMMA ConnBind ==
  ASSUME Inv, NEW s \in Fresh, start_accept(s, life), new_session = None,
         UNCHANGED op
  PROVE  UNCHANGED conn
<1>1. s \in Sessions /\ life[s] = "free" /\ new_session' = s
  BY DEF Fresh, start_accept
<1>2. \A r \in Sessions \ {s} : life'[r] = life[r]
  BY <1>1 DEF start_accept, Inv, TypeOK, SocketTypes
<1>3. life'[s] = "alive" /\ op[s] = "none"
  BY <1>1 DEF start_accept, Inv, TypeOK, SocketTypes, SessionInv,
     NoUseAfterDelete
<1>4. ConnOf(s) = "none" /\ ConnOf(s)' = "none"
  BY <1>1, <1>3 DEF ConnOf
<1>5. \A r \in Sessions \ {s} : ConnOf(r)' = ConnOf(r)
  BY <1>1, <1>2, NoneAssumption DEF ConnOf
<1> QED
  BY <1>4, <1>5, ConnStays

LEMMA ConnAccept ==
  ASSUME Inv, NEW t \in Threads,
         handle_accept(t) \/ handle_accept_error(t) \/ get_remote_ip(t)
  PROVE  [C!Next]_conn
<1> USE DEF Inv
<1>1. CASE handle_accept(t)
  <2>1. /\ new_session \in Sessions /\ life[new_session] = "alive"
        /\ op[new_session] = "none"
    BY <1>1 DEF handle_accept, AcceptInv, TypeOK, ProcessTypes, SessionInv,
       NoUseAfterDelete
  <2>2. op'[new_session] = "reading" /\ life' = life /\ new_session' = None
    BY <1>1, <2>1 DEF handle_accept, TypeOK, SocketTypes
  <2>3. \A r \in Sessions \ {new_session} : op'[r] = op[r]
    BY <1>1, <2>1 DEF handle_accept, TypeOK, SocketTypes
  <2>4. ConnOf(new_session) = "none" /\ conn[new_session] = "none"
    BY <2>1 DEF conn, ConnOf
  <2>5. \A r \in Sessions \ {new_session} : ConnOf(r)' = ConnOf(r)
    BY <2>2, <2>3, NoneAssumption DEF ConnOf
  <2>6. PICK n \in Sessions : n = new_session
    BY <2>1
  <2>7. ConnOf(n)' = "waiting"
    BY <2>1, <2>2, <2>6, NoneAssumption DEF ConnOf
  <2>8. conn' = [conn EXCEPT ![n] = "waiting"]
    BY <2>5, <2>6, <2>7, ConnMove
  <2> QED
    BY <2>4, <2>6, <2>8 DEF C!Next, C!Accept, C!Move
<1>2. CASE handle_accept_error(t)
  <2>1. PICK s \in Fresh : start_accept(s, [life EXCEPT ![new_session] = "deleted"])
    BY <1>2 DEF handle_accept_error
  <2>2. PICK n \in Sessions : n = new_session
    BY <1>2 DEF handle_accept_error, AcceptInv, TypeOK, ProcessTypes
  <2>3. /\ s \in Sessions /\ life[s] = "free" /\ s # n /\ UNCHANGED op
        /\ op[s] = "none" /\ op[n] = "none" /\ life[n] = "alive"
    BY <1>2, <2>2 DEF Fresh, SessionInv, NoUseAfterDelete, handle_accept_error
  <2>4. /\ life'[n] = "deleted" /\ life'[s] = "alive" /\ new_session' = s
        /\ \A r \in Sessions \ {s, n} : life'[r] = life[r]
    BY <2>1, <2>2, <2>3 DEF start_accept, TypeOK, SocketTypes
  <2>5. ConnOf(n)' = "closed" /\ ConnOf(n) = "none" /\ conn[n] = ConnOf(n)
    BY <2>2, <2>3, <2>4 DEF ConnOf, conn
  <2>6. ConnOf(s)' = "none" /\ ConnOf(s) = "none"
    BY <2>2, <2>3, <2>4 DEF ConnOf
  <2>7. \A r \in Sessions \ {s, n} : ConnOf(r)' = ConnOf(r)
    BY <2>2, <2>3, <2>4 DEF ConnOf
  <2> QED
    BY <2>5, <2>6, <2>7, ConnMove DEF C!Next, C!Reject, C!Move
<1>3. CASE get_remote_ip(t)
  BY <1>3, ConnBind DEF get_remote_ip, At, AcceptInv
<1> QED
  BY <1>1, <1>2, <1>3

LEMMA ConnHandlers ==
  ASSUME Inv, NEW t \in Threads, NEW s \in Sessions,
         \/ handle_read_error(t, s) \/ handle_read(t, s)
         \/ handle_write(t, s) \/ handle_write_error(t, s)
  PROVE  [C!Next]_conn
<1> USE DEF Inv, acceptVars
<1>1. CASE handle_write(t, s)
  BY <1>1, ConnOperation DEF handle_write, C!Next, Ops
<1>2. ASSUME op[s] # "none", op' = [op EXCEPT ![s] = "none"],
             UNCHANGED new_session
      PROVE  /\ life[s] = "alive" /\ new_session # s /\ op'[s] = "none"
             /\ conn[s] = ConnOf(s)
             /\ \A r \in Sessions \ {s} : op'[r] = op[r]
  BY <1>2 DEF SessionInv, NoUseAfterDelete, TypeOK, SocketTypes, conn
<1>3. CASE handle_read(t, s)
  <2>1. op[s] = "readDone" /\ life' = life /\ new_session' = new_session
    BY <1>3 DEF handle_read
  <2>2. \A r \in Sessions : ConnOf(r)' = ConnOf(r)
    BY <1>2, <1>3, <2>1 DEF handle_read, ConnOf
  <2> QED
    BY <2>2, ConnStays
<1>4. CASE handle_read_error(t, s) \/ handle_write_error(t, s)
  <2>1. /\ op[s] \in {"readError", "writeError"}
        /\ op' = [op EXCEPT ![s] = "none"] /\ UNCHANGED new_session
        /\ life'[s] = "deleted"
        /\ \A r \in Sessions \ {s} : life'[r] = life[r]
    BY <1>4 DEF handle_read_error, handle_write_error, TypeOK, SocketTypes
  <2>2. ConnOf(s) \in {"waiting", "replying"} /\ ConnOf(s)' = "closed"
    BY <1>2, <2>1 DEF ConnOf
  <2>3. \A r \in Sessions \ {s} : ConnOf(r)' = ConnOf(r)
    BY <1>2, <2>1 DEF ConnOf
  <2> QED
    BY <1>2, <2>1, <2>2, <2>3, ConnMove DEF C!Next, C!Close, C!Move
<1> QED
  BY <1>1, <1>3, <1>4

LEMMA ConnServing ==
  ASSUME Inv, NEW t \in Threads,
         \/ createByName(t) \/ HandleRequest(t) \/ getServerResponse(t)
         \/ start_report(t) \/ end_loop(t)
         \/ \E k \in DOMAIN url_counter \cup DOMAIN code_counter : visit(t, k)
         \/ lock_count(t) \/ count_url(t) \/ insert_code(t) \/ count_code(t)
         \/ async_write(t) \/ handle_read_returns(t)
  PROVE  [C!Next]_conn
<1>1. CASE async_write(t)
  <2>1. PICK s \in Sessions : s = cur[t]
    BY <1>1 DEF async_write, At, Inv, SessionInv
  <2>2. life[s] = "alive" /\ new_session # s /\ op[s] = "none"
    BY <1>1, <2>1, Labels DEF async_write, At, Inv, SessionInv,
       NoUseAfterDelete, OneHandlerPerSession, Serves
  <2>3. /\ op'[s] \in {"writing", "writeDone", "writeError"}
        /\ \A r \in Sessions \ {s} : op'[r] = op[r]
        /\ UNCHANGED <<life, new_session>>
    BY <1>1, <2>1 DEF async_write, acceptVars, Inv, TypeOK, SocketTypes
  <2>4. ConnOf(s) = "serving" /\ conn[s] = ConnOf(s) /\ ConnOf(s)' = "replying"
    BY <2>2, <2>3 DEF ConnOf, conn
  <2>5. \A r \in Sessions \ {s} : ConnOf(r)' = ConnOf(r)
    BY <2>3 DEF ConnOf
  <2> QED
    BY <2>4, <2>5, ConnMove DEF C!Next, C!Reply, C!Move
<1>2. CASE ~async_write(t)
  <2>1. UNCHANGED <<life, new_session, op>>
    BY <1>2 DEF createByName, HandleRequest, getServerResponse, start_report,
       end_loop, visit, lock_count, count_url, insert_code, count_code,
       handle_read_returns, acceptVars, socketVars
  <2> QED
    BY <2>1, ConnFrame
<1> QED
  BY <1>1, <1>2

LEMMA ConnNext == Inv /\ [Next]_vars => [C!Next]_conn
<1>1. ASSUME Inv, Process
      PROVE  UNCHANGED conn
  <2>1. CASE init
    BY <1>1, <2>1, ConnBind, ConnFrame DEF init, Inv, AcceptInv, acceptVars
  <2>2. CASE kill \/ main_returns \/ got_signal
    BY <2>2, ConnFrame DEF kill, main_returns, got_signal, acceptVars,
       socketVars
  <2> QED
    BY <1>1, <2>1, <2>2 DEF Process
<1>2. UNCHANGED vars => UNCHANGED conn
  BY ConnFrame DEF vars, acceptVars, socketVars
<1>3. ASSUME NEW t \in Threads,
             get_remote_ip_throws(t) \/ torn_iterator_crashes(t)
      PROVE  UNCHANGED conn
  BY <1>3, ConnFrame DEF get_remote_ip_throws, torn_iterator_crashes,
     acceptVars, socketVars
<1> QED
  BY <1>1, <1>2, <1>3, ConnEnvironment, ConnAccept, ConnHandlers, ConnServing
  DEF Next, Thread

(* Whatever the threads do, every connection sees requests and replies     *)
(* alternate, and ends only between them or while a reply is sent.         *)
THEOREM ImplementsConnection == Spec => RefinesConnection
<1> QED
  BY ConnInit, ConnNext, Invariance, PTL DEF Spec, C!Spec, RefinesConnection

=============================================================================
