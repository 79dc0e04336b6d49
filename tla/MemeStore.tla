----------------------------- MODULE MemeStore ------------------------------
(***************************************************************************)
(* The meme handler (meme_handler.cc): requests that create, edit, show,   *)
(* list and delete memes, handled at the same time by several threads over *)
(* one sqlite table, one id counter and the mutex id_lock.                 *)
(*                                                                         *)
(* Texts are abstracted to what the handler tells apart: a form may be     *)
(* incomplete, a text or an id may hold an apostrophe (which ends the SQL  *)
(* literal it is pasted into, so sqlite3_exec reports an error), an id may *)
(* be empty or no number at all (nor the name of a column).  Texts fit the *)
(* buffers they are scanned into.                                          *)
(***************************************************************************)
EXTENDS Naturals, FiniteSets, FiniteSetsExt

CONSTANTS
  Users,        \* threads handling a meme request
  Rows,         \* complete forms: template, top and bottom text
  Quoted,       \* the rows with an apostrophe in a text
  Found,        \* the rows a search with text matches
  Incomplete,   \* a form with an empty field or without a template
  NoId,         \* an id parameter that is empty or missing
  Word,         \* an id parameter that is not a number
  QuotedWord,   \* one with an apostrophe
  MaxMemes,     \* bound on the ids given out
  None

ASSUME MemeAssumption ==
  /\ Quoted \subseteq Rows /\ Found \subseteq Rows
  /\ MaxMemes \in Nat
  /\ Incomplete \notin Rows
  /\ IsFiniteSet(Users) /\ None \notin Users
  /\ {NoId, Word, QuotedWord} \cap Nat = {}
  /\ NoId # Word /\ NoId # QuotedWord /\ Word # QuotedWord

VARIABLES
  table,        \* the rows of MEMES by ID
  meme_count,   \* meme_handler::meme_count
  id_lock,      \* owner of id_lock
  pc,           \* where each thread is in HandleRequest
  rq,           \* the request it handles, or handled last
  unique_id,    \* its handler's unique_id
  result,       \* what sqlite3_exec left: error and ids of the rows found
  out,          \* code of its last reply, 0 before it
  wrote,        \* threads whose request changed the table
  promised,     \* ids a reply said were generated
  deleted       \* ids of the rows that were deleted

vars == <<table, meme_count, id_lock, pc, rq, unique_id, result, out, wrote,
          promised, deleted>>

IdParams == (1 .. MaxMemes) \cup {NoId, Word, QuotedWord}

Requests ==
  \* "other": a path that is none of the handler's, or not under its location
  [kind : {"new", "other"}, id : {NoId}, row : {Incomplete}]
    \cup [kind : {"create"}, id : IdParams, row : Rows \cup {Incomplete}]
    \cup [kind : {"edit", "view", "delete"}, id : IdParams, row : {Incomplete}]
    \* a list request's id is its search text: none, some or one with an apostrophe
    \cup [kind : {"list"}, id : {NoId, Word, QuotedWord}, row : {Incomplete}]

NoResult == [err |-> FALSE, ids |-> {}]
NoRequest == [kind |-> "new", id |-> NoId, row |-> Incomplete]

Init ==
  /\ table = [i \in {} |-> Incomplete]
  /\ meme_count = 0
  /\ id_lock = None
  /\ pc = [u \in Users |-> "idle"]
  /\ rq = [u \in Users |-> NoRequest]
  /\ unique_id = [u \in Users |-> 0]
  /\ result = [u \in Users |-> NoResult]
  /\ out = [u \in Users |-> 0]
  /\ wrote = {} /\ promised = {} /\ deleted = {}

-----------------------------------------------------------------------------
(* An empty edit id makes prepare_create_request create, any other update. *)
Generates(r) == r.kind = "create" /\ r.id = NoId
Updates(r) == r.kind = "create" /\ r.id # NoId

BadRequest_mutant(r) ==                \* empty fields are not looked for
  r.kind = "view" /\ r.id = NoId

(* The early returns with 400, before the database is asked.               *)
BadRequest(r) ==
  \/ r.kind = "create" /\ r.row = Incomplete
  \/ r.kind = "view" /\ r.id = NoId

(* MaxMemes bounds the creates that have or will have an id.               *)
Pending == {u \in Users : pc[u] \in {"lock", "count"} /\ Generates(rq[u])}

HandleRequest(u, r) ==
  /\ pc[u] = "idle"
  /\ Generates(r) => meme_count + Cardinality(Pending) < MaxMemes
  /\ rq' = [rq EXCEPT ![u] = r]
  /\ result' = [result EXCEPT ![u] = NoResult]
  /\ wrote' = wrote \ {u}
  /\ \/ /\ BadRequest(r)
        /\ out' = [out EXCEPT ![u] = 400]
        /\ UNCHANGED pc
     \/ /\ r.kind = "new"
        \* prepare_new_request: new.html may not be readable
        /\ \E code \in {200, 404} : out' = [out EXCEPT ![u] = code]
        /\ UNCHANGED pc
     \/ /\ r.kind = "other"
        /\ out' = [out EXCEPT ![u] = 404]
        /\ UNCHANGED pc
     \/ /\ ~BadRequest(r) /\ r.kind \notin {"new", "other"}
        /\ out' = [out EXCEPT ![u] = 0]
        /\ pc' = [pc EXCEPT ![u] = "lock"]
  /\ UNCHANGED <<table, meme_count, id_lock, unique_id, promised, deleted>>

lock_mutant(u) ==                      \* id_lock is not taken
  /\ pc[u] = "lock"
  /\ id_lock' = u
  /\ pc' = [pc EXCEPT ![u] = IF Generates(rq[u]) THEN "count" ELSE "exec"]
  /\ UNCHANGED <<table, meme_count, rq, unique_id, result, out, wrote,
                 promised, deleted>>

lock(u) ==
  /\ pc[u] = "lock" /\ id_lock = None
  /\ id_lock' = u
  /\ pc' = [pc EXCEPT ![u] = IF Generates(rq[u]) THEN "count" ELSE "exec"]
  /\ UNCHANGED <<table, meme_count, rq, unique_id, result, out, wrote,
                 promised, deleted>>

(* meme_count++, then unique_id = to_string(meme_count).                   *)
count(u) ==
  /\ pc[u] = "count"
  /\ meme_count' = meme_count + 1
  /\ pc' = [pc EXCEPT ![u] = "name"]
  /\ UNCHANGED <<table, id_lock, rq, unique_id, result, out, wrote, promised,
                 deleted>>

name_mutant(u) ==                      \* the id is the number of memes
  /\ pc[u] = "name"
  /\ unique_id' = [unique_id EXCEPT ![u] = Cardinality(DOMAIN table) + 1]
  /\ pc' = [pc EXCEPT ![u] = "exec"]
  /\ UNCHANGED <<table, meme_count, id_lock, rq, result, out, wrote, promised,
                 deleted>>

name(u) ==
  /\ pc[u] = "name"
  /\ unique_id' = [unique_id EXCEPT ![u] = meme_count]
  /\ pc' = [pc EXCEPT ![u] = "exec"]
  /\ UNCHANGED <<table, meme_count, id_lock, rq, result, out, wrote, promised,
                 deleted>>

-----------------------------------------------------------------------------
(* sqlite3_exec on the statement of each request, and id_lock.unlock()     *)

Executed_mutant(u, err, ids) ==        \* an error returns before the unlock
  /\ pc[u] = "exec"
  /\ id_lock' = IF err THEN id_lock ELSE None
  /\ pc' = [pc EXCEPT ![u] = "reply"]
  /\ result' = [result EXCEPT ![u] = [err |-> err, ids |-> ids]]
  /\ UNCHANGED <<meme_count, rq, unique_id, out, promised>>

Executed(u, err, ids) ==
  /\ pc[u] = "exec"
  /\ id_lock' = None
  /\ pc' = [pc EXCEPT ![u] = "reply"]
  /\ result' = [result EXCEPT ![u] = [err |-> err, ids |-> ids]]
  /\ UNCHANGED <<meme_count, rq, unique_id, out, promised>>

(* INSERT, which the primary key refuses for an id that is there already.  *)
insert(u) ==
  LET i == unique_id[u]
      row == rq[u].row
      err == row \in Quoted \/ i \in DOMAIN table
  IN /\ Generates(rq[u])
     /\ Executed(u, err, {})
     /\ \/ err /\ UNCHANGED <<table, wrote>>
        \/ /\ ~err
           /\ table' = [j \in DOMAIN table \cup {i} |-> IF j = i THEN row ELSE table[j]]
           /\ wrote' = wrote \cup {u}
     /\ UNCHANGED deleted

(* UPDATE ... WHERE ID = id, without quotes: a word is no column of MEMES. *)
update(u) ==
  LET i == rq[u].id
      row == rq[u].row
      err == row \in Quoted \/ i \in {Word, QuotedWord}
  IN /\ Updates(rq[u])
     /\ Executed(u, err, {})
     /\ \/ (err \/ i \notin DOMAIN table) /\ UNCHANGED <<table, wrote>>
        \/ /\ ~err /\ i \in DOMAIN table
           /\ table' = [table EXCEPT ![i] = row]
           /\ wrote' = wrote \cup {u}
     /\ UNCHANGED deleted

(* The rows that sqlite3_exec hands to the callbacks.                      *)
view_callback(i) == {i} \cap DOMAIN table
list_callback(text) == {i \in DOMAIN table : text = NoId \/ table[i] \in Found}

(* SELECT ... WHERE ID='id', for prepare_view_request and _edit_request.   *)
select(u) ==
  /\ rq[u].kind \in {"view", "edit"}
  /\ Executed(u, rq[u].id = QuotedWord, view_callback(rq[u].id))
  /\ UNCHANGED <<table, wrote, deleted>>

list(u) ==
  LET text == rq[u].id
      err == text = QuotedWord
  IN /\ rq[u].kind = "list"
     /\ Executed(u, err, IF err THEN {} ELSE list_callback(text))
     /\ UNCHANGED <<table, wrote, deleted>>

(* DELETE ... WHERE ID='id': no row with the id is no error.               *)
delete(u) ==
  LET gone == {rq[u].id} \cap DOMAIN table
  IN /\ rq[u].kind = "delete"
     /\ Executed(u, rq[u].id = QuotedWord, {})
     /\ table' = [j \in DOMAIN table \ gone |-> table[j]]
     /\ deleted' = deleted \cup gone
     /\ wrote' = IF gone = {} THEN wrote ELSE wrote \cup {u}

-----------------------------------------------------------------------------
(* The rest of the prepare_ functions: the code of the reply               *)

create_codes_mutant(res) == {200}       \* the error of the statement is ignored

create_codes_strict(res) ==             \* a created meme is looked for in the result
  IF res.err \/ res.ids = {} THEN {404} ELSE {200}

create_codes(res) == IF res.err THEN {404} ELSE {200}
list_codes(res) == IF res.err THEN {404} ELSE {200}
delete_codes(res) == IF res.err THEN {404} ELSE {200}
view_codes(res) == IF res.err \/ res.ids = {} THEN {404} ELSE {200}

(* edit.html may not be readable, which leaves the code at 404.            *)
edit_codes(res) == IF res.err \/ res.ids = {} THEN {404} ELSE {200, 404}

replyCode(u) ==
  CASE rq[u].kind = "create" -> create_codes(result[u])
    [] rq[u].kind = "list" -> list_codes(result[u])
    [] rq[u].kind = "delete" -> delete_codes(result[u])
    [] rq[u].kind = "view" -> view_codes(result[u])
    [] rq[u].kind = "edit" -> edit_codes(result[u])

reply(u) ==
  /\ pc[u] = "reply"
  /\ pc' = [pc EXCEPT ![u] = "idle"]
  /\ \E code \in replyCode(u) :
       /\ out' = [out EXCEPT ![u] = code]
       /\ promised' = IF code = 200 /\ Generates(rq[u])
                        THEN promised \cup {unique_id[u]} ELSE promised
  /\ UNCHANGED <<table, meme_count, id_lock, rq, unique_id, result, wrote,
                 deleted>>

Step(u) ==
  \/ lock(u) \/ count(u) \/ name(u)
  \/ insert(u) \/ update(u) \/ select(u) \/ list(u) \/ delete(u)
  \/ reply(u)

Next == \E u \in Users : Step(u) \/ \E r \in Requests : HandleRequest(u, r)

Spec == Init /\ [][Next]_vars

-----------------------------------------------------------------------------
(* Properties                                                              *)

Answered(u) == pc[u] = "idle" /\ out[u] # 0

(* Every variable has its type.                                            *)
TypeOK ==
  /\ DOMAIN table \subseteq 1 .. MaxMemes /\ table \in [DOMAIN table -> Rows]
  /\ meme_count \in 0 .. MaxMemes
  /\ id_lock \in Users \cup {None}
  /\ pc \in [Users -> {"idle", "lock", "count", "name", "exec", "reply"}]
  /\ rq \in [Users -> Requests]
  /\ unique_id \in [Users -> 0 .. MaxMemes]
  /\ result \in [Users -> [err : BOOLEAN, ids : SUBSET (1 .. MaxMemes)]]
  /\ out \in [Users -> {0, 200, 400, 404}]
  /\ wrote \subseteq Users
  /\ promised \subseteq 1 .. MaxMemes /\ deleted \subseteq 1 .. MaxMemes

(* A meme whose generation was confirmed can be viewed until it is         *)
(* deleted: the id in the reply is that of a stored row, however requests  *)
(* overlap.                                                                *)
GeneratedMemesKept == promised \subseteq DOMAIN table \cup deleted

(* No two requests are told the same id: concurrent creates never collide  *)
(* on the primary key, so a complete form without an apostrophe is always  *)
(* accepted.                                                               *)
GoodFormsAccepted ==
  \A u \in Users :
    Answered(u) /\ Generates(rq[u]) /\ rq[u].row \in Rows \ Quoted => out[u] = 200

(* A request that was answered with an error has changed nothing.          *)
FailedRequestsChangeNothing ==
  \A u \in Users : Answered(u) /\ out[u] # 200 => u \notin wrote

(* The ids that were stored under are handed out in the order of the       *)
(* inserts and never again: the store implements MemeTable.                *)
last == Max(DOMAIN table \cup deleted \cup {0})

T == INSTANCE MemeTable WITH memes <- table

(* Every change of the table is one create, update or delete of MemeTable. *)
RefinesMemeTable == T!Spec

(* id_lock is held exactly by the thread between the lock and the unlock   *)
(* of its prepare_ function, where nothing blocks: whoever answers, also   *)
(* after a statement that failed, has released it.                         *)
LockHeldInside ==
  \A u \in Users : id_lock = u <=> pc[u] \in {"count", "name", "exec"}

=============================================================================
