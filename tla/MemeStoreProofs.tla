-------------------------- MODULE MemeStoreProofs ---------------------------
(* Safety of module MemeStore for every finite pool of threads, every set  *)
(* of rows and every bound on the ids.                                     *)
EXTENDS MemeStore, FiniteSetTheorems, TLAPS

-----------------------------------------------------------------------------
(* The inductive invariant                                                 *)

(* The ids of the rows that were ever stored.                              *)
Used == DOMAIN table \cup deleted

(* What a thread that has not answered yet is working on.                  *)
Busy ==
  \A u \in Users :
    /\ pc[u] # "idle" => ~BadRequest(rq[u]) /\ rq[u].kind \notin {"new", "other"}
    /\ pc[u] \in {"count", "name"} => Generates(rq[u])

(* The creates that have no id yet fit under the bound.                    *)
Bounded == meme_count + Cardinality(Pending) <= MaxMemes

(* The id that the holder of id_lock is about to store under is new and    *)
(* larger than all others.                                                 *)
IdsFresh ==
  /\ \A i \in Used : i <= meme_count
  /\ \A u \in Users : pc[u] = "name" => 0 < meme_count /\ meme_count \notin Used
  /\ \A u \in Users : pc[u] = "exec" /\ Generates(rq[u]) =>
       unique_id[u] = meme_count /\ 0 < meme_count /\ meme_count \notin Used

(* One of the ids is the largest, if there are any.                        *)
HasLast == \E m \in Used \cup {0} : \A i \in Used \cup {0} : m >= i

(* An INSERT fails for an apostrophe only, and otherwise its row was there.*)
Results ==
  \A u \in Users : pc[u] = "reply" /\ Generates(rq[u]) =>
    /\ result[u].err <=> rq[u].row \in Quoted
    /\ ~result[u].err => unique_id[u] \in Used

(* Whoever changed the table will say so, or has.                          *)
Writers ==
  \A u \in wrote :
    \/ pc[u] = "reply" /\ ~result[u].err /\ rq[u].kind \in {"create", "delete"}
    \/ pc[u] = "idle" /\ out[u] = 200

Inv ==
  /\ TypeOK /\ LockHeldInside /\ Busy /\ Bounded /\ IdsFresh /\ HasLast
  /\ Results /\ Writers /\ GeneratedMemesKept /\ GoodFormsAccepted

-----------------------------------------------------------------------------

LEMMA RequestFields ==
  \A r \in Requests :
    /\ r.kind \in {"new", "other", "create", "edit", "view", "delete", "list"}
    /\ r.id \in IdParams /\ r.row \in Rows \cup {Incomplete}
  BY DEF Requests, IdParams

LEMMA InitInv == Init => Inv
<1> SUFFICES ASSUME Init PROVE Inv
  OBVIOUS
<1>1. DOMAIN table = {} /\ Used = {} /\ Pending = {}
  BY DEF Init, Used, Pending
<1>2. NoRequest \in Requests
  BY DEF NoRequest, Requests
<1>3. TypeOK
  BY <1>1, <1>2, MemeAssumption DEF Init, TypeOK, NoResult
<1>4. LockHeldInside /\ Busy
  BY MemeAssumption DEF Init, LockHeldInside, Busy
<1>5. Bounded
  BY <1>1, FS_EmptySet, MemeAssumption DEF Init, Bounded
<1>6. IdsFresh /\ HasLast /\ Results /\ Writers /\ GeneratedMemesKept
  BY <1>1 DEF Init, IdsFresh, HasLast, Results, Writers, GeneratedMemesKept
<1>7. GoodFormsAccepted
  BY DEF Init, GoodFormsAccepted, Answered
<1> QED
  BY <1>3, <1>4, <1>5, <1>6, <1>7 DEF Inv

LEMMA PendingFinite == IsFiniteSet(Pending) /\ Cardinality(Pending) \in Nat
<1>1. Pending \in SUBSET Users
  BY DEF Pending
<1> QED
  BY <1>1, MemeAssumption, FS_Subset, FS_CardinalityType

-----------------------------------------------------------------------------
(* One lemma per action                                                    *)

LEMMA HandleRequestInv ==
  ASSUME Inv, NEW u \in Users, NEW r \in Requests, HandleRequest(u, r)
  PROVE  Inv'
<1>1. /\ TypeOK /\ pc[u] = "idle"
      /\ UNCHANGED <<table, meme_count, id_lock, unique_id, promised, deleted>>
      /\ rq' = [rq EXCEPT ![u] = r] /\ result' = [result EXCEPT ![u] = NoResult]
      /\ wrote' = wrote \ {u}
  BY DEF Inv, HandleRequest
<1>2. \/ /\ pc' = pc
         /\ \E code \in {200, 400, 404} :
              /\ out' = [out EXCEPT ![u] = code]
              /\ r.kind \in {"new", "other"} \/ BadRequest(r)
      \/ /\ pc' = [pc EXCEPT ![u] = "lock"] /\ out' = [out EXCEPT ![u] = 0]
         /\ ~BadRequest(r) /\ r.kind \notin {"new", "other"}
  BY DEF HandleRequest
<1>3. TypeOK'
  <2>1. NoResult \in [err : BOOLEAN, ids : SUBSET (1 .. MaxMemes)]
    BY DEF NoResult
  <2>2. result' \in [Users -> [err : BOOLEAN, ids : SUBSET (1 .. MaxMemes)]]
    BY <1>1, <2>1 DEF TypeOK
  <2>3. pc' \in [Users -> {"idle", "lock", "count", "name", "exec", "reply"}]
    BY <1>1, <1>2 DEF TypeOK
  <2>4. out' \in [Users -> {0, 200, 400, 404}]
    BY <1>1, <1>2 DEF TypeOK
  <2>5. rq' \in [Users -> Requests] /\ wrote' \subseteq Users
    BY <1>1 DEF TypeOK
  <2> QED
    BY <1>1, <2>2, <2>3, <2>4, <2>5 DEF TypeOK
<1>4. LockHeldInside'
  BY <1>1, <1>2 DEF Inv, LockHeldInside, TypeOK
<1>5. Busy'
  BY <1>1, <1>2 DEF Inv, Busy, TypeOK
<1>6. Bounded'
  <2>1. CASE Generates(r)
    <3>1. meme_count + Cardinality(Pending) < MaxMemes
      BY <2>1 DEF HandleRequest
    <3>2. Pending' \in SUBSET (Pending \cup {u})
      BY <1>1, <1>2 DEF Pending, TypeOK
    <3>3. IsFiniteSet(Pending \cup {u}) /\ Cardinality(Pending \cup {u}) <= Cardinality(Pending) + 1
      <4>1. IsFiniteSet(Pending \cup {u})
        BY PendingFinite, FS_AddElement
      <4>2. Cardinality(Pending \cup {u})
              = IF u \in Pending THEN Cardinality(Pending) ELSE Cardinality(Pending) + 1
        BY PendingFinite, FS_AddElement
      <4> QED
        BY <4>1, <4>2, PendingFinite
    <3>4. Cardinality(Pending') <= Cardinality(Pending \cup {u}) /\ Cardinality(Pending') \in Nat
          /\ Cardinality(Pending \cup {u}) \in Nat
      BY <3>2, <3>3, FS_Subset, FS_CardinalityType
    <3> QED
      BY <1>1, <3>1, <3>3, <3>4, PendingFinite, MemeAssumption DEF Bounded, TypeOK
  <2>2. CASE ~Generates(r)
    <3>1. Pending' = Pending
      BY <1>1, <1>2, <2>2 DEF Pending, TypeOK
    <3> QED
      BY <1>1, <3>1 DEF Inv, Bounded
  <2> QED
    BY <2>1, <2>2
<1>7. IdsFresh' /\ HasLast' /\ GeneratedMemesKept'
  <2>1. Used' = Used
    BY <1>1 DEF Used
  <2>2. HasLast' /\ GeneratedMemesKept'
    BY <1>1, <2>1 DEF Inv, HasLast, GeneratedMemesKept, Used
  <2>3. IdsFresh'
    BY <1>1, <1>2, <2>1 DEF Inv, IdsFresh, TypeOK, Generates
  <2> QED
    BY <2>2, <2>3
<1>8. Results'
  BY <1>1, <1>2 DEF Inv, Results, Used, TypeOK
<1>9. Writers'
  BY <1>1, <1>2 DEF Inv, Writers, TypeOK
<1>10. GoodFormsAccepted'
  <2>1. ASSUME NEW v \in Users, Answered(v)', Generates(rq[v])', rq'[v].row \in Rows \ Quoted
        PROVE  out'[v] = 200
    <3>1. CASE v # u
      BY <1>1, <1>2, <2>1, <3>1 DEF Inv, GoodFormsAccepted, Answered, TypeOK, Generates
    <3>2. CASE v = u
      BY <1>1, <1>2, <2>1, <3>2, MemeAssumption
         DEF Answered, TypeOK, Generates, BadRequest
    <3> QED
      BY <3>1, <3>2
  <2> QED
    BY <2>1 DEF GoodFormsAccepted
<1> QED
  BY <1>3, <1>4, <1>5, <1>6, <1>7, <1>8, <1>9, <1>10 DEF Inv

(* Steps that leave the table, the request and the results alone.          *)
LEMMA UsedUnchanged ==
  ASSUME Inv, UNCHANGED <<table, deleted>>
  PROVE  Used' = Used /\ HasLast'
<1>1. Used' = Used
  BY DEF Used
<1> QED
  BY <1>1 DEF Inv, HasLast

LEMMA LockInv ==
  ASSUME Inv, NEW u \in Users, lock(u)
  PROVE  Inv'
<1>1. /\ TypeOK /\ pc[u] = "lock" /\ id_lock = None /\ id_lock' = u
      /\ pc' = [pc EXCEPT ![u] = IF Generates(rq[u]) THEN "count" ELSE "exec"]
      /\ UNCHANGED <<table, meme_count, rq, unique_id, result, out, wrote, promised, deleted>>
  BY DEF Inv, lock
<1>2. TypeOK'
  BY <1>1 DEF TypeOK
<1>3. LockHeldInside'
  BY <1>1, MemeAssumption DEF Inv, LockHeldInside, TypeOK
<1>4. Busy'
  BY <1>1 DEF Inv, Busy, TypeOK
<1>5. Bounded'
  <2>1. Pending' = Pending
    BY <1>1 DEF Pending, TypeOK
  <2> QED
    BY <1>1, <2>1 DEF Inv, Bounded
<1>6. Used' = Used /\ HasLast' /\ GeneratedMemesKept'
  BY <1>1, UsedUnchanged DEF Inv, GeneratedMemesKept, Used
<1>7. IdsFresh'
  BY <1>1, <1>6 DEF Inv, IdsFresh, TypeOK
<1>8. Results'
  BY <1>1, <1>6 DEF Inv, Results, TypeOK
<1>9. Writers'
  BY <1>1 DEF Inv, Writers, TypeOK
<1>10. GoodFormsAccepted'
  BY <1>1 DEF Inv, GoodFormsAccepted, Answered, TypeOK
<1> QED
  BY <1>2, <1>3, <1>4, <1>5, <1>6, <1>7, <1>8, <1>9, <1>10 DEF Inv

(* Only the holder of id_lock is between lock and unlock.                  *)
LEMMA OneInside ==
  ASSUME LockHeldInside, NEW u \in Users, NEW v \in Users,
         pc[u] \in {"count", "name", "exec"}, pc[v] \in {"count", "name", "exec"}
  PROVE  u = v
  BY DEF LockHeldInside

LEMMA CountInv ==
  ASSUME Inv, NEW u \in Users, count(u)
  PROVE  Inv'
<1>1. /\ TypeOK /\ pc[u] = "count" /\ meme_count' = meme_count + 1
      /\ pc' = [pc EXCEPT ![u] = "name"]
      /\ UNCHANGED <<table, id_lock, rq, unique_id, result, out, wrote, promised, deleted>>
  BY DEF Inv, count
<1>2. Bounded' /\ meme_count' \in 0 .. MaxMemes
  <2>1. Pending' = Pending \ {u} /\ u \in Pending
    BY <1>1 DEF Inv, Busy, Pending, TypeOK
  <2>2. Cardinality(Pending \ {u}) = Cardinality(Pending) - 1
    BY <2>1, PendingFinite, FS_RemoveElement
  <2>3. IsFiniteSet(Pending \ {u}) /\ Cardinality(Pending \ {u}) \in Nat
    BY PendingFinite, FS_RemoveElement, FS_CardinalityType
  <2> QED
    BY <1>1, <2>1, <2>2, <2>3, PendingFinite, MemeAssumption DEF Inv, Bounded, TypeOK
<1>3. TypeOK'
  BY <1>1, <1>2 DEF TypeOK
<1>4. LockHeldInside' /\ Busy'
  BY <1>1 DEF Inv, LockHeldInside, Busy, TypeOK
<1>5. Used' = Used /\ HasLast' /\ GeneratedMemesKept'
  BY <1>1, UsedUnchanged DEF Inv, GeneratedMemesKept, Used
<1>6. IdsFresh'
  <2>1. \A v \in Users : v # u => pc'[v] = pc[v] /\ pc[v] \notin {"count", "name", "exec"}
    BY <1>1, OneInside DEF Inv, TypeOK
  <2>2. pc'[u] = "name"
    BY <1>1 DEF TypeOK
  <2>3. meme_count \in Nat /\ \A i \in Used : i \in Nat /\ i <= meme_count
    BY <1>1 DEF Inv, IdsFresh, Used, TypeOK
  <2>4. meme_count' \notin Used /\ 0 < meme_count' /\ \A i \in Used : i <= meme_count'
    BY <1>1, <2>3
  <2> QED
    BY <1>1, <1>5, <2>1, <2>2, <2>4 DEF IdsFresh
<1>7. Results'
  BY <1>1, <1>5 DEF Inv, Results, TypeOK
<1>8. Writers'
  BY <1>1 DEF Inv, Writers, TypeOK
<1>9. GoodFormsAccepted'
  BY <1>1 DEF Inv, GoodFormsAccepted, Answered, TypeOK
<1> QED
  BY <1>2, <1>3, <1>4, <1>5, <1>6, <1>7, <1>8, <1>9 DEF Inv

LEMMA NameInv ==
  ASSUME Inv, NEW u \in Users, name(u)
  PROVE  Inv'
<1>1. /\ TypeOK /\ pc[u] = "name" /\ unique_id' = [unique_id EXCEPT ![u] = meme_count]
      /\ pc' = [pc EXCEPT ![u] = "exec"]
      /\ UNCHANGED <<table, meme_count, id_lock, rq, result, out, wrote, promised, deleted>>
  BY DEF Inv, name
<1>2. TypeOK'
  BY <1>1 DEF TypeOK
<1>3. LockHeldInside' /\ Busy'
  BY <1>1 DEF Inv, LockHeldInside, Busy, TypeOK
<1>4. Bounded'
  <2>1. Pending' = Pending
    BY <1>1 DEF Pending, TypeOK
  <2> QED
    BY <1>1, <2>1 DEF Inv, Bounded
<1>5. Used' = Used /\ HasLast' /\ GeneratedMemesKept'
  BY <1>1, UsedUnchanged DEF Inv, GeneratedMemesKept, Used
<1>6. IdsFresh'
  <2>1. \A v \in Users : v # u => pc'[v] = pc[v] /\ pc[v] \notin {"count", "name", "exec"}
    BY <1>1, OneInside DEF Inv, TypeOK
  <2>2. pc'[u] = "exec" /\ unique_id'[u] = meme_count
    BY <1>1 DEF TypeOK
  <2> QED
    BY <1>1, <1>5, <2>1, <2>2 DEF Inv, IdsFresh
<1>7. Results'
  BY <1>1, <1>5 DEF Inv, Results, TypeOK
<1>8. Writers'
  BY <1>1 DEF Inv, Writers, TypeOK
<1>9. GoodFormsAccepted'
  BY <1>1 DEF Inv, GoodFormsAccepted, Answered, TypeOK
<1> QED
  BY <1>2, <1>3, <1>4, <1>5, <1>6, <1>7, <1>8, <1>9 DEF Inv

(* What every statement has in common: the unlock, and that its effect on  *)
(* the table is whole or none.                                             *)
LEMMA ExecutedInv ==
  ASSUME Inv, NEW u \in Users, NEW err \in BOOLEAN, NEW ids \in SUBSET (1 .. MaxMemes),
         Executed(u, err, ids),
         DOMAIN table' \subseteq 1 .. MaxMemes, table' \in [DOMAIN table' -> Rows],
         deleted' \subseteq 1 .. MaxMemes,
         Used \subseteq Used', HasLast', \A i \in Used' : i <= meme_count,
         wrote' \subseteq wrote \cup {u},
         u \in wrote' => ~err /\ rq[u].kind \in {"create", "delete"},
         Generates(rq[u]) => /\ err <=> rq[u].row \in Quoted
                             /\ ~err => unique_id[u] \in Used'
  PROVE  Inv'
<1>1. /\ TypeOK /\ pc[u] = "exec" /\ id_lock' = None
      /\ pc' = [pc EXCEPT ![u] = "reply"]
      /\ result' = [result EXCEPT ![u] = [err |-> err, ids |-> ids]]
      /\ UNCHANGED <<meme_count, rq, unique_id, out, promised>>
  BY DEF Inv, Executed
<1>2. TypeOK'
  <2>1. result' \in [Users -> [err : BOOLEAN, ids : SUBSET (1 .. MaxMemes)]]
    BY <1>1 DEF TypeOK
  <2>2. pc' \in [Users -> {"idle", "lock", "count", "name", "exec", "reply"}]
    BY <1>1 DEF TypeOK
  <2>3. wrote' \subseteq Users
    BY <1>1 DEF TypeOK
  <2> QED
    BY <1>1, <2>1, <2>2, <2>3 DEF TypeOK
<1>3. \A v \in Users : v # u => pc'[v] = pc[v] /\ pc[v] \notin {"count", "name", "exec"}
  BY <1>1, OneInside DEF Inv, TypeOK
<1>4. pc'[u] = "reply" /\ result'[u].err = err
  BY <1>1 DEF TypeOK
<1>5. LockHeldInside'
  BY <1>1, <1>3, <1>4, MemeAssumption DEF LockHeldInside
<1>6. Busy'
  BY <1>1, <1>3, <1>4 DEF Inv, Busy
<1>7. Bounded'
  <2>1. Pending' = Pending
    BY <1>1, <1>3, <1>4 DEF Pending
  <2> QED
    BY <1>1, <2>1 DEF Inv, Bounded
<1>8. IdsFresh'
  BY <1>1, <1>3, <1>4 DEF Inv, IdsFresh
<1>9. Results'
  BY <1>1, <1>3, <1>4 DEF Inv, Results, TypeOK
<1>10. Writers'
  BY <1>1, <1>3, <1>4 DEF Inv, Writers, TypeOK
<1>11. GeneratedMemesKept'
  BY <1>1 DEF Inv, GeneratedMemesKept, Used
<1>12. GoodFormsAccepted'
  BY <1>1, <1>3, <1>4 DEF Inv, GoodFormsAccepted, Answered
<1> QED
  BY <1>2, <1>5, <1>6, <1>7, <1>8, <1>9, <1>10, <1>11, <1>12 DEF Inv

(* The new row has the largest of all ids.                                 *)
LEMMA InsertInv ==
  ASSUME Inv, NEW u \in Users, insert(u)
  PROVE  Inv'
<1> DEFINE i == unique_id[u]
           row == rq[u].row
           err == row \in Quoted \/ i \in DOMAIN table
<1>1. /\ TypeOK /\ pc[u] = "exec" /\ Generates(rq[u]) /\ Executed(u, err, {})
      /\ deleted' = deleted
  BY DEF Inv, insert, Executed
<1>2. i = meme_count /\ 0 < meme_count /\ meme_count \notin Used
  BY <1>1 DEF Inv, IdsFresh
<1>3. err <=> row \in Quoted
  BY <1>2 DEF Used
<1>4. row \in Rows /\ rq[u].kind = "create"
  BY <1>1, RequestFields DEF Inv, Busy, BadRequest, Generates, TypeOK
<1>5. meme_count \in 1 .. MaxMemes
  BY <1>1, <1>2 DEF TypeOK
<1>6. u \notin wrote
  BY <1>1 DEF Inv, Writers
<1>7. CASE err
  <2>1. UNCHANGED <<table, wrote, deleted>>
    BY <1>1, <1>7 DEF insert
  <2>2. Used' = Used /\ HasLast'
    BY <2>1, UsedUnchanged
  <2>3. \A j \in Used' : j <= meme_count
    BY <2>2 DEF Inv, IdsFresh
  <2> QED
    BY <1>1, <1>3, <1>6, <1>7, <2>1, <2>2, <2>3, ExecutedInv DEF TypeOK
<1>8. CASE ~err
  <2>1. /\ table' = [j \in DOMAIN table \cup {i} |-> IF j = i THEN row ELSE table[j]]
        /\ wrote' = wrote \cup {u}
    BY <1>8 DEF insert
  <2>2. DOMAIN table' = DOMAIN table \cup {i} /\ table' \in [DOMAIN table' -> Rows]
    BY <1>1, <1>4, <2>1 DEF TypeOK
  <2>3. Used' = Used \cup {i}
    BY <1>1, <2>2 DEF Used
  <2>4. \A j \in Used : j \in Nat /\ j <= meme_count
    BY <1>1 DEF Inv, IdsFresh, Used, TypeOK
  <2>5. HasLast' /\ \A j \in Used' : j <= meme_count
    BY <1>2, <1>5, <2>3, <2>4 DEF HasLast
  <2>6. DOMAIN table' \subseteq 1 .. MaxMemes /\ deleted' \subseteq 1 .. MaxMemes
    BY <1>1, <1>2, <1>5, <2>2 DEF TypeOK
  <2>7. Used \subseteq Used' /\ i \in Used'
    BY <2>3
  <2> QED
    BY <1>1, <1>3, <1>4, <1>8, <2>1, <2>2, <2>5, <2>6, <2>7, ExecutedInv
<1> QED
  BY <1>7, <1>8

LEMMA UpdateInv ==
  ASSUME Inv, NEW u \in Users, update(u)
  PROVE  Inv'
<1> DEFINE i == rq[u].id
           row == rq[u].row
           err == row \in Quoted \/ i \in {Word, QuotedWord}
<1>1. /\ TypeOK /\ pc[u] = "exec" /\ Updates(rq[u]) /\ Executed(u, err, {})
      /\ deleted' = deleted
  BY DEF Inv, update, Executed
<1>2. row \in Rows /\ rq[u].kind = "create" /\ ~Generates(rq[u])
  BY <1>1, RequestFields DEF Inv, Busy, BadRequest, Updates, Generates, TypeOK
<1>3. u \notin wrote
  BY <1>1 DEF Inv, Writers
<1>4. /\ DOMAIN table' = DOMAIN table /\ table' \in [DOMAIN table' -> Rows]
      /\ wrote' \subseteq wrote \cup {u} /\ (u \in wrote' => ~err)
  BY <1>1, <1>2, <1>3 DEF update, TypeOK
<1>5. Used' = Used
  BY <1>1, <1>4 DEF Used
<1>6. HasLast' /\ \A j \in Used' : j <= meme_count
  BY <1>5 DEF Inv, HasLast, IdsFresh
<1> QED
  BY <1>1, <1>2, <1>4, <1>5, <1>6, ExecutedInv DEF TypeOK

LEMMA SelectInv ==
  ASSUME Inv, NEW u \in Users, select(u) \/ list(u)
  PROVE  Inv'
<1>1. PICK err \in BOOLEAN, ids \in SUBSET (1 .. MaxMemes) :
        Executed(u, err, ids) /\ UNCHANGED <<table, wrote, deleted>>
  <2>1. view_callback(rq[u].id) \in SUBSET (1 .. MaxMemes)
        /\ list_callback(rq[u].id) \in SUBSET (1 .. MaxMemes)
    BY DEF Inv, TypeOK, view_callback, list_callback
  <2>2. CASE select(u)
    BY <2>1, <2>2 DEF select
  <2>3. CASE list(u)
    BY <2>1, <2>3 DEF list
  <2> QED
    BY <2>2, <2>3
<1>2. TypeOK /\ pc[u] = "exec" /\ ~Generates(rq[u])
  BY <1>1 DEF Inv, Executed, select, list, Generates
<1>3. u \notin wrote
  BY <1>2 DEF Inv, Writers
<1>4. Used' = Used /\ HasLast'
  BY <1>1, UsedUnchanged
<1>5. \A j \in Used' : j <= meme_count
  BY <1>4 DEF Inv, IdsFresh
<1> QED
  BY <1>1, <1>2, <1>3, <1>4, <1>5, ExecutedInv DEF TypeOK

LEMMA DeleteInv ==
  ASSUME Inv, NEW u \in Users, delete(u)
  PROVE  Inv'
<1> DEFINE gone == {rq[u].id} \cap DOMAIN table
           err == rq[u].id = QuotedWord
<1>1. /\ TypeOK /\ pc[u] = "exec" /\ rq[u].kind = "delete" /\ Executed(u, err, {})
      /\ table' = [j \in DOMAIN table \ gone |-> table[j]]
      /\ deleted' = deleted \cup gone
      /\ wrote' = IF gone = {} THEN wrote ELSE wrote \cup {u}
  BY DEF Inv, delete, Executed
<1>2. ~Generates(rq[u])
  BY <1>1 DEF Generates
<1>3. u \notin wrote
  BY <1>1 DEF Inv, Writers
<1>4. gone # {} => ~err
  BY <1>1, MemeAssumption DEF TypeOK
<1>5. /\ DOMAIN table' = DOMAIN table \ gone /\ table' \in [DOMAIN table' -> Rows]
      /\ DOMAIN table' \subseteq 1 .. MaxMemes /\ deleted' \subseteq 1 .. MaxMemes
  BY <1>1 DEF TypeOK
<1>6. Used' = Used
  BY <1>1, <1>5 DEF Used
<1>7. HasLast' /\ \A j \in Used' : j <= meme_count
  BY <1>6 DEF Inv, HasLast, IdsFresh
<1>8. wrote' \subseteq wrote \cup {u} /\ (u \in wrote' => ~err)
  BY <1>1, <1>3, <1>4
<1> QED
  BY <1>1, <1>2, <1>5, <1>6, <1>7, <1>8, ExecutedInv

LEMMA ReplyInv ==
  ASSUME Inv, NEW u \in Users, reply(u)
  PROVE  Inv'
<1>1. PICK code \in replyCode(u) :
        /\ out' = [out EXCEPT ![u] = code]
        /\ promised' = IF code = 200 /\ Generates(rq[u])
                         THEN promised \cup {unique_id[u]} ELSE promised
  BY DEF reply
<1>2. /\ TypeOK /\ pc[u] = "reply" /\ pc' = [pc EXCEPT ![u] = "idle"]
      /\ UNCHANGED <<table, meme_count, id_lock, rq, unique_id, result, wrote, deleted>>
  BY DEF Inv, reply
<1>3. rq[u].kind \in {"create", "edit", "view", "delete", "list"}
  BY <1>2, RequestFields DEF Inv, Busy, TypeOK
<1>4. /\ code \in {200, 404}
      /\ rq[u].kind = "create" \/ rq[u].kind = "delete" =>
           code = IF result[u].err THEN 404 ELSE 200
  BY <1>1, <1>3 DEF replyCode, create_codes, list_codes, delete_codes, view_codes, edit_codes
<1>5. Used' = Used /\ HasLast'
  BY <1>2, UsedUnchanged
<1>6. promised' \subseteq Used
  BY <1>1, <1>2, <1>4 DEF Inv, Results, GeneratedMemesKept, Used, Generates
<1>7. TypeOK'
  <2>1. promised' \subseteq 1 .. MaxMemes
    BY <1>2, <1>6 DEF TypeOK, Used
  <2> QED
    BY <1>1, <1>2, <1>4, <2>1 DEF TypeOK
<1>8. LockHeldInside' /\ Busy'
  BY <1>2 DEF Inv, LockHeldInside, Busy, TypeOK
<1>9. Bounded'
  <2>1. Pending' = Pending
    BY <1>2 DEF Pending, TypeOK
  <2> QED
    BY <1>2, <2>1 DEF Inv, Bounded
<1>10. IdsFresh'
  BY <1>2, <1>5 DEF Inv, IdsFresh, TypeOK
<1>11. Results'
  BY <1>2, <1>5 DEF Inv, Results, TypeOK
<1>12. Writers'
  BY <1>1, <1>2, <1>4 DEF Inv, Writers, TypeOK
<1>13. GeneratedMemesKept'
  BY <1>2, <1>6 DEF GeneratedMemesKept, Used
<1>14. GoodFormsAccepted'
  <2>1. ASSUME NEW v \in Users, Answered(v)', Generates(rq[v])', rq'[v].row \in Rows \ Quoted
        PROVE  out'[v] = 200
    <3>1. CASE v # u
      BY <1>1, <1>2, <2>1, <3>1 DEF Inv, GoodFormsAccepted, Answered, TypeOK, Generates
    <3>2. CASE v = u
      BY <1>1, <1>2, <1>4, <2>1, <3>2 DEF Inv, Results, TypeOK, Generates
    <3> QED
      BY <3>1, <3>2
  <2> QED
    BY <2>1 DEF GoodFormsAccepted
<1> QED
  BY <1>5, <1>7, <1>8, <1>9, <1>10, <1>11, <1>12, <1>13, <1>14 DEF Inv

LEMMA StepInv ==
  ASSUME Inv, [Next]_vars
  PROVE  Inv'
<1>1. ASSUME NEW u \in Users, Step(u)
      PROVE  Inv'
  BY <1>1, LockInv, CountInv, NameInv, InsertInv, UpdateInv, SelectInv, DeleteInv, ReplyInv
     DEF Step
<1>2. ASSUME NEW u \in Users, NEW r \in Requests, HandleRequest(u, r)
      PROVE  Inv'
  BY <1>2, HandleRequestInv
<1>3. CASE UNCHANGED vars
  <2>1. TypeOK' /\ LockHeldInside' /\ Busy' /\ Writers' /\ GeneratedMemesKept' /\ GoodFormsAccepted'
    BY <1>3 DEF Inv, vars, TypeOK, LockHeldInside, Busy, Writers, GeneratedMemesKept,
       GoodFormsAccepted, Answered
  <2>2. Used' = Used /\ Pending' = Pending
    BY <1>3 DEF vars, Used, Pending
  <2>3. Bounded' /\ IdsFresh' /\ HasLast' /\ Results'
    BY <1>3, <2>2 DEF Inv, vars, Bounded, IdsFresh, HasLast, Results
  <2> QED
    BY <2>1, <2>3 DEF Inv
<1> QED
  BY <1>1, <1>2, <1>3 DEF Next

LEMMA Invariance == Spec => []Inv
  BY InitInv, StepInv, PTL DEF Spec

-----------------------------------------------------------------------------
(* The theorems                                                            *)

(* Type correctness of the meme handler and its table.                     *)
THEOREM MemeTypes == Spec => []TypeOK
<1>1. Inv => TypeOK
  BY DEF Inv
<1> QED
  BY <1>1, Invariance, PTL

(* However many threads there are, id_lock is held by the one between its  *)
(* lock and unlock and by nobody else, also after a failed statement.      *)
THEOREM IdLockSafe == Spec => []LockHeldInside
<1>1. Inv => LockHeldInside
  BY DEF Inv
<1> QED
  BY <1>1, Invariance, PTL

(* The id in the answer to a create is that of a stored row, until a       *)
(* request deletes it.                                                     *)
THEOREM ConfirmedMemesStored == Spec => []GeneratedMemesKept
<1>1. Inv => GeneratedMemesKept
  BY DEF Inv
<1> QED
  BY <1>1, Invariance, PTL

(* A complete form without an apostrophe is never refused: concurrent      *)
(* creates have different ids.                                             *)
THEOREM CreatesNeverCollide == Spec => []GoodFormsAccepted
<1>1. Inv => GoodFormsAccepted
  BY DEF Inv
<1> QED
  BY <1>1, Invariance, PTL

(* A request that is answered with an error has not changed the table.     *)
THEOREM ErrorsChangeNothing == Spec => []FailedRequestsChangeNothing
<1>1. Inv => FailedRequestsChangeNothing
  BY DEF Inv, Writers, FailedRequestsChangeNothing, Answered
<1> QED
  BY <1>1, Invariance, PTL

-----------------------------------------------------------------------------
(* The refinement                                                          *)

(* last is the largest id ever stored.                                     *)
LEMMA LastIsMax ==
  ASSUME Inv
  PROVE  last \in Used \cup {0} /\ \A i \in Used \cup {0} : last >= i
<1>1. last = CHOOSE m \in Used \cup {0} : \A i \in Used \cup {0} : m >= i
  BY DEF last, Max, Used
<1>2. \E m \in Used \cup {0} : \A i \in Used \cup {0} : m >= i
  BY DEF Inv, HasLast
<1> QED
  BY <1>1, <1>2

LEMMA LastUnchanged ==
  ASSUME Used' = Used
  PROVE  last' = last
  BY DEF last, Used

LEMMA RefinesInit == Init => T!Init
<1> SUFFICES ASSUME Init PROVE T!Init
  OBVIOUS
<1>1. table = [i \in {} |-> 0]
  BY DEF Init
<1>2. Used = {}
  BY DEF Init, Used
<1>3. last \in Used \cup {0}
  BY <1>2, InitInv, LastIsMax
<1> QED
  BY <1>1, <1>2, <1>3 DEF T!Init

LEMMA RefinesInsert ==
  ASSUME Inv, Inv', NEW u \in Users, insert(u)
  PROVE  T!Next \/ UNCHANGED <<table, last>>
<1> DEFINE i == unique_id[u]
           row == rq[u].row
           err == row \in Quoted \/ i \in DOMAIN table
<1>1. TypeOK /\ pc[u] = "exec" /\ Generates(rq[u]) /\ deleted' = deleted
  BY DEF Inv, insert, Executed
<1>2. i = meme_count /\ 0 < meme_count /\ meme_count \notin Used /\ meme_count \in Nat
  BY <1>1 DEF Inv, IdsFresh, TypeOK
<1>3. row \in Rows
  BY <1>1, RequestFields DEF Inv, Busy, BadRequest, Generates, TypeOK
<1>4. CASE err
  <2>1. UNCHANGED table
    BY <1>4 DEF insert
  <2>2. Used' = Used
    BY <1>1, <2>1 DEF Used
  <2> QED
    BY <2>1, <2>2, LastUnchanged
<1>5. CASE ~err
  <2>1. table' = [j \in DOMAIN table \cup {i} |-> IF j = i THEN row ELSE table[j]]
    BY <1>5 DEF insert
  <2>2. Used' = Used \cup {i}
    BY <1>1, <2>1 DEF Used
  <2>3. \A j \in Used : j \in Nat /\ j < i
    <3>1. \A j \in Used : j \in Nat
      BY <1>1 DEF Used, TypeOK
    <3>2. \A j \in Used : j <= meme_count /\ j # meme_count
      BY <1>2 DEF Inv, IdsFresh
    <3> QED
      BY <1>2, <3>1, <3>2
  <2>4. last \in Nat /\ last < i
    BY <1>2, <2>3, LastIsMax
  <2>5. last' \in Used' \cup {0} /\ \A j \in Used' \cup {0} : last' >= j
    <3> DEFINE U == Used'
    <3>1. last' = CHOOSE m \in U \cup {0} : \A j \in U \cup {0} : m >= j
      BY DEF last, Max, Used
    <3>2. \E m \in U \cup {0} : \A j \in U \cup {0} : m >= j
      BY DEF Inv, HasLast
    <3> QED
      BY <3>1, <3>2
  <2>6. last' = i
    BY <1>2, <2>2, <2>3, <2>5
  <2>7. i \in last + 1 .. last'
    BY <1>2, <2>4, <2>6
  <2>8. T!Create(i, row)
    BY <2>1, <2>4, <2>6 DEF T!Create
  <2> QED
    BY <1>3, <2>7, <2>8 DEF T!Next
<1> QED
  BY <1>4, <1>5

LEMMA RefinesUpdate ==
  ASSUME Inv, NEW u \in Users, update(u)
  PROVE  T!Next \/ UNCHANGED <<table, last>>
<1> DEFINE i == rq[u].id
           row == rq[u].row
<1>1. TypeOK /\ pc[u] = "exec" /\ Updates(rq[u]) /\ deleted' = deleted
  BY DEF Inv, update, Executed
<1>2. row \in Rows
  BY <1>1, RequestFields DEF Inv, Busy, BadRequest, Updates, TypeOK
<1>3. UNCHANGED table \/ (i \in DOMAIN table /\ table' = [table EXCEPT ![i] = row])
  BY DEF update
<1>4. Used' = Used
  BY <1>1, <1>3 DEF Used
<1>5. last' = last
  BY <1>4, LastUnchanged
<1> QED
  BY <1>2, <1>3, <1>5 DEF T!Next, T!Update

LEMMA RefinesDelete ==
  ASSUME Inv, NEW u \in Users, delete(u)
  PROVE  T!Next \/ UNCHANGED <<table, last>>
<1> DEFINE i == rq[u].id
           gone == {i} \cap DOMAIN table
<1>1. /\ TypeOK /\ table' = [j \in DOMAIN table \ gone |-> table[j]]
      /\ deleted' = deleted \cup gone
  BY DEF Inv, delete
<1>2. Used' = Used
  BY <1>1 DEF Used
<1>3. last' = last
  BY <1>2, LastUnchanged
<1>4. CASE i \in DOMAIN table
  <2>1. gone = {i}
    BY <1>4
  <2>2. T!Delete(i)
    BY <1>1, <1>3, <1>4, <2>1 DEF T!Delete
  <2> QED
    BY <1>4, <2>2 DEF T!Next
<1>5. CASE i \notin DOMAIN table
  <2>1. gone = {}
    BY <1>5
  <2>2. table' = table
    BY <1>1, <2>1 DEF TypeOK
  <2> QED
    BY <1>3, <2>2
<1> QED
  BY <1>4, <1>5

LEMMA RefinesStep ==
  ASSUME Inv, Inv', [Next]_vars
  PROVE  [T!Next]_<<table, last>>
<1>1. ASSUME UNCHANGED <<table, deleted>>
      PROVE  UNCHANGED <<table, last>>
  BY <1>1, LastUnchanged DEF Used
<1>2. ASSUME NEW u \in Users, Step(u)
      PROVE  T!Next \/ UNCHANGED <<table, last>>
  <2>1. CASE lock(u) \/ count(u) \/ name(u) \/ select(u) \/ list(u) \/ reply(u)
    BY <1>1, <2>1 DEF lock, count, name, select, list, reply
  <2> QED
    BY <1>2, <2>1, RefinesInsert, RefinesUpdate, RefinesDelete DEF Step
<1>3. ASSUME NEW u \in Users, NEW r \in Requests, HandleRequest(u, r)
      PROVE  UNCHANGED <<table, last>>
  BY <1>1, <1>3 DEF HandleRequest
<1>4. CASE UNCHANGED vars
  BY <1>1, <1>4 DEF vars
<1> QED
  BY <1>2, <1>3, <1>4 DEF Next

(* The handler implements MemeTable: rows are created under growing ids    *)
(* that are never used twice, and change or disappear one at a time.       *)
THEOREM ImplementsMemeTable == Spec => RefinesMemeTable
  BY Invariance, RefinesInit, RefinesStep, PTL DEF Spec, RefinesMemeTable, T!Spec

=============================================================================
