---------------------------- MODULE CounterProofs ---------------------------
(* The counters of handler_manager and the sums of status reports, for     *)
(* every number of threads, sessions and requests.                         *)
EXTENDS ServerProofs, Induction

-----------------------------------------------------------------------------
(* Sums over finite sets.  Induction is by a smallest counterexample, of   *)
(* which finite sets and natural numbers always have one.                  *)

Pick(s) == CHOOSE x \in s : TRUE

Sum(f, S) == SumFunctionOnSet(f, S)

(* The equation by which a sum is defined.                                 *)
Adds(f, g, S) ==
  g = [s \in SUBSET S |-> IF s = {} THEN 0 ELSE f[Pick(s)] + g[s \ {Pick(s)}]]

LEMMA SumDefinition ==
  ASSUME NEW f, NEW S
  PROVE  Sum(f, S) = (CHOOSE g : Adds(f, g, S))[S]
  BY DEF Sum, SumFunctionOnSet, FoldFunctionOnSet, MapThenFoldSet, Adds, Pick

LEMMA PickType == ASSUME NEW s, s # {} PROVE Pick(s) \in s
  BY DEF Pick

LEMMA AddsExists ==
  ASSUME NEW f, NEW S, IsFiniteSet(S)
  PROVE  \E g : Adds(f, g, S)
<1> DEFINE Rhs(g, s) == IF s = {} THEN 0 ELSE f[Pick(s)] + g[s \ {Pick(s)}]
           Upto(n, g) == /\ g = [s \in SUBSET S |-> g[s]]
                         /\ \A s \in SUBSET S : Cardinality(s) =< n => g[s] = Rhs(g, s)
           bad == {n \in Nat : ~\E g : Upto(n, g)}
<1>1. \A s \in SUBSET S : /\ IsFiniteSet(s) /\ Cardinality(s) \in Nat
                          /\ Cardinality(s) = 0 <=> s = {}
  BY FS_Subset, FS_CardinalityType, FS_EmptySet
<1>2. \A s \in SUBSET S : s # {} =>
        /\ s \ {Pick(s)} \in SUBSET S
        /\ Cardinality(s \ {Pick(s)}) = Cardinality(s) - 1
  BY <1>1, FS_RemoveElement, PickType
<1>3. bad = {}
  <2> SUFFICES ASSUME bad # {} PROVE FALSE
    OBVIOUS
  <2>1. PICK n \in bad : \A m \in bad : n =< m
    BY SmallestNat
  <2>2. CASE n = 0
    <3> DEFINE g == [s \in SUBSET S |-> 0]
    <3>1. Upto(0, g)
      BY <1>1
    <3> QED
      BY <2>2, <3>1
  <2>3. CASE n # 0
    <3>1. n - 1 \in Nat /\ n - 1 \notin bad
      <4> HIDE DEF Upto
      <4>1. n \in Nat /\ ~(n =< n - 1)
        OBVIOUS
      <4> QED
        BY <2>1, <2>3, <4>1
    <3>2. PICK g : Upto(n - 1, g)
      BY <3>1
    <3> DEFINE h == [s \in SUBSET S |-> Rhs(g, s)]
    <3>3. ASSUME NEW s \in SUBSET S, Cardinality(s) =< n
          PROVE  h[s] = Rhs(h, s)
      <4>1. CASE s = {}
        BY <4>1
      <4>2. CASE s # {}
        <5> DEFINE r == s \ {Pick(s)}
        <5>1. r \in SUBSET S /\ Cardinality(r) =< n - 1
          BY <1>1, <1>2, <3>1, <3>3, <4>2
        <5>2. h[r] = Rhs(g, r) /\ g[r] = Rhs(g, r)
          BY <3>2, <5>1
        <5>3. h[s] = f[Pick(s)] + g[r]
          BY <4>2
        <5> HIDE DEF h, r
        <5>4. h[s] = f[Pick(s)] + h[r]
          BY <5>2, <5>3
        <5> QED
          BY <4>2, <5>4 DEF r
      <4> QED
        BY <4>1, <4>2
    <3>4. Upto(n, h)
      <4> HIDE DEF Rhs
      <4>1. h = [s \in SUBSET S |-> h[s]]
        OBVIOUS
      <4> HIDE DEF h
      <4> QED
        BY <3>3, <4>1
    <3> QED
      BY <3>4
  <2> QED
    BY <2>2, <2>3
<1>4. PICK g : Upto(Cardinality(S), g)
  BY <1>1, <1>3
<1>5. \A s \in SUBSET S : Cardinality(s) =< Cardinality(S)
  BY FS_Subset
<1>6. /\ g = [s \in SUBSET S |-> g[s]]
      /\ \A s \in SUBSET S : g[s] = Rhs(g, s)
  BY <1>4, <1>5
<1>7. [s \in SUBSET S |-> g[s]] = [s \in SUBSET S |-> Rhs(g, s)]
  <2> HIDE DEF Rhs
  <2> QED
    BY <1>6
<1> QED
  BY <1>6, <1>7 DEF Adds

LEMMA AddsEquation ==
  ASSUME NEW f, NEW S, NEW g, Adds(f, g, S), NEW s \in SUBSET S
  PROVE  g[s] = IF s = {} THEN 0 ELSE f[Pick(s)] + g[s \ {Pick(s)}]
  BY DEF Adds

LEMMA AddsUnique ==
  ASSUME NEW f, NEW S, IsFiniteSet(S), NEW g, Adds(f, g, S),
         NEW T \in SUBSET S, NEW h, Adds(f, h, T)
  PROVE  g[T] = h[T]
<1> DEFINE bad == {s \in SUBSET T : g[s] # h[s]}
<1> SUFFICES ASSUME bad # {} PROVE FALSE
  OBVIOUS
<1>1. PICK s \in bad : \A u \in SUBSET s : u # s => u \notin bad
  <2>1. IsFiniteSet(T) /\ bad \in SUBSET (SUBSET T)
    BY FS_Subset
  <2> HIDE DEF bad
  <2> QED
    BY <2>1, SmallestSubset
<1>2. s \in SUBSET S /\ s \in SUBSET T
  OBVIOUS
<1>3. CASE s = {}
  BY <1>2, <1>3, AddsEquation, ZenonT(30)
<1>4. CASE s # {}
  <2> DEFINE r == s \ {Pick(s)}
  <2>1. r \in SUBSET s /\ r # s /\ r \in SUBSET T
    BY <1>2, <1>4, PickType
  <2>2. g[r] = h[r]
    BY <1>1, <2>1
  <2>3. g[s] = f[Pick(s)] + g[r] /\ h[s] = f[Pick(s)] + h[r]
    <3>1. g[s] = IF s = {} THEN 0 ELSE f[Pick(s)] + g[s \ {Pick(s)}]
      BY <1>2, AddsEquation
    <3>2. h[s] = IF s = {} THEN 0 ELSE f[Pick(s)] + h[s \ {Pick(s)}]
      BY <1>2, AddsEquation
    <3> QED
      BY <1>4, <3>1, <3>2
  <2> QED
    BY <2>2, <2>3
<1> QED
  BY <1>3, <1>4

(* The sum of nothing, and of a set with one of its members taken out.     *)
LEMMA SumEmpty ==
  ASSUME NEW f
  PROVE  Sum(f, {}) = 0
<1> DEFINE g == CHOOSE g : Adds(f, g, {})
<1>1. Adds(f, g, {})
  BY AddsExists, FS_EmptySet
<1> HIDE DEF g
<1>2. g[{}] = 0
  BY <1>1, AddsEquation
<1> QED
  BY <1>2, SumDefinition DEF g

LEMMA SumIs ==
  ASSUME NEW f, NEW S, IsFiniteSet(S), NEW g, Adds(f, g, S), NEW T \in SUBSET S
  PROVE  Sum(f, T) = g[T]
<1>1. \E h : Adds(f, h, T)
  BY AddsExists, FS_Subset
<1>2. PICK h : Adds(f, h, T) /\ Sum(f, T) = h[T]
  BY <1>1, SumDefinition
<1>3. g[T] = h[T]
  BY <1>2, AddsUnique
<1> QED
  BY <1>2, <1>3

LEMMA SumPick ==
  ASSUME NEW f, NEW S, IsFiniteSet(S), S # {}
  PROVE  Sum(f, S) = f[Pick(S)] + Sum(f, S \ {Pick(S)})
<1>1. PICK g : Adds(f, g, S)
  BY AddsExists
<1>2. Sum(f, S) = g[S] /\ Sum(f, S \ {Pick(S)}) = g[S \ {Pick(S)}]
  BY <1>1, SumIs
<1>3. g[S] = f[Pick(S)] + g[S \ {Pick(S)}]
  BY <1>1, AddsEquation
<1> QED
  BY <1>2, <1>3

LEMMA SumType ==
  ASSUME NEW f, NEW S, IsFiniteSet(S), \A x \in S : f[x] \in Nat
  PROVE  Sum(f, S) \in Nat
<1> DEFINE bad == {s \in SUBSET S : Sum(f, s) \notin Nat}
<1> SUFFICES ASSUME bad # {} PROVE FALSE
  OBVIOUS
<1>1. PICK s \in bad : \A u \in SUBSET s : u # s => u \notin bad
  <2>1. bad \in SUBSET (SUBSET S)
    OBVIOUS
  <2> HIDE DEF bad
  <2> QED
    BY <2>1, SmallestSubset
<1>2. CASE s = {}
  BY <1>2, SumEmpty
<1>3. CASE s # {}
  <2> DEFINE r == s \ {Pick(s)}
  <2>1. r \in SUBSET s /\ r # s /\ r \in SUBSET S /\ Pick(s) \in S
    BY <1>3, PickType
  <2>2. Sum(f, r) \in Nat /\ f[Pick(s)] \in Nat
    BY <1>1, <2>1
  <2>3. Sum(f, s) = f[Pick(s)] + Sum(f, r)
    BY <1>3, SumPick, FS_Subset
  <2> QED
    BY <2>2, <2>3
<1> QED
  BY <1>2, <1>3

(* Any member may be taken out, not only the one that is picked.           *)
LEMMA SumRemove ==
  ASSUME NEW f, NEW S, IsFiniteSet(S), \A x \in S : f[x] \in Nat
  PROVE  \A k \in S : Sum(f, S) = f[k] + Sum(f, S \ {k})
<1> DEFINE bad == {s \in SUBSET S : \E k \in s : Sum(f, s) # f[k] + Sum(f, s \ {k})}
<1> SUFFICES ASSUME bad # {} PROVE FALSE
  OBVIOUS
<1>1. PICK s \in bad : \A u \in SUBSET s : u # s => u \notin bad
  <2>1. bad \in SUBSET (SUBSET S)
    OBVIOUS
  <2> HIDE DEF bad
  <2> QED
    BY <2>1, SmallestSubset
<1>2. PICK k \in s : Sum(f, s) # f[k] + Sum(f, s \ {k})
  OBVIOUS
<1> DEFINE p == Pick(s)
           r == s \ {p}
           q == s \ {k}
<1>3. s \in SUBSET S /\ p \in s
  BY PickType
<1>4. \A u \in SUBSET S : IsFiniteSet(u) /\ Sum(f, u) \in Nat
  BY FS_Subset, SumType
<1>5. Sum(f, s) = f[p] + Sum(f, r)
  BY <1>3, <1>4, SumPick
<1>6. CASE p = k
  BY <1>2, <1>5, <1>6
<1>7. CASE p # k
  <2>1. /\ k \in r /\ r \in SUBSET s /\ r # s /\ r \in SUBSET S
        /\ p \in q /\ q \in SUBSET s /\ q # s /\ q \in SUBSET S
        /\ q \ {p} = r \ {k} /\ r \ {k} \in SUBSET S
    BY <1>3, <1>7
  <2>2. Sum(f, r) = f[k] + Sum(f, r \ {k})
    BY <1>1, <2>1
  <2>3. Sum(f, q) = f[p] + Sum(f, r \ {k})
    <3>1. q \notin bad
      BY <1>1, <2>1
    <3>2. Sum(f, q) = f[p] + Sum(f, q \ {p})
      BY <2>1, <3>1
    <3> QED
      BY <2>1, <3>2
  <2>4. /\ f[p] \in Nat /\ f[k] \in Nat /\ Sum(f, r) \in Nat /\ Sum(f, q) \in Nat
        /\ Sum(f, r \ {k}) \in Nat
    BY <1>3, <1>4, <2>1
  <2> HIDE DEF p, q, r
  <2>5. Sum(f, s) = f[k] + Sum(f, q)
    BY <1>5, <2>2, <2>3, <2>4
  <2> QED
    BY <1>2, <2>5 DEF q
<1> QED
  BY <1>6, <1>7

(* A sum depends on the values in its set only, and grows with them and    *)
(* with the set.                                                           *)
LEMMA SumSame ==
  ASSUME NEW S, IsFiniteSet(S), NEW f, NEW g, \A x \in S : f[x] = g[x]
  PROVE  Sum(f, S) = Sum(g, S)
<1> DEFINE bad == {s \in SUBSET S : Sum(f, s) # Sum(g, s)}
<1> SUFFICES ASSUME bad # {} PROVE FALSE
  OBVIOUS
<1>1. PICK s \in bad : \A u \in SUBSET s : u # s => u \notin bad
  <2>1. bad \in SUBSET (SUBSET S)
    OBVIOUS
  <2> HIDE DEF bad
  <2> QED
    BY <2>1, SmallestSubset
<1>2. CASE s = {}
  BY <1>2, SumEmpty
<1>3. CASE s # {}
  <2> DEFINE r == s \ {Pick(s)}
  <2>1. r \in SUBSET s /\ r # s /\ r \in SUBSET S /\ Pick(s) \in S
    BY <1>3, PickType
  <2>2. Sum(f, r) = Sum(g, r) /\ f[Pick(s)] = g[Pick(s)]
    BY <1>1, <2>1
  <2>3. Sum(f, s) = f[Pick(s)] + Sum(f, r)
    BY <1>3, SumPick, FS_Subset
  <2>4. Sum(g, s) = g[Pick(s)] + Sum(g, r)
    BY <1>3, SumPick, FS_Subset
  <2> QED
    BY <2>2, <2>3, <2>4
<1> QED
  BY <1>2, <1>3

LEMMA SumGrows ==
  ASSUME NEW S, IsFiniteSet(S), NEW f, NEW g, NEW T \in SUBSET S,
         \A x \in T : f[x] \in Nat /\ f[x] =< g[x], \A x \in S : g[x] \in Nat
  PROVE  Sum(f, T) =< Sum(g, S)
<1> DEFINE bad == {s \in SUBSET S : ~(Sum(f, s \cap T) =< Sum(g, s))}
<1>1. bad = {}
  <2> SUFFICES ASSUME bad # {} PROVE FALSE
    OBVIOUS
  <2>1. PICK s \in bad : \A u \in SUBSET s : u # s => u \notin bad
    <3>1. bad \in SUBSET (SUBSET S)
      OBVIOUS
    <3> HIDE DEF bad
    <3> QED
      BY <3>1, SmallestSubset
  <2>2. CASE s = {}
    <3>1. s \cap T = {}
      BY <2>2
    <3>2. Sum(f, {}) = 0 /\ Sum(g, {}) = 0
      BY SumEmpty
    <3> QED
      BY <2>2, <3>1, <3>2
  <2>3. CASE s # {}
    <3> DEFINE k == Pick(s)
               r == s \ {k}
    <3>1. r \in SUBSET s /\ r # s /\ r \in SUBSET S /\ k \in s /\ k \in S
      BY <2>3, PickType
    <3>2. Sum(f, r \cap T) =< Sum(g, r)
      BY <2>1, <3>1
    <3>3. Sum(g, s) = g[k] + Sum(g, r)
      BY <2>3, SumPick, FS_Subset
    <3>4. IsFiniteSet(s \cap T) /\ IsFiniteSet(r \cap T) /\ IsFiniteSet(r)
      BY <3>1, FS_Subset
    <3>5. g[k] \in Nat /\ Sum(g, r) \in Nat
      BY <3>1, <3>4, SumType
    <3>6. Sum(f, r \cap T) \in Nat
      BY <3>4, SumType
    <3>7. CASE k \in T
      <4>1. k \in s \cap T /\ (s \cap T) \ {k} = r \cap T
        BY <3>1, <3>7
      <4>2. \A x \in s \cap T : f[x] \in Nat
        OBVIOUS
      <4>3. Sum(f, s \cap T) = f[k] + Sum(f, (s \cap T) \ {k})
        BY <3>4, <4>1, <4>2, SumRemove
      <4>4. f[k] \in Nat /\ f[k] =< g[k]
        BY <3>7
      <4> HIDE DEF k, r, bad
      <4>5. Sum(f, s \cap T) = f[k] + Sum(f, r \cap T)
        BY <4>1, <4>3
      <4>6. Sum(f, s \cap T) =< Sum(g, s)
        BY <3>2, <3>3, <3>5, <3>6, <4>4, <4>5
      <4> QED
        BY <4>6 DEF bad
    <3>8. CASE k \notin T
      <4>1. s \cap T = r \cap T
        BY <3>8
      <4> HIDE DEF k, r, bad
      <4>2. Sum(f, s \cap T) = Sum(f, r \cap T)
        BY <4>1
      <4>3. Sum(f, s \cap T) =< Sum(g, s)
        BY <3>2, <3>3, <3>5, <3>6, <4>2
      <4> QED
        BY <4>3 DEF bad
    <3> QED
      BY <3>7, <3>8
  <2> QED
    BY <2>2, <2>3
<1>2. Sum(f, S \cap T) =< Sum(g, S)
  BY <1>1
<1>3. S \cap T = T
  OBVIOUS
<1> QED
  BY <1>2, <1>3

(* What a new key and one more request do to the sum of a counter.         *)
LEMMA SumInsert ==
  ASSUME NEW map, NEW S, IsFiniteSet(S), map \in [S -> Nat], NEW k, k \notin S
  PROVE  Sum(With(map, k, 0), S \cup {k}) = Sum(map, S)
<1> DEFINE new == With(map, k, 0)
<1>1. DOMAIN map = S
  OBVIOUS
<1>2. new[k] = 0 /\ \A x \in S : new[x] = map[x] /\ map[x] \in Nat
  BY <1>1 DEF With
<1> HIDE DEF new
<1>3. IsFiniteSet(S \cup {k}) /\ (S \cup {k}) \ {k} = S
  BY FS_AddElement
<1>4. \A x \in S \cup {k} : new[x] \in Nat
  BY <1>2
<1>5. Sum(new, S \cup {k}) = new[k] + Sum(new, (S \cup {k}) \ {k})
  BY <1>3, <1>4, SumRemove
<1>6. Sum(new, S) = Sum(map, S)
  BY <1>2, SumSame
<1>7. Sum(map, S) \in Nat
  BY <1>2, SumType
<1>8. Sum(new, S \cup {k}) = Sum(map, S)
  BY <1>2, <1>3, <1>5, <1>6, <1>7
<1> QED
  BY <1>8 DEF new

LEMMA SumIncrement ==
  ASSUME NEW map, NEW S, IsFiniteSet(S), map \in [S -> Nat], NEW k \in S
  PROVE  Sum([map EXCEPT ![k] = @ + 1], S) = Sum(map, S) + 1
<1> DEFINE new == [map EXCEPT ![k] = @ + 1]
<1>1. new[k] = map[k] + 1 /\ map[k] \in Nat
  OBVIOUS
<1>2. \A x \in S \ {k} : new[x] = map[x] /\ map[x] \in Nat
  OBVIOUS
<1> HIDE DEF new
<1>3. IsFiniteSet(S \ {k})
  BY FS_RemoveElement
<1>4. Sum(map, S) = map[k] + Sum(map, S \ {k})
  BY SumRemove
<1>5. Sum(new, S) = new[k] + Sum(new, S \ {k})
  BY <1>1, <1>2, SumRemove
<1>6. Sum(new, S \ {k}) = Sum(map, S \ {k})
  BY <1>2, <1>3, SumSame
<1>7. Sum(map, S \ {k}) \in Nat
  BY <1>2, <1>3, SumType
<1>8. Sum(new, S) = Sum(map, S) + 1
  BY <1>1, <1>4, <1>5, <1>6, <1>7
<1> QED
  BY <1>8 DEF new

-----------------------------------------------------------------------------
(* Every request that has arrived is in one place                          *)

In(pcs) == {t \in Threads : pc[t] \in pcs}

Waiting == {s \in Sessions : op[s] = "readDone"}

(* Both counters against the replies and the threads on their way to one,  *)
(* and these against the requests that have arrived.  Only finitely many   *)
(* threads and sessions are ever busy, however many there are.             *)
CountInv ==
  /\ IsFiniteSet(DOMAIN url_counter)
  /\ IsFiniteSet(In(InHandleRead)) /\ IsFiniteSet(Waiting)
  /\ \A t \in Threads : pc[t] = "url" => req[t].path \in DOMAIN url_counter
  /\ Sum(url_counter, DOMAIN url_counter) = sent + Cardinality(In({"code", "write"}))
  /\ Sum(code_counter, DOMAIN code_counter) = sent + Cardinality(In({"write"}))
  /\ arrived = sent + Cardinality(In(InHandleRead)) + Cardinality(Waiting)

LEMMA CountInit == Init => CountInv
<1> SUFFICES ASSUME Init PROVE CountInv
  OBVIOUS
<1>1. \A P : "idle" \notin P => In(P) = {}
  BY DEF Init, In
<1>2. Waiting = {} /\ DOMAIN url_counter = {} /\ DOMAIN code_counter = {}
  BY DEF Init, Waiting, EmptyMap
<1>3. In(InHandleRead) = {} /\ In({"code", "write"}) = {} /\ In({"write"}) = {}
  BY <1>1, Labels
<1>4. \A t \in Threads : pc[t] # "url"
  BY DEF Init
<1>5. sent = 0 /\ arrived = 0
  BY DEF Init
<1>6. Sum(url_counter, {}) = 0 /\ Sum(code_counter, {}) = 0
  BY SumEmpty
<1>7. IsFiniteSet({}) /\ Cardinality({}) = 0
  BY FS_EmptySet
<1>8. /\ IsFiniteSet(In(InHandleRead)) /\ Cardinality(In(InHandleRead)) = 0
      /\ Cardinality(In({"code", "write"})) = 0 /\ Cardinality(In({"write"})) = 0
      /\ IsFiniteSet(Waiting) /\ Cardinality(Waiting) = 0
      /\ IsFiniteSet(DOMAIN url_counter)
      /\ Sum(url_counter, DOMAIN url_counter) = 0
      /\ Sum(code_counter, DOMAIN code_counter) = 0
  BY <1>2, <1>3, <1>6, <1>7, Zenon
<1> QED
  BY <1>4, <1>5, <1>8 DEF CountInv

LEMMA BusySets ==
  ASSUME CountInv
  PROVE  /\ \A P \in SUBSET InHandleRead : IsFiniteSet(In(P)) /\ Cardinality(In(P)) \in Nat
         /\ Cardinality(Waiting) \in Nat
<1>1. \A P \in SUBSET InHandleRead : In(P) \in SUBSET In(InHandleRead)
  BY DEF In
<1> QED
  BY <1>1, FS_Subset, FS_CardinalityType DEF CountInv

LEMMA Busy ==
  ASSUME CountInv
  PROVE  /\ IsFiniteSet(In(InHandleRead)) /\ IsFiniteSet(In({"code", "write"}))
         /\ IsFiniteSet(In({"write"}))
         /\ Cardinality(In(InHandleRead)) \in Nat
         /\ Cardinality(In({"code", "write"})) \in Nat
         /\ Cardinality(In({"write"})) \in Nat /\ Cardinality(Waiting) \in Nat
  BY BusySets, Labels

(* A thread that moves.                                                    *)
LEMMA MoveIn ==
  ASSUME TypeOK, NEW t \in Threads, NEW to, pc' = [pc EXCEPT ![t] = to], NEW P
  PROVE  In(P)' = IF to \in P THEN In(P) \cup {t} ELSE In(P) \ {t}
<1>1. pc'[t] = to /\ \A u \in Threads : u # t => pc'[u] = pc[u]
  BY DEF TypeOK, ThreadTypes
<1> QED
  BY <1>1 DEF In

(* Steps that neither count nor start nor finish a request.                *)
LEMMA CountFrame ==
  ASSUME CountInv, UNCHANGED <<url_counter, code_counter, sent, arrived>>,
         Waiting' = Waiting,
         \A u \in Threads : /\ pc'[u] \in InHandleRead <=> pc[u] \in InHandleRead
                            /\ pc'[u] = "code" <=> pc[u] = "code"
                            /\ pc'[u] = "write" <=> pc[u] = "write"
                            /\ pc'[u] = "url" => pc[u] = "url" /\ req'[u] = req[u]
  PROVE  CountInv'
<1>1. In(InHandleRead)' = In(InHandleRead)
  BY DEF In
<1>2. In({"code", "write"})' = In({"code", "write"}) /\ In({"write"})' = In({"write"})
  BY DEF In
<1>3. \A t \in Threads : pc'[t] = "url" => req'[t].path \in DOMAIN url_counter'
  <2>1. \A t \in Threads : pc[t] = "url" => req[t].path \in DOMAIN url_counter
    BY DEF CountInv
  <2> QED
    BY <2>1
<1> QED
  BY <1>1, <1>2, <1>3 DEF CountInv

LEMMA CountEnvironment ==
  ASSUME TypeOK, CountInv, Environment
  PROVE  CountInv'
<1>1. CASE ClientConnects \/ AcceptFails
  BY <1>1, CountFrame DEF ClientConnects, AcceptFails, threadVars, counterVars, socketVars, Waiting
<1>2. ASSUME NEW s \in Sessions, NEW r \in Requests, ReadCompletes(s, r)
      PROVE  CountInv'
  <2>1. /\ s \notin Waiting /\ Waiting' = Waiting \cup {s} /\ arrived' = arrived + 1
        /\ UNCHANGED <<url_counter, code_counter, sent, pc, req>>
    BY <1>2 DEF ReadCompletes, Waiting, TypeOK, SocketTypes, threadVars, counterVars
  <2>2. IsFiniteSet(Waiting') /\ Cardinality(Waiting') = Cardinality(Waiting) + 1
    BY <2>1, FS_AddElement DEF CountInv
  <2>3. \A P : In(P)' = In(P)
    BY <2>1 DEF In
  <2>4. arrived' = sent + Cardinality(In(InHandleRead)) + Cardinality(Waiting')
    BY <2>1, <2>2, Busy DEF CountInv, TypeOK, ProcessTypes
  <2> QED
    BY <2>1, <2>2, <2>3, <2>4 DEF CountInv
<1>3. ASSUME NEW s \in Sessions, ReadFails(s) \/ WriteFails(s) \/ PeerLeaves(s)
      PROVE  CountInv'
  <2>1. Waiting' = Waiting
    BY <1>3 DEF ReadFails, WriteFails, PeerLeaves, Waiting, TypeOK, SocketTypes
  <2> QED
    BY <1>3, <2>1, CountFrame DEF ReadFails, WriteFails, PeerLeaves, threadVars, counterVars
<1>4. ASSUME NEW s \in Sessions, NEW t \in Threads, write_some(t, s)
      PROVE  CountInv'
  <2>1. Waiting' = Waiting
    BY <1>4 DEF write_some, Waiting, TypeOK, SocketTypes
  <2> QED
    BY <1>4, <2>1, CountFrame DEF write_some, threadVars, counterVars
<1>5. ASSUME NEW t \in Threads, UpstreamAnswers(t)
      PROVE  CountInv'
  BY <1>5, CountFrame, Labels DEF UpstreamAnswers, At, TypeOK, ThreadTypes, counterVars,
     socketVars, Waiting
<1> QED
  BY <1>1, <1>2, <1>3, <1>4, <1>5 DEF Environment

LEMMA CountProcess ==
  ASSUME CountInv, Process \/ UNCHANGED vars
  PROVE  CountInv'
<1>1. UNCHANGED <<url_counter, code_counter, sent, arrived, pc, req, op>>
  BY DEF Process, init, kill, main_returns, got_signal, vars, threadVars, socketVars, counterVars
<1> QED
  BY <1>1, CountFrame DEF Waiting

(* The steps of a thread that does not count.                              *)
LEMMA CountOther ==
  ASSUME Inv, CountInv, NEW t \in Threads,
         \/ handle_accept(t) \/ handle_accept_error(t) \/ get_remote_ip(t)
         \/ get_remote_ip_throws(t) \/ createByName(t) \/ HandleRequest(t)
         \/ getServerResponse(t) \/ start_report(t) \/ end_loop(t)
         \/ torn_iterator_crashes(t) \/ handle_read_returns(t)
         \/ \E k \in DOMAIN url_counter \cup DOMAIN code_counter : visit(t, k)
  PROVE  CountInv'
<1> USE DEF Inv, TypeOK, ThreadTypes, counterVars
<1>1. CASE handle_accept(t)
  <2>1. Waiting' = Waiting
    <3>1. op' = [op EXCEPT ![new_session] = "reading"] /\ accept = "ready"
      BY <1>1 DEF handle_accept
    <3>2. op[new_session] = "none"
      BY <3>1 DEF AcceptInv, SessionInv, ProcessTypes
    <3> QED
      BY <3>1, <3>2 DEF Waiting, SocketTypes
  <2> QED
    BY <1>1, <2>1, CountFrame, Labels DEF handle_accept, Idle
<1>2. CASE handle_accept_error(t) \/ get_remote_ip_throws(t) \/ torn_iterator_crashes(t)
  BY <1>2, CountFrame DEF handle_accept_error, get_remote_ip_throws, torn_iterator_crashes,
     threadVars, socketVars, Waiting
<1>3. CASE get_remote_ip(t)
  BY <1>3, CountFrame, Labels DEF get_remote_ip, At, Waiting
<1>4. CASE createByName(t) \/ HandleRequest(t) \/ getServerResponse(t) \/ start_report(t)
  BY <1>4, CountFrame, Labels DEF createByName, HandleRequest, getServerResponse,
     start_report, At, socketVars, Waiting
<1>5. CASE end_loop(t)
  BY <1>5, CountFrame, Labels DEF end_loop, AfterLoop, At, socketVars, Waiting
<1>6. CASE handle_read_returns(t)
  <2>1. /\ pc[t] = "unlock" /\ pc' = [pc EXCEPT ![t] = "idle"]
        /\ req' = [req EXCEPT ![t] = None]
        /\ UNCHANGED <<op, url_counter, code_counter, sent, arrived>>
    BY <1>6 DEF handle_read_returns, At
  <2>2. \A u \in Threads : pc'[u] # pc[u] => pc'[u] = "idle" /\ pc[u] = "unlock"
    BY <2>1
  <2>3. \A u \in Threads : req'[u] # req[u] => pc'[u] = "idle"
    BY <2>1
  <2> QED
    BY <2>1, <2>2, <2>3, CountFrame, Labels DEF Waiting
<1>7. ASSUME NEW k, visit(t, k)
      PROVE  CountInv'
  BY <1>7, CountFrame DEF visit, socketVars, Waiting
<1> QED
  BY <1>1, <1>2, <1>3, <1>4, <1>5, <1>6, <1>7

(* handle_read takes a request that has arrived off its session.           *)
LEMMA CountRead ==
  ASSUME TypeOK, CountInv, NEW t \in Threads, NEW s \in Sessions, handle_read(t, s)
  PROVE  CountInv'
<1>1. PICK to \in {"create", "lock"} : pc' = [pc EXCEPT ![t] = to]
  BY DEF handle_read
<1>2. /\ pc[t] = "idle" /\ op[s] = "readDone" /\ op' = [op EXCEPT ![s] = "none"]
      /\ req' = [req EXCEPT ![t] = inbox[s]]
      /\ UNCHANGED <<url_counter, code_counter, sent, arrived>>
  BY DEF handle_read, Idle, counterVars
<1>3. s \in Waiting /\ Waiting' = Waiting \ {s}
  BY <1>2 DEF Waiting, TypeOK, SocketTypes
<1>4. IsFiniteSet(Waiting') /\ Cardinality(Waiting') = Cardinality(Waiting) - 1
  BY <1>3, FS_RemoveElement DEF CountInv
<1>5. t \notin In(InHandleRead) /\ In(InHandleRead)' = In(InHandleRead) \cup {t}
  <2>1. t \notin In(InHandleRead)
    BY <1>2, Labels DEF In
  <2> QED
    BY <1>1, <2>1, MoveIn, Labels
<1>6. /\ IsFiniteSet(In(InHandleRead)')
      /\ Cardinality(In(InHandleRead)') = Cardinality(In(InHandleRead)) + 1
  BY <1>5, FS_AddElement DEF CountInv
<1>7. In({"code", "write"})' = In({"code", "write"}) /\ In({"write"})' = In({"write"})
  BY <1>1, <1>2 DEF In, TypeOK, ThreadTypes
<1>8. \A u \in Threads : pc'[u] = "url" => req'[u].path \in DOMAIN url_counter'
  BY <1>1, <1>2 DEF CountInv, TypeOK, ThreadTypes
<1>9. arrived' = sent' + Cardinality(In(InHandleRead)') + Cardinality(Waiting')
  BY <1>2, <1>4, <1>6, Busy DEF CountInv, TypeOK, ProcessTypes
<1> QED
  BY <1>2, <1>4, <1>6, <1>7, <1>8, <1>9 DEF CountInv

(* The completion handlers that end or re-arm a session.                   *)
LEMMA CountHandlers ==
  ASSUME TypeOK, CountInv, NEW t \in Threads, NEW s \in Sessions,
         handle_read_error(t, s) \/ handle_write(t, s) \/ handle_write_error(t, s)
  PROVE  CountInv'
<1>1. Waiting' = Waiting
  BY DEF handle_read_error, handle_write, handle_write_error, Waiting, TypeOK, SocketTypes
<1> QED
  BY <1>1, CountFrame DEF handle_read_error, handle_write, handle_write_error,
     threadVars, counterVars

LEMMA CodesFinite == IsFiniteSet(Codes)
<1>1. IsFiniteSet({0})
  BY FS_Singleton
<1>2. IsFiniteSet({0} \cup {200})
  BY <1>1, FS_AddElement
<1>3. IsFiniteSet(({0} \cup {200}) \cup {400})
  BY <1>2, FS_AddElement
<1>4. IsFiniteSet((({0} \cup {200}) \cup {400}) \cup {404})
  BY <1>3, FS_AddElement
<1>5. Codes = (({0} \cup {200}) \cup {400}) \cup {404}
  BY DEF Codes
<1> QED
  BY <1>4, <1>5

(* Both counters are finite maps to numbers.                               *)
LEMMA FiniteCounters ==
  ASSUME TypeOK, CountInv
  PROVE  /\ IsFiniteSet(DOMAIN url_counter) /\ url_counter \in [DOMAIN url_counter -> Nat]
         /\ IsFiniteSet(DOMAIN code_counter) /\ code_counter \in [DOMAIN code_counter -> Nat]
  BY CodesFinite, FS_Subset DEF TypeOK, CounterTypes, IsCounter, CountInv

(* Inserting a key with count 0 leaves the sum of a counter alone, one     *)
(* more request under a key that is there adds one to it.                  *)
LEMMA InsertCounts ==
  ASSUME NEW map, IsFiniteSet(DOMAIN map), map \in [DOMAIN map -> Nat],
         NEW k, k \notin DOMAIN map
  PROVE  /\ DOMAIN With(map, k, 0) = DOMAIN map \cup {k}
         /\ IsFiniteSet(DOMAIN With(map, k, 0))
         /\ Sum(With(map, k, 0), DOMAIN With(map, k, 0)) = Sum(map, DOMAIN map)
<1>1. DOMAIN With(map, k, 0) = DOMAIN map \cup {k}
  BY DEF With
<1>2. IsFiniteSet(DOMAIN map \cup {k})
  BY FS_AddElement
<1>3. Sum(With(map, k, 0), DOMAIN map \cup {k}) = Sum(map, DOMAIN map)
  BY SumInsert
<1> QED
  BY <1>1, <1>2, <1>3, Zenon

LEMMA IncrementCounts ==
  ASSUME NEW map, IsFiniteSet(DOMAIN map), map \in [DOMAIN map -> Nat],
         NEW k \in DOMAIN map
  PROVE  /\ DOMAIN [map EXCEPT ![k] = @ + 1] = DOMAIN map
         /\ Sum([map EXCEPT ![k] = @ + 1], DOMAIN map) = Sum(map, DOMAIN map) + 1
<1>1. DOMAIN [map EXCEPT ![k] = @ + 1] = DOMAIN map
  OBVIOUS
<1>2. Sum([map EXCEPT ![k] = @ + 1], DOMAIN map) = Sum(map, DOMAIN map) + 1
  BY SumIncrement
<1> QED
  BY <1>1, <1>2

LEMMA CountLock ==
  ASSUME TypeOK, CountInv, NEW t \in Threads, lock_count(t)
  PROVE  CountInv'
<1>1. /\ pc[t] = "lock" /\ pc' = [pc EXCEPT ![t] = "url"]
      /\ UNCHANGED <<op, req, code_counter, sent, arrived>>
  BY DEF lock_count, At, socketVars
<1>2. Waiting' = Waiting
  BY <1>1 DEF Waiting
<1>3. /\ In(InHandleRead)' = In(InHandleRead)
      /\ In({"code", "write"})' = In({"code", "write"}) /\ In({"write"})' = In({"write"})
  BY <1>1, Labels DEF In, TypeOK, ThreadTypes
<1>4. /\ DOMAIN url_counter' = DOMAIN url_counter \cup {req[t].path}
      /\ IsFiniteSet(DOMAIN url_counter')
      /\ Sum(url_counter', DOMAIN url_counter') = Sum(url_counter, DOMAIN url_counter)
  <2>1. CASE req[t].path \in DOMAIN url_counter
    <3>1. url_counter' = url_counter
      BY <2>1 DEF lock_count
    <3> QED
      BY <2>1, <3>1, FiniteCounters
  <2>2. CASE req[t].path \notin DOMAIN url_counter
    <3>1. url_counter' = With(url_counter, req[t].path, 0)
      BY <2>2 DEF lock_count
    <3> QED
      BY <2>2, <3>1, FiniteCounters, InsertCounts
  <2> QED
    BY <2>1, <2>2
<1>5. \A u \in Threads : pc'[u] = "url" => req'[u].path \in DOMAIN url_counter'
  BY <1>1, <1>4 DEF CountInv, TypeOK, ThreadTypes
<1> QED
  BY <1>1, <1>2, <1>3, <1>4, <1>5 DEF CountInv

LEMMA CountUrl ==
  ASSUME TypeOK, CountInv, NEW t \in Threads, count_url(t)
  PROVE  CountInv'
<1>1. /\ pc[t] = "url" /\ pc' = [pc EXCEPT ![t] = "code"]
      /\ url_counter' = [url_counter EXCEPT ![req[t].path] = @ + 1]
      /\ UNCHANGED <<op, req, code_counter, sent, arrived>>
  BY DEF count_url, At, socketVars
<1>2. Waiting' = Waiting
  BY <1>1 DEF Waiting
<1>3. /\ In(InHandleRead)' = In(InHandleRead) /\ In({"write"})' = In({"write"})
      /\ t \notin In({"code", "write"})
      /\ In({"code", "write"})' = In({"code", "write"}) \cup {t}
  BY <1>1, Labels DEF In, TypeOK, ThreadTypes
<1>4. Cardinality(In({"code", "write"})') = Cardinality(In({"code", "write"})) + 1
  BY <1>3, Busy, FS_AddElement
<1>5. /\ DOMAIN url_counter' = DOMAIN url_counter
      /\ Sum(url_counter', DOMAIN url_counter) = Sum(url_counter, DOMAIN url_counter) + 1
  <2>1. req[t].path \in DOMAIN url_counter
    BY <1>1 DEF CountInv
  <2> QED
    BY <1>1, <2>1, FiniteCounters, IncrementCounts
<1>6. Sum(url_counter', DOMAIN url_counter') = sent' + Cardinality(In({"code", "write"})')
  BY <1>1, <1>4, <1>5, Busy DEF CountInv, TypeOK, ProcessTypes
<1>7. \A u \in Threads : pc'[u] = "url" => req'[u].path \in DOMAIN url_counter'
  BY <1>1, <1>5 DEF CountInv, TypeOK, ThreadTypes
<1>8. IsFiniteSet(DOMAIN url_counter')
  BY <1>5 DEF CountInv
<1> QED
  BY <1>1, <1>2, <1>3, <1>6, <1>7, <1>8 DEF CountInv

LEMMA CountInsertCode ==
  ASSUME TypeOK, CountInv, NEW t \in Threads, insert_code(t)
  PROVE  CountInv'
<1>1. /\ code[t] \notin DOMAIN code_counter
      /\ code_counter' = With(code_counter, code[t], 0)
      /\ UNCHANGED <<op, pc, req, url_counter, sent, arrived>>
  BY DEF insert_code, At, socketVars
<1>2. Waiting' = Waiting /\ \A P : In(P)' = In(P)
  BY <1>1 DEF Waiting, In
<1>3. Sum(code_counter', DOMAIN code_counter') = Sum(code_counter, DOMAIN code_counter)
  BY <1>1, FiniteCounters, InsertCounts
<1> QED
  BY <1>1, <1>2, <1>3 DEF CountInv

LEMMA CountCode ==
  ASSUME TypeOK, CountInv, NEW t \in Threads, count_code(t)
  PROVE  CountInv'
<1>1. /\ pc[t] = "code" /\ pc' = [pc EXCEPT ![t] = "write"]
      /\ code[t] \in DOMAIN code_counter
      /\ code_counter' = [code_counter EXCEPT ![code[t]] = @ + 1]
      /\ UNCHANGED <<op, req, url_counter, sent, arrived>>
  BY DEF count_code, At, socketVars
<1>2. Waiting' = Waiting
  BY <1>1 DEF Waiting
<1>3. /\ In(InHandleRead)' = In(InHandleRead)
      /\ In({"code", "write"})' = In({"code", "write"})
      /\ t \notin In({"write"}) /\ In({"write"})' = In({"write"}) \cup {t}
  BY <1>1, Labels DEF In, TypeOK, ThreadTypes
<1>4. Cardinality(In({"write"})') = Cardinality(In({"write"})) + 1
  BY <1>3, Busy, FS_AddElement
<1>5. /\ DOMAIN code_counter' = DOMAIN code_counter
      /\ Sum(code_counter', DOMAIN code_counter) = Sum(code_counter, DOMAIN code_counter) + 1
  BY <1>1, FiniteCounters, IncrementCounts
<1>6. Sum(code_counter', DOMAIN code_counter') = sent' + Cardinality(In({"write"})')
  BY <1>1, <1>4, <1>5, Busy DEF CountInv, TypeOK, ProcessTypes
<1>7. \A u \in Threads : pc'[u] = "url" => req'[u].path \in DOMAIN url_counter'
  BY <1>1 DEF CountInv, TypeOK, ThreadTypes
<1> QED
  BY <1>1, <1>2, <1>3, <1>6, <1>7 DEF CountInv

LEMMA CountWrite ==
  ASSUME Inv, CountInv, NEW t \in Threads, async_write(t)
  PROVE  CountInv'
<1>1. /\ pc[t] = "write" /\ pc' = [pc EXCEPT ![t] = "unlock"] /\ sent' = sent + 1
      /\ UNCHANGED <<req, url_counter, code_counter, arrived>>
  BY DEF async_write, At, counterVars
<1>2. Waiting' = Waiting
  <2>1. cur[t] \in Sessions /\ op[cur[t]] = "none"
    BY <1>1, Labels DEF Inv, SessionInv, OneHandlerPerSession, Serves
  <2>2. PICK new \in {"writeError", "writeDone", "writing"} : op' = [op EXCEPT ![cur[t]] = new]
    BY DEF async_write
  <2> QED
    BY <2>1, <2>2 DEF Waiting, Inv, TypeOK, SocketTypes
<1>3. /\ t \in In(InHandleRead) /\ In(InHandleRead)' = In(InHandleRead) \ {t}
      /\ t \in In({"code", "write"}) /\ In({"code", "write"})' = In({"code", "write"}) \ {t}
      /\ t \in In({"write"}) /\ In({"write"})' = In({"write"}) \ {t}
  BY <1>1, Labels DEF In, Inv, TypeOK, ThreadTypes
<1>4. /\ IsFiniteSet(In(InHandleRead)')
      /\ Cardinality(In(InHandleRead)') = Cardinality(In(InHandleRead)) - 1
      /\ Cardinality(In({"code", "write"})') = Cardinality(In({"code", "write"})) - 1
      /\ Cardinality(In({"write"})') = Cardinality(In({"write"})) - 1
  BY <1>3, Busy, FS_RemoveElement
<1>5. /\ Sum(url_counter, DOMAIN url_counter) = sent' + Cardinality(In({"code", "write"})')
      /\ Sum(code_counter, DOMAIN code_counter) = sent' + Cardinality(In({"write"})')
      /\ arrived = sent' + Cardinality(In(InHandleRead)') + Cardinality(Waiting)
  <2>1. sent \in Nat
    BY DEF Inv, TypeOK, ProcessTypes
  <2> QED
    BY <1>1, <1>4, <2>1, Busy DEF CountInv
<1>6. \A u \in Threads : pc'[u] = "url" => req'[u].path \in DOMAIN url_counter'
  BY <1>1 DEF CountInv, Inv, TypeOK, ThreadTypes
<1> QED
  BY <1>1, <1>2, <1>4, <1>5, <1>6 DEF CountInv

LEMMA CountNext == Inv /\ CountInv /\ [Next]_vars => CountInv'
<1> SUFFICES ASSUME Inv, CountInv, [Next]_vars PROVE CountInv'
  OBVIOUS
<1> USE DEF Inv
<1>1. CASE Process \/ UNCHANGED vars
  BY <1>1, CountProcess
<1>2. CASE Environment
  BY <1>2, CountEnvironment
<1>3. ASSUME NEW t \in Threads, Thread(t)
      PROVE  CountInv'
  <2>1. CASE lock_count(t) \/ count_url(t) \/ insert_code(t) \/ count_code(t) \/ async_write(t)
    BY <2>1, CountLock, CountUrl, CountInsertCode, CountCode, CountWrite
  <2>2. ASSUME NEW s \in Sessions,
               \/ handle_read_error(t, s) \/ handle_read(t, s)
               \/ handle_write(t, s) \/ handle_write_error(t, s)
        PROVE  CountInv'
    BY <2>2, CountRead, CountHandlers
  <2> QED
    BY <1>3, <2>1, <2>2, CountOther DEF Thread
<1> QED
  BY <1>1, <1>2, <1>3 DEF Next

LEMMA CountInvariance == Spec => [](Inv /\ CountInv)
<1>1. Init => CountInv
  BY CountInit
<1>2. Inv /\ CountInv /\ [Next]_vars => CountInv'
  BY CountNext
<1> QED
  BY <1>1, <1>2, Invariance, PTL DEF Spec

(* Each reply given to async_write has been counted once in each map of    *)
(* handler_manager, and only threads between the count and the write       *)
(* account for a difference, whatever the number of threads.               *)
THEOREM RepliesCounted == Spec => []CountsMatchReplies
<1>1. CountInv => CountsMatchReplies
  BY DEF CountInv, CountsMatchReplies, In, Sum, SumFunction
<1> QED
  BY <1>1, CountInvariance, PTL

-----------------------------------------------------------------------------
(* The counters only grow                                                  *)

Counts(t) == lock_count(t) \/ count_url(t) \/ insert_code(t) \/ count_code(t)

LEMMA OnlyCountsChange ==
  ASSUME [Next]_vars, ~\E t \in Threads : Counts(t)
  PROVE  UNCHANGED counterVars
<1>1. CASE Process \/ UNCHANGED vars
  BY <1>1 DEF Process, init, kill, main_returns, got_signal, vars, counterVars
<1>2. CASE Environment
  BY <1>2 DEF Environment, ClientConnects, AcceptFails, ReadCompletes, ReadFails, WriteFails,
     PeerLeaves, write_some, UpstreamAnswers
<1>3. ASSUME NEW t \in Threads, Thread(t)
      PROVE  UNCHANGED counterVars
  <2>1. ASSUME NEW s \in Sessions,
               \/ handle_read_error(t, s) \/ handle_read(t, s)
               \/ handle_write(t, s) \/ handle_write_error(t, s)
        PROVE  UNCHANGED counterVars
    BY <2>1 DEF handle_read_error, handle_read, handle_write, handle_write_error
  <2>2. ASSUME NEW k, visit(t, k)
        PROVE  UNCHANGED counterVars
    BY <2>2 DEF visit
  <2>3. CASE \/ handle_accept(t) \/ handle_accept_error(t) \/ get_remote_ip(t)
             \/ get_remote_ip_throws(t) \/ createByName(t) \/ HandleRequest(t)
             \/ getServerResponse(t)
    BY <2>3 DEF handle_accept, handle_accept_error, get_remote_ip, get_remote_ip_throws,
       createByName, HandleRequest, getServerResponse
  <2>4. CASE \/ start_report(t) \/ end_loop(t) \/ torn_iterator_crashes(t)
             \/ async_write(t) \/ handle_read_returns(t)
    BY <2>4 DEF start_report, end_loop, torn_iterator_crashes, async_write, handle_read_returns
  <2> QED
    BY <1>3, <2>1, <2>2, <2>3, <2>4 DEF Thread, Counts
<1> QED
  BY <1>1, <1>2, <1>3 DEF Next

LEMMA InsertGrows ==
  ASSUME NEW map, NEW k, k \notin DOMAIN map
  PROVE  Grows(map, With(map, k, 0))
  BY DEF Grows, With

LEMMA IncrementGrows ==
  ASSUME NEW map, map \in [DOMAIN map -> Nat], NEW k \in DOMAIN map
  PROVE  Grows(map, [map EXCEPT ![k] = @ + 1])
  BY DEF Grows

LEMMA CountersStep ==
  ASSUME Inv, CountInv, [Next]_vars
  PROVE  /\ url_counter' # url_counter => Grows(url_counter, url_counter')
         /\ code_counter' # code_counter => Grows(code_counter, code_counter')
         /\ counterVars' # counterVars => mtx' # None \/ mtx # None
<1>1. CASE ~\E t \in Threads : Counts(t)
  BY <1>1, OnlyCountsChange DEF counterVars
<1>2. ASSUME NEW t \in Threads, Counts(t)
      PROVE  /\ url_counter' # url_counter => Grows(url_counter, url_counter')
             /\ code_counter' # code_counter => Grows(code_counter, code_counter')
             /\ mtx' # None \/ mtx # None
  <2>1. CASE lock_count(t)
    BY <2>1, InsertGrows, NoneAssumption DEF lock_count, lock
  <2>2. CASE count_url(t)
    <3>1. req[t].path \in DOMAIN url_counter /\ mtx = t
      BY <2>2 DEF count_url, At, CountInv, Inv, MutexInv, Holding
    <3>2. url_counter \in [DOMAIN url_counter -> Nat]
      BY FiniteCounters DEF Inv
    <3> QED
      BY <2>2, <3>1, <3>2, IncrementGrows, NoneAssumption DEF count_url
  <2>3. CASE insert_code(t) \/ count_code(t)
    <3>1. mtx = t
      BY <2>3 DEF insert_code, count_code, At, Inv, MutexInv, Holding
    <3>2. code_counter \in [DOMAIN code_counter -> Nat]
      BY FiniteCounters DEF Inv
    <3>3. CASE insert_code(t)
      BY <3>1, <3>3, InsertGrows, NoneAssumption DEF insert_code
    <3>4. CASE count_code(t)
      BY <3>1, <3>2, <3>4, IncrementGrows, NoneAssumption DEF count_code
    <3> QED
      BY <2>3, <3>3, <3>4
  <2> QED
    BY <1>2, <2>1, <2>2, <2>3 DEF Counts
<1> QED
  BY <1>1, <1>2

(* A counter of handler_manager changes only by one key and by one, and    *)
(* only while mtx is held: no update is lost, whatever the interleaving.   *)
THEOREM CountersOnlyGrow == Spec => CountersGrow
<1> DEFINE Step == /\ url_counter' # url_counter => Grows(url_counter, url_counter')
                   /\ code_counter' # code_counter => Grows(code_counter, code_counter')
                   /\ counterVars' # counterVars => mtx' # None \/ mtx # None
<1>1. Inv /\ CountInv /\ [Next]_vars => [Step]_vars
  BY CountersStep
<1>2. CountersGrow <=> [][Step]_vars
  BY DEF CountersGrow
<1> HIDE DEF Step
<1>3. Spec => [][Step]_vars
  BY <1>1, CountInvariance, PTL DEF Spec
<1> QED
  BY <1>2, <1>3

-----------------------------------------------------------------------------
(* Status reports                                                          *)

(* The keys the loop of a report has been through; Ahead(t) are the rest.  *)
Behind(t) == {k \in DOMAIN Counter(pc[t]) : k <= rep[t].it}

Seen(t) == Sum(Counter(pc[t]), Behind(t))
ToCome(t) == Sum(Counter(pc[t]), Ahead(t))

(* What holds inside each of the three loops of a report that no insertion *)
(* has torn.                                                               *)
LoopInv(t) ==
  /\ pc[t] = "total" =>
       /\ rep[t].before <= sum[t].total + ToCome(t)
       /\ sum[t].total <= Seen(t) /\ sum[t].urls = 0 /\ sum[t].codes = 0
  /\ pc[t] = "urls" =>
       /\ rep[t].before <= sum[t].total
       /\ sum[t].total <= sum[t].urls + ToCome(t)
       /\ sum[t].urls <= Seen(t) /\ sum[t].codes = 0
  /\ pc[t] = "codes" =>
       /\ rep[t].before <= sum[t].total /\ sum[t].total <= sum[t].urls
       /\ sum[t].urls <= sum[t].codes + ToCome(t) + 1
       /\ sum[t].codes <= Seen(t)

DoneInv(t) ==
  Reported(t) =>
    /\ rep[t].before <= sum[t].total /\ sum[t].total <= sum[t].urls
    /\ sum[t].urls <= sum[t].codes + 1 /\ sum[t].codes <= arrived

BeforeReport == {"idle", "remote_ip", "create", "handle", "upstream"}

ReportOf(t) ==
  /\ pc[t] \in BeforeReport => sum[t] = NoSums
  /\ pc[t] = "upstream" => Class(t) = "proxy"
  /\ rep[t].harm = "none" => LoopInv(t) /\ DoneInv(t)

ReportInv == \A t \in Threads : ReportOf(t)

LEMMA ReportInit == Init => ReportInv
  BY DEF Init, ReportInv, ReportOf, LoopInv, DoneInv, Reported

(* Steps that leave a thread outside its loops and without a report.       *)
LEMMA ReportQuiet ==
  ASSUME NEW t \in Threads, pc'[t] \notin Loops, ~Reported(t)',
         pc'[t] \in BeforeReport => sum'[t] = NoSums,
         pc'[t] = "upstream" => Class(t)' = "proxy"
  PROVE  ReportOf(t)'
  BY Labels DEF ReportOf, LoopInv, DoneInv

(* Steps of a thread that has made its report and counts its own request.  *)
LEMMA ReportGoesOn ==
  ASSUME NEW t \in Threads, ReportOf(t),
         pc[t] \in {"lock", "url", "code", "write"}, pc'[t] \in {"lock", "url", "code", "write"},
         req'[t] = req[t], sum'[t] = sum[t], rep'[t] = rep[t], arrived' = arrived
  PROVE  ReportOf(t)'
  BY DEF ReportOf, LoopInv, DoneInv, Reported, Class, BeforeReport

(* The counter a loop goes through is a finite map of natural numbers.     *)
LEMMA LoopCounter ==
  ASSUME TypeOK, CountInv, NEW l
  PROVE  /\ Counter(l) \in [DOMAIN Counter(l) -> Nat]
         /\ IsFiniteSet(DOMAIN Counter(l))
         /\ DOMAIN Counter(l) \subseteq Nat
  BY FiniteCounters DEF Counter, TypeOK, CounterTypes, IsCounter, Codes

LEMMA LoopSums ==
  ASSUME TypeOK, CountInv, NEW t \in Threads
  PROVE  /\ IsFiniteSet(Ahead(t)) /\ IsFiniteSet(Behind(t))
         /\ ToCome(t) \in Nat /\ Seen(t) \in Nat
         /\ \A k \in DOMAIN Counter(pc[t]) : Counter(pc[t])[k] \in Nat
<1>1. Ahead(t) \subseteq DOMAIN Counter(pc[t]) /\ Behind(t) \subseteq DOMAIN Counter(pc[t])
  BY DEF Ahead, Behind
<1>2. \A k \in DOMAIN Counter(pc[t]) : Counter(pc[t])[k] \in Nat
  BY LoopCounter
<1>3. IsFiniteSet(Ahead(t)) /\ IsFiniteSet(Behind(t))
  BY <1>1, LoopCounter, FS_Subset
<1>4. ToCome(t) \in Nat /\ Seen(t) \in Nat
  BY <1>1, <1>2, <1>3, SumType DEF ToCome, Seen
<1> QED
  BY <1>2, <1>3, <1>4

Wider(old, new) ==
  DOMAIN old \subseteq DOMAIN new /\ \A k \in DOMAIN old : old[k] <= new[k]

LEMMA GrowsWider ==
  ASSUME NEW old, old \in [DOMAIN old -> Nat], NEW new, Grows(old, new)
  PROVE  Wider(old, new)
<1>1. PICK k \in DOMAIN new : /\ DOMAIN new = DOMAIN old \cup {k}
                              /\ new[k] = IF k \in DOMAIN old THEN old[k] + 1 ELSE 0
                              /\ \A j \in DOMAIN old \ {k} : new[j] = old[j]
  BY DEF Grows
<1>2. \A j \in DOMAIN old : old[j] \in Nat
  OBVIOUS
<1>3. \A j \in DOMAIN old : old[j] <= new[j]
  BY <1>1, <1>2
<1> QED
  BY <1>1, <1>3 DEF Wider

LEMMA CountersWider ==
  ASSUME Inv, CountInv, [Next]_vars, NEW l
  PROVE  Wider(Counter(l), Counter(l)')
<1>1. \A m : m \in [DOMAIN m -> Nat] => Wider(m, m)
  <2> SUFFICES ASSUME NEW m, m \in [DOMAIN m -> Nat] PROVE Wider(m, m)
    OBVIOUS
  <2>1. \A k \in DOMAIN m : m[k] \in Nat
    OBVIOUS
  <2> QED
    BY <2>1 DEF Wider
<1>2. Wider(url_counter, url_counter')
  BY <1>1, CountersStep, FiniteCounters, GrowsWider DEF Inv
<1>3. Wider(code_counter, code_counter')
  BY <1>1, CountersStep, FiniteCounters, GrowsWider DEF Inv
<1> QED
  BY <1>2, <1>3 DEF Counter

(* While a loop stands still, what it has seen and what is to come grow.   *)
LEMMA LoopSumsGrow ==
  ASSUME Inv, CountInv, [Next]_vars, TypeOK', CountInv', NEW t \in Threads,
         pc'[t] = pc[t], rep'[t] = rep[t]
  PROVE  Seen(t) <= Seen(t)' /\ ToCome(t) <= ToCome(t)'
<1> PICK l : l = pc[t]
  OBVIOUS
<1> DEFINE m == Counter(l)
           n == Counter(l)'
<1>1. Counter(pc[t])' = n
  BY DEF Counter
<1>2. DOMAIN m \subseteq DOMAIN n /\ \A k \in DOMAIN m : m[k] \in Nat /\ m[k] <= n[k]
  BY CountersWider, LoopSums DEF Wider, Inv
<1>3. IsFiniteSet(DOMAIN n) /\ \A k \in DOMAIN n : n[k] \in Nat
  <2>1. /\ url_counter' \in [DOMAIN url_counter' -> Nat] /\ IsFiniteSet(DOMAIN url_counter')
        /\ code_counter' \in [DOMAIN code_counter' -> Nat] /\ IsFiniteSet(DOMAIN code_counter')
    BY CodesFinite, FS_Subset DEF TypeOK, CounterTypes, IsCounter, CountInv
  <2> QED
    BY <2>1 DEF Counter
<1> DEFINE a == Ahead(t)
           b == Ahead(t)'
           c == Behind(t)
           d == Behind(t)'
<1>4. /\ a \subseteq DOMAIN m /\ b \subseteq DOMAIN n /\ a \subseteq b
      /\ c \subseteq DOMAIN m /\ d \subseteq DOMAIN n /\ c \subseteq d
  BY <1>1, <1>2 DEF Ahead, Behind
<1>5. IsFiniteSet(b) /\ IsFiniteSet(d)
  BY <1>3, <1>4, FS_Subset
<1>6. Seen(t) = Sum(m, c) /\ ToCome(t) = Sum(m, a)
  BY DEF Seen, ToCome
<1>7. Seen(t)' = Sum(n, d) /\ ToCome(t)' = Sum(n, b)
  BY <1>1 DEF Seen, ToCome
<1> HIDE DEF m, n, a, b, c, d
<1>8. Sum(m, a) <= Sum(n, b)
  BY <1>2, <1>3, <1>4, <1>5, SumGrows
<1>9. Sum(m, c) <= Sum(n, d)
  BY <1>2, <1>3, <1>4, <1>5, SumGrows
<1> QED
  BY <1>6, <1>7, <1>8, <1>9

(* What other threads do to the report of a thread that stands still.      *)
LEMMA ReportFrame ==
  ASSUME Inv, CountInv, [Next]_vars, TypeOK', CountInv', NEW t \in Threads, ReportOf(t),
         pc'[t] = pc[t], req'[t] = req[t], sum'[t] = sum[t],
         rep'[t] = rep[t] \/ rep'[t].harm # "none", arrived <= arrived'
  PROVE  ReportOf(t)'
<1>1. /\ pc'[t] \in BeforeReport => sum'[t] = NoSums
      /\ pc'[t] = "upstream" => Class(t)' = "proxy"
  BY DEF ReportOf, Class
<1>2. CASE rep'[t].harm # "none"
  BY <1>1, <1>2 DEF ReportOf
<1>3. CASE rep'[t] = rep[t] /\ rep[t].harm = "none"
  <2>1. Seen(t) <= Seen(t)' /\ ToCome(t) <= ToCome(t)'
    BY <1>3, LoopSumsGrow
  <2>2. Seen(t) \in Nat /\ ToCome(t) \in Nat
    BY LoopSums DEF Inv
  <2>3. (Seen(t) \in Nat /\ ToCome(t) \in Nat)'
    <3>1. \A k \in DOMAIN Counter(pc[t])' : Counter(pc[t])'[k] \in Nat
      BY CodesFinite, FS_Subset DEF TypeOK, CounterTypes, IsCounter, CountInv, Counter
    <3>2. IsFiniteSet(DOMAIN Counter(pc[t])')
      BY CodesFinite, FS_Subset DEF TypeOK, CounterTypes, IsCounter, CountInv, Counter
    <3>3. Ahead(t)' \subseteq DOMAIN Counter(pc[t])' /\ Behind(t)' \subseteq DOMAIN Counter(pc[t])'
      BY DEF Ahead, Behind
    <3>4. IsFiniteSet(Ahead(t)') /\ IsFiniteSet(Behind(t)')
      BY <3>2, <3>3, FS_Subset
    <3> QED
      BY <3>1, <3>3, <3>4, SumType DEF Seen, ToCome
  <2>4. /\ sum[t].total \in Nat /\ sum[t].urls \in Nat /\ sum[t].codes \in Nat
        /\ rep[t].before \in Nat /\ arrived \in Nat /\ arrived' \in Nat
    BY Labels DEF Inv, TypeOK, ThreadTypes, ProcessTypes, Reports
  <2>5. LoopInv(t) /\ DoneInv(t)
    BY <1>3 DEF ReportOf
  <2>6. LoopInv(t)'
    BY <1>3, <2>1, <2>2, <2>3, <2>4, <2>5 DEF LoopInv
  <2>7. DoneInv(t)'
    BY <1>3, <2>4, <2>5 DEF DoneInv, Reported, Class
  <2> QED
    BY <1>1, <2>6, <2>7 DEF ReportOf
<1> QED
  BY <1>1, <1>2, <1>3 DEF ReportOf

LEMMA OthersKeep ==
  ASSUME TypeOK, NEW t \in Threads, Thread(t), NEW u \in Threads, u # t
  PROVE  /\ pc'[u] = pc[u] /\ req'[u] = req[u] /\ sum'[u] = sum[u]
         /\ rep'[u] = rep[u] \/ rep'[u].harm # "none"
<1> USE DEF TypeOK, ThreadTypes
<1>1. \A loops : Tear(loops)[u] = rep[u] \/ Tear(loops)[u].harm = "torn"
  BY DEF Tear, Reports
<1>2. CASE lock_count(t) \/ insert_code(t)
  BY <1>1, <1>2 DEF lock_count, insert_code
<1>3. CASE count_url(t) \/ count_code(t) \/ async_write(t) \/ handle_read_returns(t)
  BY <1>3 DEF count_url, count_code, async_write, handle_read_returns
<1>4. ASSUME NEW s \in Sessions,
             \/ handle_read_error(t, s) \/ handle_read(t, s)
             \/ handle_write(t, s) \/ handle_write_error(t, s)
      PROVE  pc'[u] = pc[u] /\ req'[u] = req[u] /\ sum'[u] = sum[u] /\ rep'[u] = rep[u]
  BY <1>4 DEF handle_read_error, handle_read, handle_write, handle_write_error, threadVars
<1>5. ASSUME NEW k, visit(t, k)
      PROVE  pc'[u] = pc[u] /\ req'[u] = req[u] /\ sum'[u] = sum[u] /\ rep'[u] = rep[u]
  BY <1>5 DEF visit
<1>6. CASE \/ handle_accept(t) \/ handle_accept_error(t) \/ get_remote_ip(t)
           \/ get_remote_ip_throws(t) \/ createByName(t) \/ HandleRequest(t)
           \/ getServerResponse(t)
  BY <1>6 DEF handle_accept, handle_accept_error, get_remote_ip, get_remote_ip_throws,
     createByName, HandleRequest, getServerResponse, threadVars
<1>7. CASE start_report(t) \/ end_loop(t) \/ torn_iterator_crashes(t)
  BY <1>7 DEF start_report, end_loop, torn_iterator_crashes, threadVars
<1> QED
  BY <1>2, <1>3, <1>4, <1>5, <1>6, <1>7 DEF Thread

(* One round of a loop moves one count from what is to come to the sum.    *)
LEMMA VisitSums ==
  ASSUME TypeOK, CountInv, NEW t \in Threads, NEW k, visit(t, k), rep[t].harm = "none"
  PROVE  /\ Counter(pc[t])[k] \in Nat /\ ToCome(t)' \in Nat
         /\ ToCome(t) = Counter(pc[t])[k] + ToCome(t)'
         /\ Seen(t)' = Counter(pc[t])[k] + Seen(t)
<1> DEFINE m == Counter(pc[t])
<1>1. /\ k \in DOMAIN m /\ k \in Ahead(t) /\ \A j \in Ahead(t) : k <= j
      /\ UNCHANGED <<pc, url_counter, code_counter>>
      /\ rep' = [rep EXCEPT ![t] = Move(@, k)]
  BY DEF visit, counterVars
<1>2. rep'[t].it = k /\ rep[t].it \in Int
  BY <1>1 DEF Move, TypeOK, ThreadTypes, Reports
<1>3. Counter(pc[t])' = m
  BY <1>1 DEF Counter
<1>4. /\ Ahead(t) = {j \in DOMAIN m : j > rep[t].it} /\ Ahead(t)' = {j \in DOMAIN m : j > k}
      /\ Behind(t) = {j \in DOMAIN m : j <= rep[t].it} /\ Behind(t)' = {j \in DOMAIN m : j <= k}
  BY <1>2, <1>3 DEF Ahead, Behind
<1>5. DOMAIN m \subseteq Nat
  BY LoopCounter
<1>6. IsFiniteSet(Ahead(t)) /\ IsFiniteSet(Behind(t)) /\ \A j \in DOMAIN m : m[j] \in Nat
  BY LoopSums
<1>7. /\ ToCome(t) = Sum(m, Ahead(t)) /\ ToCome(t)' = Sum(m, Ahead(t)')
      /\ Seen(t) = Sum(m, Behind(t)) /\ Seen(t)' = Sum(m, Behind(t)')
  BY <1>3 DEF ToCome, Seen
<1> HIDE DEF m
<1>8. Ahead(t)' = Ahead(t) \ {k}
  BY <1>1, <1>2, <1>4, <1>5
<1>9. /\ Behind(t)' = Behind(t) \cup {k} /\ k \in Behind(t)' /\ Behind(t)' \ {k} = Behind(t)
      /\ Behind(t) \subseteq DOMAIN m /\ Ahead(t) \subseteq DOMAIN m
  BY <1>1, <1>2, <1>4, <1>5
<1>10. Sum(m, Ahead(t)) = m[k] + Sum(m, Ahead(t) \ {k})
  BY <1>1, <1>6, <1>9, SumRemove
<1>11. IsFiniteSet(Behind(t)')
  BY <1>6, <1>9, FS_AddElement
<1>12. Sum(m, Behind(t)') = m[k] + Sum(m, Behind(t)' \ {k})
  BY <1>1, <1>6, <1>9, <1>11, SumRemove
<1>13. Sum(m, Ahead(t)') = Sum(m, Ahead(t) \ {k}) /\ Sum(m, Behind(t)' \ {k}) = Sum(m, Behind(t))
  BY <1>8, <1>9
<1>14. m[k] \in Nat /\ Sum(m, Ahead(t)') \in Nat
  <2>1. IsFiniteSet(Ahead(t) \ {k}) /\ \A j \in Ahead(t) \ {k} : m[j] \in Nat
    BY <1>6, <1>9, FS_RemoveElement
  <2>2. Sum(m, Ahead(t) \ {k}) \in Nat
    BY <2>1, SumType
  <2> QED
    BY <1>1, <1>6, <1>13, <2>2
<1> QED
  BY <1>7, <1>10, <1>12, <1>13, <1>14 DEF m

LEMMA ReportVisit ==
  ASSUME Inv, CountInv, NEW t \in Threads, ReportOf(t), NEW k, visit(t, k)
  PROVE  ReportOf(t)'
<1>1. /\ pc' = pc /\ pc[t] \in Loops
      /\ sum' = [sum EXCEPT ![t][pc[t]] = @ + Counter(pc[t])[k]]
      /\ rep' = [rep EXCEPT ![t] = Move(@, k)]
  BY DEF visit, At
<1>2. /\ rep'[t].before = rep[t].before /\ rep[t].before \in Nat
      /\ rep'[t].harm = "none" => rep[t].harm = "none"
  BY <1>1 DEF Move, Inv, TypeOK, ThreadTypes, Reports
<1>3. pc[t] \notin BeforeReport /\ ~Reported(t)'
  BY <1>1, Labels DEF BeforeReport, Reported
<1>4. CASE rep'[t].harm # "none"
  BY <1>1, <1>3, <1>4 DEF ReportOf, BeforeReport
<1>5. CASE rep[t].harm = "none"
  <2> DEFINE c == Counter(pc[t])[k]
  <2>1. /\ c \in Nat /\ ToCome(t)' \in Nat /\ ToCome(t) = c + ToCome(t)'
        /\ Seen(t)' = c + Seen(t) /\ Seen(t) \in Nat
    BY <1>5, VisitSums, LoopSums DEF Inv
  <2>2. sum[t] \in [Loops -> Nat] /\ sum'[t] = [sum[t] EXCEPT ![pc[t]] = @ + c]
    BY <1>1 DEF Inv, TypeOK, ThreadTypes
  <2>3. LoopInv(t)
    BY <1>5 DEF ReportOf
  <2> HIDE DEF c
  <2>4. CASE pc[t] = "total"
    <3>1. sum'[t].total = sum[t].total + c /\ sum'[t].urls = sum[t].urls
          /\ sum'[t].codes = sum[t].codes /\ sum[t].total \in Nat
      BY <2>2, <2>4, Labels
    <3> QED
      BY <1>1, <1>2, <1>3, <2>1, <2>3, <2>4, <3>1 DEF ReportOf, LoopInv, DoneInv
  <2>5. CASE pc[t] = "urls"
    <3>1. sum'[t].total = sum[t].total /\ sum'[t].urls = sum[t].urls + c
          /\ sum'[t].codes = sum[t].codes /\ sum[t].total \in Nat /\ sum[t].urls \in Nat
      BY <2>2, <2>5, Labels
    <3> QED
      BY <1>1, <1>2, <1>3, <2>1, <2>3, <2>5, <3>1 DEF ReportOf, LoopInv, DoneInv
  <2>6. CASE pc[t] = "codes"
    <3>1. sum'[t].total = sum[t].total /\ sum'[t].urls = sum[t].urls
          /\ sum'[t].codes = sum[t].codes + c /\ sum[t].urls \in Nat /\ sum[t].codes \in Nat
      BY <2>2, <2>6, Labels
    <3> QED
      BY <1>1, <1>2, <1>3, <2>1, <2>3, <2>6, <3>1 DEF ReportOf, LoopInv, DoneInv
  <2> QED
    BY <1>1, <2>4, <2>5, <2>6, Labels
<1> QED
  BY <1>2, <1>4, <1>5

(* How far the two counters are apart: by the one request that has been    *)
(* counted under its url and not yet under its code.                       *)
LEMMA CodeLag ==
  ASSUME Inv, CountInv
  PROVE  /\ Sum(url_counter, DOMAIN url_counter) \in Nat
         /\ Sum(code_counter, DOMAIN code_counter) \in Nat
         /\ sent <= Sum(url_counter, DOMAIN url_counter)
         /\ Sum(url_counter, DOMAIN url_counter) <= Sum(code_counter, DOMAIN code_counter) + 1
         /\ Sum(code_counter, DOMAIN code_counter) <= arrived
<1>1. sent \in Nat
  BY DEF Inv, TypeOK, ProcessTypes
<1>2. Cardinality(In({"code", "write"})) <= Cardinality(In({"write"})) + 1
  <2>1. CASE In({"code"}) = {}
    <3>1. In({"code", "write"}) = In({"write"})
      BY <2>1 DEF In
    <3>2. Cardinality(In({"code", "write"})) = Cardinality(In({"write"}))
      BY <3>1
    <3> QED
      BY <3>2, Busy
  <2>2. ASSUME NEW t \in Threads, pc[t] = "code"
        PROVE  Cardinality(In({"code", "write"})) <= Cardinality(In({"write"})) + 1
    <3>1. \A u \in Threads : pc[u] = "code" => u = t
      BY <2>2 DEF Inv, MutexInv, Holding
    <3>2. In({"code", "write"}) = In({"write"}) \cup {t} /\ t \notin In({"write"})
      BY <2>2, <3>1 DEF In
    <3>3. Cardinality(In({"write"}) \cup {t}) = Cardinality(In({"write"})) + 1
      BY <3>2, Busy, FS_AddElement
    <3>4. Cardinality(In({"code", "write"})) = Cardinality(In({"write"})) + 1
      BY <3>2, <3>3
    <3> QED
      BY <3>4, Busy
  <2> QED
    BY <2>1, <2>2 DEF In
<1>3. Cardinality(In({"write"})) <= Cardinality(In(InHandleRead))
  <2>1. In({"write"}) \in SUBSET In(InHandleRead)
    BY Labels DEF In
  <2> QED
    BY <2>1, Busy, FS_Subset
<1> QED
  BY <1>1, <1>2, <1>3, Busy DEF CountInv

(* A loop that starts has everything to come, one that ends has seen all.  *)
LEMMA FreshLoop ==
  ASSUME TypeOK, CountInv, UNCHANGED <<url_counter, code_counter>>, NEW t \in Threads,
         NEW l, pc'[t] = l, rep'[t].it = -1
  PROVE  ToCome(t)' = Sum(Counter(l), DOMAIN Counter(l)) /\ Seen(t)' = 0
<1> DEFINE m == Counter(l)
<1>1. Counter(pc[t])' = m
  BY DEF Counter
<1>2. DOMAIN m \subseteq Nat
  BY LoopCounter
<1> HIDE DEF m
<1>3. Ahead(t)' = DOMAIN m /\ Behind(t)' = {}
  BY <1>1, <1>2 DEF Ahead, Behind
<1>4. Sum(m, {}) = 0
  BY SumEmpty
<1>5. ToCome(t)' = Sum(m, DOMAIN m) /\ Seen(t)' = 0
  <2>1. ToCome(t)' = Sum(m, Ahead(t)') /\ Seen(t)' = Sum(m, Behind(t)')
    BY <1>1 DEF ToCome, Seen
  <2> QED
    BY <1>3, <1>4, <2>1
<1> QED
  BY <1>5 DEF m

LEMMA FinishedLoop ==
  ASSUME TypeOK, CountInv, NEW t \in Threads, Ahead(t) = {}
  PROVE  ToCome(t) = 0 /\ Seen(t) = Sum(Counter(pc[t]), DOMAIN Counter(pc[t]))
<1> DEFINE m == Counter(pc[t])
<1>1. DOMAIN m \subseteq Nat
  BY LoopCounter
<1>2. rep[t].it \in Int
  BY DEF TypeOK, ThreadTypes, Reports
<1>3. Behind(t) = DOMAIN m
  BY <1>1, <1>2 DEF Ahead, Behind
<1>4. ToCome(t) = 0
  BY SumEmpty DEF ToCome
<1>5. Seen(t) = Sum(m, Behind(t))
  BY DEF Seen
<1> HIDE DEF m
<1>6. Seen(t) = Sum(m, DOMAIN m)
  BY <1>3, <1>5
<1> QED
  BY <1>4, <1>6 DEF m

LEMMA ReportStarts ==
  ASSUME Inv, CountInv, NEW t \in Threads, ReportOf(t), start_report(t)
  PROVE  ReportOf(t)'
<1>1. /\ pc'[t] = "total" /\ rep'[t] = [NoReport EXCEPT !.before = sent] /\ sum' = sum
      /\ pc[t] = "handle" /\ UNCHANGED <<url_counter, code_counter>>
  BY DEF start_report, At, counterVars, Inv, TypeOK, ThreadTypes
<1>2. sum[t] = NoSums
  BY <1>1 DEF ReportOf, BeforeReport
<1>3. rep'[t].it = -1 /\ rep'[t].before = sent
  BY <1>1 DEF NoReport
<1>4. /\ ToCome(t)' = Sum(url_counter, DOMAIN url_counter) /\ Seen(t)' = 0
  BY <1>1, <1>3, FreshLoop DEF Inv, Counter
<1>5. sum'[t].total = 0 /\ sum'[t].urls = 0 /\ sum'[t].codes = 0
  BY <1>1, <1>2, Labels DEF NoSums
<1>6. LoopInv(t)'
  BY <1>1, <1>3, <1>4, <1>5, CodeLag DEF LoopInv
<1> QED
  BY <1>1, <1>6 DEF ReportOf, BeforeReport, DoneInv, Reported

LEMMA ReportEnds ==
  ASSUME Inv, CountInv, NEW t \in Threads, ReportOf(t), end_loop(t)
  PROVE  ReportOf(t)'
<1>1. /\ pc[t] \in Loops /\ pc'[t] = AfterLoop[pc[t]] /\ sum' = sum /\ req' = req
      /\ rep' = [rep EXCEPT ![t] = Move(@, -1)] /\ arrived' = arrived
      /\ UNCHANGED <<url_counter, code_counter>>
      /\ rep[t].harm = "torn" \/ Ahead(t) = {}
  BY DEF end_loop, At, counterVars, Inv, TypeOK, ThreadTypes
<1>2. /\ rep'[t].before = rep[t].before /\ rep[t].before \in Nat /\ rep'[t].it = -1
      /\ rep'[t].harm = "none" => rep[t].harm = "none"
  BY <1>1 DEF Move, Inv, TypeOK, ThreadTypes, Reports
<1>3. pc'[t] \in {"urls", "codes", "lock"}
  BY <1>1, Labels DEF AfterLoop
<1>4. CASE rep'[t].harm # "none"
  BY <1>3, <1>4 DEF ReportOf, BeforeReport
<1>5. CASE rep[t].harm = "none"
  <2>1. LoopInv(t)
    BY <1>5 DEF ReportOf
  <2>2. ToCome(t) = 0 /\ Seen(t) = Sum(Counter(pc[t]), DOMAIN Counter(pc[t]))
    BY <1>1, <1>5, FinishedLoop DEF Inv
  <2>3. sum[t].total \in Nat /\ sum[t].urls \in Nat /\ sum[t].codes \in Nat
    BY Labels DEF Inv, TypeOK, ThreadTypes
  <2>4. CASE pc[t] = "total"
    <3>1. pc'[t] = "urls"
      BY <1>1, <2>4 DEF AfterLoop
    <3>2. /\ ToCome(t)' = Sum(url_counter, DOMAIN url_counter) /\ Seen(t)' = 0
          /\ Seen(t) = Sum(url_counter, DOMAIN url_counter)
      BY <1>1, <1>2, <2>2, <2>4, <3>1, FreshLoop DEF Inv, Counter
    <3>3. LoopInv(t)'
      BY <1>1, <1>2, <2>1, <2>2, <2>3, <2>4, <3>1, <3>2, CodeLag DEF LoopInv
    <3> QED
      BY <3>1, <3>3 DEF ReportOf, BeforeReport, DoneInv, Reported
  <2>5. CASE pc[t] = "urls"
    <3>1. pc'[t] = "codes"
      BY <1>1, <2>5 DEF AfterLoop
    <3>2. /\ ToCome(t)' = Sum(code_counter, DOMAIN code_counter) /\ Seen(t)' = 0
          /\ Seen(t) = Sum(url_counter, DOMAIN url_counter)
      BY <1>1, <1>2, <2>2, <2>5, <3>1, FreshLoop DEF Inv, Counter
    <3>3. LoopInv(t)'
      BY <1>1, <1>2, <2>1, <2>2, <2>3, <2>5, <3>1, <3>2, CodeLag DEF LoopInv
    <3> QED
      BY <3>1, <3>3 DEF ReportOf, BeforeReport, DoneInv, Reported
  <2>6. CASE pc[t] = "codes"
    <3>1. pc'[t] = "lock"
      BY <1>1, <2>6 DEF AfterLoop
    <3>2. Seen(t) = Sum(code_counter, DOMAIN code_counter) /\ arrived \in Nat
      BY <2>2, <2>6 DEF Counter, Inv, TypeOK, ProcessTypes
    <3>3. DoneInv(t)'
      BY <1>1, <1>2, <2>1, <2>2, <2>3, <2>6, <3>2, CodeLag DEF LoopInv, DoneInv
    <3> QED
      BY <3>1, <3>3 DEF ReportOf, BeforeReport, LoopInv
  <2> QED
    BY <1>1, <2>4, <2>5, <2>6, Labels
<1> QED
  BY <1>2, <1>4, <1>5

(* The steps of a thread, seen from its own report.                        *)
LEMMA ReportThread ==
  ASSUME Inv, CountInv, NEW t \in Threads, ReportOf(t), Thread(t)
  PROVE  ReportOf(t)'
<1> USE DEF Inv, TypeOK, ThreadTypes, At, Idle
<1>1. CASE \/ handle_accept(t) \/ get_remote_ip(t) \/ createByName(t)
           \/ getServerResponse(t) \/ handle_read_returns(t)
  <2>1. pc'[t] \in BeforeReport /\ sum'[t] = NoSums
    BY <1>1 DEF handle_accept, get_remote_ip, createByName, getServerResponse,
       handle_read_returns, ReportOf, BeforeReport
  <2>2. pc'[t] = "upstream" => Class(t)' = "proxy"
    BY <1>1 DEF handle_accept, get_remote_ip, createByName, getServerResponse,
       handle_read_returns, Class
  <2>3. pc'[t] \notin Loops /\ ~Reported(t)'
    BY <2>1, Labels DEF BeforeReport, Reported
  <2> QED
    BY <2>1, <2>2, <2>3, ReportQuiet
<1>2. CASE handle_accept_error(t) \/ get_remote_ip_throws(t) \/ torn_iterator_crashes(t)
  <2>1. UNCHANGED <<threadVars, counterVars, arrived>>
    BY <1>2 DEF handle_accept_error, get_remote_ip_throws, torn_iterator_crashes
  <2> QED
    BY <2>1 DEF ReportOf, LoopInv, DoneInv, Seen, ToCome, Ahead, Behind, Counter, Reported,
       Class, threadVars, counterVars
<1>3. CASE HandleRequest(t)
  <2>1. pc'[t] = "lock" /\ ~Reported(t)'
    BY <1>3 DEF HandleRequest, Reported, Class, HandlerCodes
  <2> QED
    BY <2>1, ReportQuiet, Labels DEF BeforeReport
<1>4. CASE start_report(t) \/ end_loop(t)
  BY <1>4, ReportStarts, ReportEnds
<1>5. ASSUME NEW k, visit(t, k)
      PROVE  ReportOf(t)'
  BY <1>5, ReportVisit
<1>6. CASE lock_count(t) \/ count_url(t) \/ insert_code(t) \/ count_code(t)
  <2>1. rep'[t] = rep[t]
    BY <1>6 DEF lock_count, count_url, insert_code, count_code, Tear
  <2> QED
    BY <1>6, <2>1, ReportGoesOn DEF lock_count, count_url, insert_code, count_code
<1>7. CASE async_write(t)
  <2>1. pc'[t] = "unlock"
    BY <1>7 DEF async_write
  <2> QED
    BY <2>1, ReportQuiet, Labels DEF BeforeReport, Reported
<1>8. ASSUME NEW s \in Sessions, handle_read(t, s)
      PROVE  ReportOf(t)'
  <2>1. /\ pc[t] = "idle" /\ sum' = sum /\ req'[t] = inbox[s]
        /\ \/ inbox[s].valid /\ pc'[t] = "create"
           \/ ~inbox[s].valid /\ pc'[t] = "lock"
    BY <1>8 DEF handle_read
  <2>2. sum'[t] = NoSums /\ ~Reported(t)' /\ pc'[t] \in {"create", "lock"}
    BY <2>1 DEF ReportOf, BeforeReport, Reported
  <2> QED
    BY <2>2, ReportQuiet, Labels
<1>9. ASSUME NEW s \in Sessions,
             handle_read_error(t, s) \/ handle_write(t, s) \/ handle_write_error(t, s)
      PROVE  ReportOf(t)'
  <2>1. UNCHANGED <<threadVars, counterVars, arrived>>
    BY <1>9 DEF handle_read_error, handle_write, handle_write_error
  <2> QED
    BY <2>1 DEF ReportOf, LoopInv, DoneInv, Seen, ToCome, Ahead, Behind, Counter, Reported,
       Class, threadVars, counterVars
<1> QED
  BY <1>1, <1>2, <1>3, <1>4, <1>5, <1>6, <1>7, <1>8, <1>9 DEF Thread

LEMMA ReportEnvironment ==
  ASSUME Inv, CountInv, Environment, TypeOK', CountInv', ReportInv
  PROVE  ReportInv'
<1> SUFFICES ASSUME NEW u \in Threads PROVE ReportOf(u)'
  BY DEF ReportInv
<1>1. ReportOf(u)
  BY DEF ReportInv
<1>2. [Next]_vars
  BY DEF Next
<1>3. ASSUME NEW t \in Threads, UpstreamAnswers(t)
      PROVE  ReportOf(u)'
  <2>1. CASE u = t
    <3>1. pc[t] = "upstream" /\ pc'[t] = "lock" /\ req' = req
      BY <1>3 DEF UpstreamAnswers, At, Inv, TypeOK, ThreadTypes
    <3>2. ~Reported(t)'
      BY <1>1, <2>1, <3>1 DEF ReportOf, Reported, Class
    <3> QED
      BY <2>1, <3>1, <3>2, ReportQuiet, Labels DEF BeforeReport
  <2>2. CASE u # t
    BY <1>1, <1>2, <1>3, <2>2, ReportFrame DEF UpstreamAnswers, Inv, TypeOK, ThreadTypes,
       ProcessTypes
  <2> QED
    BY <2>1, <2>2
<1>4. CASE UNCHANGED threadVars
  <2>1. arrived <= arrived'
    BY DEF Environment, ClientConnects, AcceptFails, ReadCompletes, ReadFails, WriteFails,
       PeerLeaves, write_some, UpstreamAnswers, Inv, TypeOK, ProcessTypes
  <2> QED
    BY <1>1, <1>2, <1>4, <2>1, ReportFrame DEF threadVars
<1> QED
  BY <1>3, <1>4 DEF Environment, ClientConnects, AcceptFails, ReadCompletes, ReadFails,
     WriteFails, PeerLeaves, write_some

LEMMA ReportNext == Inv /\ CountInv /\ Inv' /\ CountInv' /\ ReportInv /\ [Next]_vars => ReportInv'
<1> SUFFICES ASSUME Inv, CountInv, Inv', CountInv', ReportInv, [Next]_vars, NEW u \in Threads
             PROVE  ReportOf(u)'
  BY DEF ReportInv
<1>1. ReportOf(u) /\ TypeOK'
  BY DEF ReportInv, Inv
<1>2. CASE Process \/ UNCHANGED vars
  <2>1. UNCHANGED <<pc, req, sum, rep, arrived>>
    BY <1>2 DEF Process, init, kill, main_returns, got_signal, vars, threadVars
  <2>2. arrived <= arrived'
    BY <2>1 DEF Inv, TypeOK, ProcessTypes
  <2> QED
    BY <1>1, <2>1, <2>2, ReportFrame
<1>3. CASE Environment
  BY <1>1, <1>3, ReportEnvironment DEF ReportInv
<1>4. ASSUME NEW t \in Threads, Thread(t)
      PROVE  ReportOf(u)'
  <2>1. CASE u = t
    BY <1>1, <1>4, <2>1, ReportThread
  <2>2. CASE u # t
    <3>1. arrived' = arrived
      BY <1>4 DEF Thread, handle_accept, handle_accept_error, get_remote_ip,
         get_remote_ip_throws, createByName, HandleRequest, getServerResponse, start_report,
         end_loop, torn_iterator_crashes, visit, lock_count, count_url, insert_code,
         count_code, async_write, handle_read_returns, handle_read_error, handle_read,
         handle_write, handle_write_error
    <3>2. arrived <= arrived'
      BY <3>1 DEF Inv, TypeOK, ProcessTypes
    <3>3. /\ pc'[u] = pc[u] /\ req'[u] = req[u] /\ sum'[u] = sum[u]
          /\ rep'[u] = rep[u] \/ rep'[u].harm # "none"
      BY <1>4, <2>2, OthersKeep DEF Inv
    <3> QED
      BY <1>1, <3>2, <3>3, ReportFrame
  <2> QED
    BY <2>1, <2>2
<1> QED
  BY <1>2, <1>3, <1>4 DEF Next

LEMMA ReportInvariance == Spec => [](Inv /\ CountInv /\ ReportInv)
  BY CountInvariance, ReportInit, ReportNext, PTL DEF Spec

(* The three sums of a status report under whose iterator no key was       *)
(* inserted are ordered, though its loops do not hold mtx: each loop sees  *)
(* what the one before it saw, up to one request, for any pool.            *)
THEOREM ReportsOrdered == Spec => []ReportOrdered
<1>1. ReportInv => ReportOrdered
  BY DEF ReportInv, ReportOf, DoneInv, ReportOrdered
<1> QED
  BY <1>1, ReportInvariance, PTL

-----------------------------------------------------------------------------
(* A single thread                                                         *)

(* Nothing is counted while the one thread makes its report, and nothing   *)
(* is torn from under it.                                                  *)
SoloLoop(t) ==
  /\ pc[t] \in Loops => rep[t].before = sent
  /\ pc[t] = "total" =>
       /\ sum[t].total + ToCome(t) = rep[t].before
       /\ sum[t].urls = 0 /\ sum[t].codes = 0
  /\ pc[t] = "urls" =>
       /\ sum[t].total = rep[t].before
       /\ sum[t].urls + ToCome(t) = rep[t].before /\ sum[t].codes = 0
  /\ pc[t] = "codes" =>
       /\ sum[t].total = rep[t].before /\ sum[t].urls = rep[t].before
       /\ sum[t].codes + ToCome(t) = rep[t].before

SoloDone(t) ==
  Reported(t) => /\ sum[t].total = rep[t].before
                 /\ sum[t].urls = rep[t].before /\ sum[t].codes = rep[t].before

Solo(t) ==
  /\ rep[t].harm = "none"
  /\ pc[t] = "remote_ip" => op[cur[t]] # "none"
  /\ SoloLoop(t)
  /\ SoloDone(t)

SoloInv == \A t \in Threads : Solo(t)

LEMMA SoloInit == Init => SoloInv
  BY Labels DEF Init, SoloInv, Solo, SoloLoop, SoloDone, Reported, NoReport

LEMMA SoloCounts ==
  ASSUME Inv, CountInv, NEW t, Threads = {t}, pc[t] \notin {"code", "write"}
  PROVE  /\ Sum(url_counter, DOMAIN url_counter) = sent
         /\ Sum(code_counter, DOMAIN code_counter) = sent
<1>1. In({"code", "write"}) = {} /\ In({"write"}) = {}
  BY DEF In
<1>2. Cardinality({}) = 0
  BY FS_EmptySet
<1>3. Cardinality(In({"code", "write"})) = 0 /\ Cardinality(In({"write"})) = 0
  BY <1>1, <1>2
<1>4. sent \in Nat
  BY DEF Inv, TypeOK, ProcessTypes
<1> QED
  BY <1>3, <1>4 DEF CountInv

LEMMA SoloQuiet ==
  ASSUME NEW t \in Threads, pc'[t] \notin Loops \cup {"remote_ip"}, ~Reported(t)',
         rep'[t].harm = "none"
  PROVE  Solo(t)'
  BY Labels DEF Solo, SoloLoop, SoloDone

(* Steps of the process, the peers and the sockets.                        *)
LEMMA SoloFrame ==
  ASSUME TypeOK, NEW t \in Threads, Solo(t), UNCHANGED <<threadVars, counterVars, sent>>,
         pc[t] = "remote_ip" => op'[cur[t]] # "none"
  PROVE  Solo(t)'
  BY DEF Solo, SoloLoop, SoloDone, ToCome, Ahead, Counter, Reported, Class, threadVars,
     counterVars

LEMMA SoloEnvironment ==
  ASSUME Inv, NEW t, Threads = {t}, ReportOf(t), Solo(t), Environment
  PROVE  Solo(t)'
<1>1. ASSUME UpstreamAnswers(t)
      PROVE  Solo(t)'
  <2>1. pc[t] = "upstream" /\ pc'[t] = "lock" /\ req' = req /\ rep' = rep
    BY <1>1 DEF UpstreamAnswers, At, Inv, TypeOK, ThreadTypes
  <2>2. ~Reported(t)'
    BY <2>1 DEF ReportOf, Reported, Class
  <2> QED
    BY <2>1, <2>2, SoloQuiet, Labels DEF Solo
<1>2. CASE \/ ClientConnects \/ AcceptFails
           \/ \E s \in Sessions : \/ \E r \in Requests : ReadCompletes(s, r)
                                  \/ ReadFails(s) \/ WriteFails(s) \/ PeerLeaves(s)
                                  \/ \E u \in Threads : write_some(u, s)
  <2>1. UNCHANGED <<threadVars, counterVars, sent>>
    BY <1>2 DEF ClientConnects, AcceptFails, ReadCompletes, ReadFails, WriteFails, PeerLeaves,
       write_some
  <2>2. op \in [Sessions -> Ops]
    BY DEF Inv, TypeOK, SocketTypes
  <2>3. op' = op \/ \E s \in Sessions : \E new \in Ops \ {"none"} : op' = [op EXCEPT ![s] = new]
    BY <1>2 DEF ClientConnects, AcceptFails, ReadCompletes, ReadFails, WriteFails, PeerLeaves,
       write_some, socketVars, Ops
  <2>4. pc[t] = "remote_ip" => cur[t] \in Sessions /\ op'[cur[t]] # "none"
    BY <2>2, <2>3 DEF Solo, Inv, SessionInv
  <2> QED
    BY <2>1, <2>4, SoloFrame DEF Inv
<1> QED
  BY <1>1, <1>2 DEF Environment

LEMMA SoloVisit ==
  ASSUME Inv, CountInv, NEW t \in Threads, Solo(t), NEW k, visit(t, k)
  PROVE  Solo(t)'
<1>1. /\ pc' = pc /\ pc[t] \in Loops /\ sent' = sent
      /\ sum' = [sum EXCEPT ![t][pc[t]] = @ + Counter(pc[t])[k]]
      /\ rep' = [rep EXCEPT ![t] = Move(@, k)]
  BY DEF visit, At
<1>2. rep'[t].before = rep[t].before /\ rep'[t].harm = "none" /\ rep[t].harm = "none"
  BY <1>1 DEF Move, Inv, TypeOK, ThreadTypes, Reports, Solo
<1>3. pc'[t] # "remote_ip" /\ ~Reported(t)'
  BY <1>1, Labels DEF Reported
<1> DEFINE c == Counter(pc[t])[k]
<1>4. c \in Nat /\ ToCome(t)' \in Nat /\ ToCome(t) = c + ToCome(t)'
  BY <1>2, VisitSums DEF Inv
<1>5. sum[t] \in [Loops -> Nat] /\ sum'[t] = [sum[t] EXCEPT ![pc[t]] = @ + c]
  BY <1>1 DEF Inv, TypeOK, ThreadTypes
<1>6. SoloLoop(t)
  BY DEF Solo
<1> HIDE DEF c
<1>7. CASE pc[t] = "total"
  <2>1. sum'[t].total = sum[t].total + c /\ sum'[t].urls = sum[t].urls
        /\ sum'[t].codes = sum[t].codes /\ sum[t].total \in Nat
    BY <1>5, <1>7, Labels
  <2> QED
    BY <1>1, <1>2, <1>3, <1>4, <1>6, <1>7, <2>1 DEF Solo, SoloLoop, SoloDone
<1>8. CASE pc[t] = "urls"
  <2>1. sum'[t].total = sum[t].total /\ sum'[t].urls = sum[t].urls + c
        /\ sum'[t].codes = sum[t].codes /\ sum[t].urls \in Nat
    BY <1>5, <1>8, Labels
  <2> QED
    BY <1>1, <1>2, <1>3, <1>4, <1>6, <1>8, <2>1 DEF Solo, SoloLoop, SoloDone
<1>9. CASE pc[t] = "codes"
  <2>1. sum'[t].total = sum[t].total /\ sum'[t].urls = sum[t].urls
        /\ sum'[t].codes = sum[t].codes + c /\ sum[t].codes \in Nat
    BY <1>5, <1>9, Labels
  <2> QED
    BY <1>1, <1>2, <1>3, <1>4, <1>6, <1>9, <2>1 DEF Solo, SoloLoop, SoloDone
<1> QED
  BY <1>1, <1>7, <1>8, <1>9, Labels

LEMMA SoloStarts ==
  ASSUME Inv, CountInv, NEW t, Threads = {t}, ReportOf(t), start_report(t)
  PROVE  Solo(t)'
<1>1. /\ pc'[t] = "total" /\ rep'[t] = [NoReport EXCEPT !.before = sent] /\ sum' = sum
      /\ pc[t] = "handle" /\ UNCHANGED <<url_counter, code_counter, sent>>
  BY DEF start_report, At, counterVars, Inv, TypeOK, ThreadTypes
<1>2. sum[t] = NoSums
  BY <1>1 DEF ReportOf, BeforeReport
<1>3. rep'[t].it = -1 /\ rep'[t].before = sent /\ rep'[t].harm = "none"
  BY <1>1 DEF NoReport
<1>4. ToCome(t)' = Sum(url_counter, DOMAIN url_counter)
  BY <1>1, <1>3, FreshLoop DEF Inv, Counter
<1>5. sum'[t].total = 0 /\ sum'[t].urls = 0 /\ sum'[t].codes = 0
  BY <1>1, <1>2, Labels DEF NoSums
<1>6. Sum(url_counter, DOMAIN url_counter) = sent /\ sent \in Nat
  BY <1>1, SoloCounts DEF Inv, TypeOK, ProcessTypes
<1>7. SoloLoop(t)'
  BY <1>1, <1>3, <1>4, <1>5, <1>6 DEF SoloLoop
<1> QED
  BY <1>1, <1>3, <1>7 DEF Solo, SoloDone, Reported

LEMMA SoloEnds ==
  ASSUME Inv, CountInv, NEW t, Threads = {t}, Solo(t), end_loop(t)
  PROVE  Solo(t)'
<1>1. /\ pc[t] \in Loops /\ pc'[t] = AfterLoop[pc[t]] /\ sum' = sum /\ sent' = sent
      /\ rep' = [rep EXCEPT ![t] = Move(@, -1)] /\ rep[t].harm = "none"
      /\ UNCHANGED <<url_counter, code_counter>> /\ Ahead(t) = {}
  BY DEF end_loop, At, counterVars, Inv, TypeOK, ThreadTypes, Solo
<1>2. rep'[t].before = rep[t].before /\ rep'[t].it = -1 /\ rep'[t].harm = "none"
  BY <1>1 DEF Move, Inv, TypeOK, ThreadTypes, Reports
<1>3. SoloLoop(t)
  BY DEF Solo
<1>4. ToCome(t) = 0
  BY <1>1, FinishedLoop DEF Inv
<1>5. sum[t].total \in Nat /\ sum[t].urls \in Nat /\ sum[t].codes \in Nat /\ sent \in Nat
  BY Labels DEF Inv, TypeOK, ThreadTypes, ProcessTypes
<1>6. /\ Sum(url_counter, DOMAIN url_counter) = sent
      /\ Sum(code_counter, DOMAIN code_counter) = sent
  BY <1>1, SoloCounts, Labels
<1>7. CASE pc[t] = "total"
  <2>1. pc'[t] = "urls"
    BY <1>1, <1>7 DEF AfterLoop
  <2>2. ToCome(t)' = Sum(url_counter, DOMAIN url_counter)
    BY <1>1, <1>2, <2>1, FreshLoop DEF Inv, Counter
  <2>3. SoloLoop(t)'
    BY <1>1, <1>2, <1>3, <1>4, <1>5, <1>6, <1>7, <2>1, <2>2 DEF SoloLoop
  <2> QED
    BY <1>2, <2>1, <2>3 DEF Solo, SoloDone, Reported
<1>8. CASE pc[t] = "urls"
  <2>1. pc'[t] = "codes"
    BY <1>1, <1>8 DEF AfterLoop
  <2>2. ToCome(t)' = Sum(code_counter, DOMAIN code_counter)
    BY <1>1, <1>2, <2>1, FreshLoop DEF Inv, Counter
  <2>3. SoloLoop(t)'
    BY <1>1, <1>2, <1>3, <1>4, <1>5, <1>6, <1>8, <2>1, <2>2 DEF SoloLoop
  <2> QED
    BY <1>2, <2>1, <2>3 DEF Solo, SoloDone, Reported
<1>9. CASE pc[t] = "codes"
  <2>1. pc'[t] = "lock"
    BY <1>1, <1>9 DEF AfterLoop
  <2>2. SoloDone(t)'
    BY <1>1, <1>2, <1>3, <1>4, <1>5, <1>9 DEF SoloLoop, SoloDone
  <2> QED
    BY <1>2, <2>1, <2>2, Labels DEF Solo, SoloLoop
<1> QED
  BY <1>1, <1>7, <1>8, <1>9, Labels

LEMMA SoloThread ==
  ASSUME Inv, CountInv, NEW t, Threads = {t}, ReportOf(t), Solo(t), Thread(t)
  PROVE  Solo(t)'
<1> USE DEF Inv, TypeOK, ThreadTypes, At, Idle
<1>1. CASE handle_accept(t)
  <2>1. /\ pc'[t] = "remote_ip" /\ cur'[t] = new_session /\ rep' = rep
        /\ op' = [op EXCEPT ![new_session] = "reading"] /\ accept = "ready"
    BY <1>1 DEF handle_accept
  <2>2. op'[cur'[t]] = "reading"
    BY <2>1 DEF AcceptInv, SocketTypes, ProcessTypes
  <2> QED
    BY <2>1, <2>2, Labels DEF Solo, SoloLoop, SoloDone, Reported
<1>2. CASE \/ get_remote_ip(t) \/ createByName(t) \/ getServerResponse(t)
           \/ handle_read_returns(t) \/ async_write(t)
  <2>1. pc'[t] \in {"idle", "handle", "upstream", "unlock"} /\ rep'[t].harm = "none"
    BY <1>2 DEF get_remote_ip, createByName, getServerResponse, handle_read_returns,
       async_write, Solo, NoReport
  <2> QED
    BY <2>1, SoloQuiet, Labels DEF Reported
<1>3. CASE handle_accept_error(t) \/ get_remote_ip_throws(t) \/ torn_iterator_crashes(t)
  <2>1. UNCHANGED <<threadVars, counterVars, sent, op>>
    BY <1>3 DEF handle_accept_error, get_remote_ip_throws, torn_iterator_crashes, socketVars
  <2> QED
    BY <2>1, SoloFrame DEF Solo
<1>4. CASE HandleRequest(t)
  <2>1. pc'[t] = "lock" /\ ~Reported(t)' /\ rep' = rep
    BY <1>4 DEF HandleRequest, Reported, Class, HandlerCodes
  <2> QED
    BY <2>1, SoloQuiet, Labels DEF Solo
<1>5. CASE start_report(t) \/ end_loop(t)
  BY <1>5, SoloStarts, SoloEnds
<1>6. ASSUME NEW k, visit(t, k)
      PROVE  Solo(t)'
  BY <1>6, SoloVisit
<1>7. CASE lock_count(t) \/ count_url(t) \/ insert_code(t) \/ count_code(t)
  <2>1. /\ pc[t] \in {"lock", "url", "code"} /\ pc'[t] \in {"url", "code", "write"}
        /\ rep'[t] = rep[t] /\ req' = req /\ sum' = sum
    BY <1>7 DEF lock_count, count_url, insert_code, count_code, Tear
  <2> QED
    BY <2>1, Labels DEF Solo, SoloLoop, SoloDone, Reported, Class
<1>8. ASSUME NEW s \in Sessions, handle_read(t, s)
      PROVE  Solo(t)'
  <2>1. /\ rep' = rep /\ req'[t] = inbox[s]
        /\ \/ inbox[s].valid /\ pc'[t] = "create"
           \/ ~inbox[s].valid /\ pc'[t] = "lock"
    BY <1>8 DEF handle_read
  <2>2. ~Reported(t)' /\ pc'[t] \in {"create", "lock"}
    BY <2>1 DEF Reported
  <2> QED
    BY <2>1, <2>2, SoloQuiet, Labels DEF Solo
<1>9. ASSUME NEW s \in Sessions,
             handle_read_error(t, s) \/ handle_write(t, s) \/ handle_write_error(t, s)
      PROVE  Solo(t)'
  <2>1. pc[t] = "idle" /\ UNCHANGED <<threadVars, counterVars, sent>>
    BY <1>9 DEF handle_read_error, handle_write, handle_write_error
  <2> QED
    BY <2>1, SoloFrame
<1> QED
  BY <1>1, <1>2, <1>3, <1>4, <1>5, <1>6, <1>7, <1>8, <1>9 DEF Thread

LEMMA SoloNext ==
  ASSUME NEW t, Threads = {t}, Inv, CountInv, ReportInv, SoloInv, [Next]_vars
  PROVE  SoloInv'
<1> SUFFICES Solo(t)'
  BY DEF SoloInv
<1>1. ReportOf(t) /\ Solo(t)
  BY DEF ReportInv, SoloInv
<1>2. CASE Process \/ UNCHANGED vars
  <2>1. UNCHANGED <<threadVars, counterVars, sent, op>>
    BY <1>2 DEF Process, init, kill, main_returns, got_signal, vars, socketVars
  <2> QED
    BY <1>1, <2>1, SoloFrame DEF Inv, Solo
<1>3. CASE Environment
  BY <1>1, <1>3, SoloEnvironment
<1>4. CASE Thread(t)
  BY <1>1, <1>4, SoloThread
<1> QED
  BY <1>2, <1>3, <1>4 DEF Next

LEMMA SoloInvariance ==
  ASSUME NEW t, Threads = {t}
  PROVE  Spec => [](Inv /\ SoloInv)
<1>1. Inv /\ CountInv /\ ReportInv /\ SoloInv /\ [Next]_vars => SoloInv'
  BY SoloNext
<1> QED
  BY <1>1, ReportInvariance, SoloInit, PTL DEF Spec

(* With one thread the three sums of every status report are equal, and    *)
(* equal to the number of replies sent before it.                          *)
THEOREM ReportsExact ==
  ASSUME NEW t, Threads = {t}
  PROVE  Spec => []ReportExact
<1>1. SoloInv => ReportExact
  BY DEF SoloInv, Solo, SoloDone, ReportExact, ReportConsistent
<1> QED
  BY <1>1, SoloInvariance, PTL

(* With one thread session::start asks for the address of a session that   *)
(* still exists: the failed read that deletes it has to wait for start.    *)
THEOREM StartsOnLiveSession ==
  ASSUME NEW t, Threads = {t}
  PROVE  Spec => []StartOnLiveSession
<1>1. Inv /\ SoloInv => StartOnLiveSession
  BY DEF Inv, SoloInv, Solo, SessionInv, NoUseAfterDelete, StartOnLiveSession
<1> QED
  BY <1>1, SoloInvariance, PTL

=============================================================================
