---------------------------- MODULE ProxyProofs -----------------------------
(* What a proxy relays, for every set of URLs and all that the servers     *)
(* behind it may answer.                                                   *)
EXTENDS Proxy, SequenceTheorems, Induction

-----------------------------------------------------------------------------
(* The inductive invariant                                                 *)

(* The first n URLs answer with a redirect.                                *)
Follows(n) == \A k \in 0 .. n - 1 : Hop(k) \in Urls /\ web[Hop(k)].code \in Redirects

(* What the transfers before the one to Hop(n) have left in the string.    *)
Before(n) == IF n = 0 THEN <<>> ELSE Bodies(n - 1)

Performing(n) ==
  /\ Follows(n) /\ url = Hop(n)
  /\ url # None =>
       /\ part \in 0 .. Len(web[url].body)
       /\ serverResponse = Before(n) \o SubSeq(web[url].body, 1, part)

Checking(n) ==
  /\ Follows(n) /\ url = Hop(n) /\ url \in Urls
  /\ serverResponse = Bodies(n)
  /\ http_code = web[url].code
  /\ nextURL = IF web[url].code \in Redirects THEN web[url].next ELSE None

Relayed(n) == IsFinal(n) /\ Follows(n) /\ reply.body = Bodies(n)

(* Until a transfer breaks, the string holds the bodies of the answers up  *)
(* to the current one.                                                     *)
Inv ==
  /\ web \in Webs
  /\ at \in {"idle", "perform", "check"}
  /\ at # "idle" => reply = NoReply
  /\ at # "idle" \/ reply.code # 0 => start \in Urls
  /\ at = "perform" /\ broken = FALSE => \E n \in Nat : Performing(n)
  /\ at = "check" /\ broken = FALSE => \E n \in Nat : Checking(n)
  /\ reply.code # 0 /\ broken = FALSE => \E n \in Nat : Relayed(n)

-----------------------------------------------------------------------------
(* The hops as constants, so that they can be compared across a step       *)

HopIn(s, w, n) ==
  LET hop[k \in 0 .. n] ==
        IF k = 0 THEN s
        ELSE IF hop[k - 1] = None \/ w[hop[k - 1]].code \notin Redirects THEN None
        ELSE w[hop[k - 1]].next
  IN hop[n]

BodiesIn(s, w, n) ==
  LET bodies[k \in 0 .. n] ==
        IF k = 0 THEN w[HopIn(s, w, 0)].body ELSE bodies[k - 1] \o w[HopIn(s, w, k)].body
  IN bodies[n]

LEMMA HopNow ==
  ASSUME NEW n
  PROVE  Hop(n) = HopIn(start, web, n) /\ Hop(n)' = HopIn(start', web', n)
BY DEF Hop, HopIn

LEMMA BodiesNow ==
  ASSUME NEW n
  PROVE  Bodies(n) = BodiesIn(start, web, n) /\ Bodies(n)' = BodiesIn(start', web', n)
BY DEF Bodies, BodiesIn, Hop, HopIn

(* One step of the recursion of HopIn.                                     *)
After(w, u) == IF u = None \/ w[u].code \notin Redirects THEN None ELSE w[u].next

HopFn(s, w, n) ==
  CHOOSE hop : hop = [k \in 0 .. n |-> IF k = 0 THEN s ELSE After(w, hop[k - 1])]

LEMMA HopInIs ==
  ASSUME NEW s, NEW w, NEW n
  PROVE  HopIn(s, w, n) = HopFn(s, w, n)[n]
BY DEF HopIn, HopFn, After

LEMMA AfterType ==
  ASSUME NEW w \in Webs, NEW u \in Urls \cup {None}
  PROVE  After(w, u) \in Urls \cup {None}
BY WebAssumption DEF After

LEMMA HopFnIs ==
  ASSUME NEW w \in Webs, NEW s \in Urls, NEW n \in Nat
  PROVE  /\ HopFn(s, w, n) \in [0 .. n -> Urls \cup {None}]
         /\ HopFn(s, w, n)[0] = s
         /\ \A k \in 1 .. n : HopFn(s, w, n)[k] = After(w, HopFn(s, w, n)[k - 1])
<1> DEFINE D == Urls \cup {None}
           F == [p \in (1 .. n) \X D |-> After(w, p[2])]
           Body(hop) == [k \in 0 .. n |-> IF k = 0 THEN s ELSE After(w, hop[k - 1])]
<1>1. F \in [(1 .. n) \X D -> D] /\ s \in D
  BY AfterType
<1>2. \A k \in 1 .. n : \A u \in D : F[<<k, u>>] = After(w, u)
  OBVIOUS
<1>3. PICK g \in [0 .. n -> D] : g[0] = s /\ \A k \in 1 .. n : g[k] = F[<<k, g[k - 1]>>]
  <2> HIDE DEF F, D
  <2>1. IsRecursion(D, s, n, F)
    BY <1>1 DEF IsRecursion
  <2>2. \E g : IsSolution(D, s, n, F, g)
    BY <2>1, Recursion
  <2> QED
    BY <2>2 DEF IsSolution
<1> HIDE DEF F
<1>4. ASSUME NEW k \in 1 .. n PROVE g[k] = After(w, g[k - 1])
  <2>1. k - 1 \in 0 .. n
    OBVIOUS
  <2>2. g[k - 1] \in D
    BY <2>1
  <2> QED
    BY <1>2, <1>3, <2>2
<1>5. g = Body(g)
  <2>1. \A k \in 0 .. n : g[k] = Body(g)[k]
    BY <1>3, <1>4
  <2> QED
    BY <2>1
<1>6. HopFn(s, w, n) = Body(HopFn(s, w, n))
  BY <1>5, Zenon DEF HopFn
<1>7. PICK h : h = HopFn(s, w, n) /\ h = Body(h)
  BY <1>6
<1>8. 0 \in 0 .. n /\ \A k \in 1 .. n : k \in 0 .. n /\ k # 0
  OBVIOUS
<1>9. h[0] = s /\ \A k \in 1 .. n : h[k] = After(w, h[k - 1])
  BY <1>7, <1>8
<1>10. \A k \in 0 .. n : h[k] = g[k]
  <2>1. StepTogether(n, h, g)
    BY <1>3, <1>4, <1>9 DEF StepTogether
  <2> QED
    BY <2>1, SameRecursion
<1>11. h = g
  BY <1>7, <1>10
<1> QED
  BY <1>7, <1>9, <1>11


LEMMA HopFnAgrees ==
  ASSUME NEW w \in Webs, NEW s \in Urls, NEW n \in Nat, NEW m \in 0 .. n
  PROVE  HopFn(s, w, n)[m] = HopIn(s, w, m)
<1>1. PICK f, g : f = HopFn(s, w, n) /\ g = HopFn(s, w, m)
  OBVIOUS
<1>2. m \in Nat /\ \A k \in 1 .. m : k \in 1 .. n
  OBVIOUS
<1>3. /\ f[0] = s /\ \A k \in 1 .. m : f[k] = After(w, f[k - 1])
      /\ g[0] = s /\ \A k \in 1 .. m : g[k] = After(w, g[k - 1])
  BY <1>1, <1>2, HopFnIs
<1>4. StepTogether(m, f, g)
  BY <1>3 DEF StepTogether
<1>5. \A k \in 0 .. m : f[k] = g[k]
  BY <1>2, <1>4, SameRecursion
<1>6. f[m] = g[m]
  BY <1>2, <1>5
<1> QED
  BY <1>1, <1>6, HopInIs

(* The redirects, one by one.                                              *)
LEMMA HopStep ==
  ASSUME NEW w \in Webs, NEW s \in Urls, NEW n \in Nat
  PROVE  /\ HopIn(s, w, 0) = s
         /\ HopIn(s, w, n) \in Urls \cup {None}
         /\ HopIn(s, w, n + 1) = After(w, HopIn(s, w, n))
<1>1. HopFn(s, w, 0)[0] = s
  BY HopFnIs
<1>2. HopFn(s, w, n) \in [0 .. n -> Urls \cup {None}] /\ n \in 0 .. n
  BY HopFnIs
<1>3. n + 1 \in Nat /\ n + 1 \in 1 .. n + 1 /\ n \in 0 .. n + 1 /\ (n + 1) - 1 = n
  OBVIOUS
<1>4. HopFn(s, w, n + 1)[n + 1] = After(w, HopFn(s, w, n + 1)[n])
  <2>1. \A k \in 1 .. n + 1 : HopFn(s, w, n + 1)[k] = After(w, HopFn(s, w, n + 1)[k - 1])
    BY <1>3, HopFnIs
  <2>2. HopFn(s, w, n + 1)[n + 1] = After(w, HopFn(s, w, n + 1)[(n + 1) - 1])
    BY <1>3, <2>1
  <2> QED
    BY <1>3, <2>2
<1>5. HopFn(s, w, n + 1)[n] = HopIn(s, w, n)
  BY <1>3, HopFnAgrees
<1> QED
  BY <1>1, <1>2, <1>4, <1>5, HopInIs

(* The bodies along n + 1 answers, all of which there are.                 *)
AllHops(s, w, n) == \A k \in 0 .. n : HopIn(s, w, k) \in Urls

BodyOf(s, w, k) == w[HopIn(s, w, k)].body

BodiesFn(s, w, n) ==
  CHOOSE bodies : bodies = [k \in 0 .. n |-> IF k = 0 THEN BodyOf(s, w, 0)
                                             ELSE bodies[k - 1] \o BodyOf(s, w, k)]

LEMMA BodiesInIs ==
  ASSUME NEW s, NEW w, NEW n
  PROVE  BodiesIn(s, w, n) = BodiesFn(s, w, n)[n]
BY DEF BodiesIn, BodiesFn, BodyOf

LEMMA BodyType ==
  ASSUME NEW w \in Webs, NEW s \in Urls, NEW n \in Nat, AllHops(s, w, n), NEW k \in 0 .. n
  PROVE  BodyOf(s, w, k) \in Seq(Nat)
BY WebAssumption DEF AllHops, BodyOf

LEMMA BodiesFnIs ==
  ASSUME NEW w \in Webs, NEW s \in Urls, NEW n \in Nat, AllHops(s, w, n)
  PROVE  /\ BodiesFn(s, w, n) \in [0 .. n -> Seq(Nat)]
         /\ BodiesFn(s, w, n)[0] = BodyOf(s, w, 0)
         /\ \A k \in 1 .. n : BodiesFn(s, w, n)[k] = BodiesFn(s, w, n)[k - 1] \o BodyOf(s, w, k)
<1> DEFINE D == Seq(Nat)
           F == [p \in (1 .. n) \X D |-> p[2] \o BodyOf(s, w, p[1])]
           Body(bodies) == [k \in 0 .. n |-> IF k = 0 THEN BodyOf(s, w, 0)
                                             ELSE bodies[k - 1] \o BodyOf(s, w, k)]
<1>1. \A k \in 0 .. n : BodyOf(s, w, k) \in Seq(Nat)
  BY BodyType
<1>2. F \in [(1 .. n) \X D -> D] /\ BodyOf(s, w, 0) \in D
  <2>1. ASSUME NEW k \in 1 .. n, NEW u \in D PROVE u \o BodyOf(s, w, k) \in D
    BY <1>1, ConcatProperties
  <2>2. \A p \in (1 .. n) \X D : p[2] \o BodyOf(s, w, p[1]) \in D
    <3> HIDE DEF D
    <3> QED
      BY <2>1
  <2> QED
    BY <1>1, <2>2
<1>3. \A k \in 1 .. n : \A u \in D : F[<<k, u>>] = u \o BodyOf(s, w, k)
  <2> HIDE DEF D
  <2> QED
    OBVIOUS
<1>4. PICK g : g \in [0 .. n -> D] /\ g[0] = BodyOf(s, w, 0)
               /\ \A k \in 1 .. n : g[k] = F[<<k, g[k - 1]>>]
  <2> HIDE DEF F, D
  <2>1. IsRecursion(D, BodyOf(s, w, 0), n, F)
    BY <1>2 DEF IsRecursion
  <2>2. \E g : IsSolution(D, BodyOf(s, w, 0), n, F, g)
    BY <2>1, Recursion
  <2> QED
    BY <2>2 DEF IsSolution
<1> HIDE DEF F, D
<1>5. ASSUME NEW k \in 1 .. n PROVE g[k] = g[k - 1] \o BodyOf(s, w, k)
  <2>1. k - 1 \in 0 .. n
    OBVIOUS
  <2>2. g[k - 1] \in D
    BY <1>4, <2>1
  <2> QED
    BY <1>3, <1>4, <2>2
<1>6. g = Body(g)
  <2>1. \A k \in 0 .. n : g[k] = Body(g)[k]
    BY <1>4, <1>5
  <2> QED
    BY <1>4, <2>1
<1>7. BodiesFn(s, w, n) = Body(BodiesFn(s, w, n))
  BY <1>6, Zenon DEF BodiesFn
<1>8. PICK h : h = BodiesFn(s, w, n) /\ h = Body(h)
  BY <1>7
<1>9. 0 \in 0 .. n /\ \A k \in 1 .. n : k \in 0 .. n /\ k # 0
  OBVIOUS
<1>10. h[0] = BodyOf(s, w, 0) /\ \A k \in 1 .. n : h[k] = h[k - 1] \o BodyOf(s, w, k)
  BY <1>8, <1>9
<1>11. \A k \in 0 .. n : h[k] = g[k]
  <2>1. StepTogether(n, h, g)
    BY <1>4, <1>5, <1>10 DEF StepTogether
  <2> QED
    BY <2>1, SameRecursion
<1>12. h = g
  BY <1>4, <1>8, <1>11
<1> QED
  BY <1>4, <1>8, <1>10, <1>12 DEF D

LEMMA BodiesStep ==
  ASSUME NEW w \in Webs, NEW s \in Urls, NEW n \in Nat, AllHops(s, w, n)
  PROVE  /\ BodiesIn(s, w, n) \in Seq(Nat)
         /\ n = 0 => BodiesIn(s, w, n) = BodyOf(s, w, n)
         /\ n # 0 => BodiesIn(s, w, n) = BodiesIn(s, w, n - 1) \o BodyOf(s, w, n)
<1>1. n \in 0 .. n
  OBVIOUS
<1>2. BodiesIn(s, w, n) \in Seq(Nat)
  BY <1>1, BodiesFnIs, BodiesInIs, SMTT(30)
<1>3. CASE n = 0
  <2>1. BodiesFn(s, w, n)[0] = BodyOf(s, w, 0)
    BY BodiesFnIs
  <2> QED
    BY <1>2, <1>3, <2>1, BodiesInIs
<1>4. CASE n # 0
  <2>1. n - 1 \in Nat /\ n - 1 \in 0 .. n /\ n \in 1 .. n
    BY <1>4
  <2>2. AllHops(s, w, n - 1)
    BY <2>1 DEF AllHops
  <2>3. PICK f, g : f = BodiesFn(s, w, n) /\ g = BodiesFn(s, w, n - 1)
    OBVIOUS
  <2>4. /\ f[0] = BodyOf(s, w, 0) /\ \A k \in 1 .. n : f[k] = f[k - 1] \o BodyOf(s, w, k)
        /\ g[0] = BodyOf(s, w, 0) /\ \A k \in 1 .. n - 1 : g[k] = g[k - 1] \o BodyOf(s, w, k)
    BY <2>1, <2>2, <2>3, BodiesFnIs
  <2>5. StepTogether(n - 1, f, g)
    <3>1. \A k \in 1 .. n - 1 : k \in 1 .. n
      OBVIOUS
    <3> QED
      BY <2>4, <3>1 DEF StepTogether
  <2>6. \A k \in 0 .. n - 1 : f[k] = g[k]
    BY <2>1, <2>5, SameRecursion
  <2>7. n - 1 \in 0 .. n - 1
    BY <2>1
  <2>8. f[n] = g[n - 1] \o BodyOf(s, w, n)
    BY <2>1, <2>4, <2>6, <2>7
  <2> QED
    BY <1>2, <1>4, <2>3, <2>8, BodiesInIs
<1> QED
  BY <1>3, <1>4


-----------------------------------------------------------------------------
(* Where the redirects end                                                 *)

(* Two URLs that are the same lead the same way.                           *)
LEMMA SameWay ==
  ASSUME NEW w \in Webs, NEW s \in Urls, NEW i \in Nat, NEW j \in Nat,
         HopIn(s, w, i) = HopIn(s, w, j), NEW d \in Nat
  PROVE  HopIn(s, w, i + d) = HopIn(s, w, j + d)
<1> DEFINE F == [k \in 0 .. d |-> HopIn(s, w, i + k)]
           G == [k \in 0 .. d |-> HopIn(s, w, j + k)]
<1>1. PICK f, g : f = F /\ g = G
  OBVIOUS
<1>2. /\ \A k \in 0 .. d : f[k] = HopIn(s, w, i + k)
      /\ \A k \in 0 .. d : g[k] = HopIn(s, w, j + k)
  BY <1>1
<1>3. f[0] = g[0]
  <2>1. 0 \in 0 .. d /\ i + 0 = i /\ j + 0 = j
    OBVIOUS
  <2> QED
    BY <1>2, <2>1
<1>4. ASSUME NEW k \in 1 .. d, f[k - 1] = g[k - 1] PROVE f[k] = g[k]
  <2>1. /\ k - 1 \in 0 .. d /\ k \in 0 .. d
        /\ i + (k - 1) \in Nat /\ j + (k - 1) \in Nat
        /\ (i + (k - 1)) + 1 = i + k /\ (j + (k - 1)) + 1 = j + k
    OBVIOUS
  <2>2. HopIn(s, w, i + (k - 1)) = HopIn(s, w, j + (k - 1))
    BY <1>2, <1>4, <2>1
  <2>3. /\ HopIn(s, w, (i + (k - 1)) + 1) = After(w, HopIn(s, w, i + (k - 1)))
        /\ HopIn(s, w, (j + (k - 1)) + 1) = After(w, HopIn(s, w, j + (k - 1)))
    BY <2>1, HopStep
  <2>4. HopIn(s, w, i + k) = HopIn(s, w, j + k)
    BY <2>1, <2>2, <2>3
  <2> QED
    BY <1>2, <2>1, <2>4
<1>5. StepTogether(d, f, g)
  BY <1>3, <1>4 DEF StepTogether
<1>6. \A k \in 0 .. d : f[k] = g[k]
  BY <1>5, SameRecursion
<1>7. d \in 0 .. d
  OBVIOUS
<1> QED
  BY <1>2, <1>6, <1>7

(* After the end there is no URL.                                          *)
LEMMA NoneStays ==
  ASSUME NEW w \in Webs, NEW s \in Urls, NEW n \in Nat, HopIn(s, w, n) = None,
         NEW m \in Nat, n <= m
  PROVE  HopIn(s, w, m) = None
<1> DEFINE bad == {k \in Nat : n <= k /\ HopIn(s, w, k) # None}
<1> SUFFICES ASSUME bad # {} PROVE FALSE
  OBVIOUS
<1>1. PICK k \in bad : \A y \in bad : k =< y
  <2>1. bad \in SUBSET Nat
    OBVIOUS
  <2> HIDE DEF bad
  <2> QED
    BY <2>1, SmallestNat
<1>2. k \in Nat /\ n <= k /\ HopIn(s, w, k) # None
  BY <1>1
<1>3. k - 1 \in Nat /\ n <= k - 1 /\ ~(k =< k - 1) /\ (k - 1) + 1 = k
  <2>1. k # n
    BY <1>2
  <2> QED
    BY <1>2, <2>1
<1>4. HopIn(s, w, k - 1) = None
  BY <1>1, <1>3
<1>5. HopIn(s, w, (k - 1) + 1) = After(w, HopIn(s, w, k - 1))
  BY <1>3, HopStep
<1>6. HopIn(s, w, k) = None
  BY <1>3, <1>4, <1>5 DEF After
<1> QED
  BY <1>2, <1>6

FinalIn(s, w, n) == HopIn(s, w, n) # None /\ w[HopIn(s, w, n)].code \notin Redirects

LEMMA OneFinal ==
  ASSUME NEW w \in Webs, NEW s \in Urls, NEW n \in Nat, NEW m \in Nat,
         FinalIn(s, w, n), FinalIn(s, w, m)
  PROVE  n = m
<1>1. ASSUME NEW i \in Nat, NEW j \in Nat, FinalIn(s, w, i), FinalIn(s, w, j), i < j
      PROVE  FALSE
  <2>1. HopIn(s, w, i + 1) = None
    BY <1>1, HopStep DEF FinalIn, After
  <2>2. i + 1 \in Nat /\ i + 1 <= j
    BY <1>1
  <2>3. HopIn(s, w, j) = None
    BY <2>1, <2>2, NoneStays
  <2> QED
    BY <1>1, <2>3 DEF FinalIn
<1>2. ~(n < m) /\ ~(m < n)
  BY <1>1
<1> QED
  BY <1>2

(* The way to a page never comes back to a URL, so it has fewer hops than  *)
(* there are URLs.                                                         *)
LEMMA FinalBound ==
  ASSUME NEW w \in Webs, NEW s \in Urls, NEW n \in Nat, FinalIn(s, w, n)
  PROVE  n \in 0 .. Cardinality(Urls) /\ AllHops(s, w, n)
<1>1. AllHops(s, w, n)
  <2>1. ASSUME NEW k \in 0 .. n PROVE HopIn(s, w, k) \in Urls
    <3>1. k \in Nat /\ k <= n
      OBVIOUS
    <3>2. HopIn(s, w, k) # None
      BY <3>1, NoneStays DEF FinalIn
    <3> QED
      BY <3>1, <3>2, HopStep
  <2> QED
    BY <2>1 DEF AllHops
<1>2. IsFiniteSet(Urls) /\ Cardinality(Urls) \in Nat
  BY WebAssumption, FS_CardinalityType
<1>3. IsFiniteSet(0 .. n) /\ Cardinality(0 .. n) = n + 1
  BY FS_Interval
<1>4. ASSUME Cardinality(Urls) < n PROVE FALSE
  <2> DEFINE F == [k \in 0 .. n |-> HopIn(s, w, k)]
  <2>1. F \in [0 .. n -> Urls]
    BY <1>1 DEF AllHops
  <2>2. Cardinality(Urls) < Cardinality(0 .. n)
    BY <1>2, <1>3, <1>4
  <2>3. PICK x \in 0 .. n, y \in 0 .. n : x # y /\ F[x] = F[y]
    <3> HIDE DEF F
    <3> QED
      BY <1>2, <1>3, <2>1, <2>2, FS_PigeonHole
  <2>4. ASSUME NEW i \in 0 .. n, NEW j \in 0 .. n, i < j, HopIn(s, w, i) = HopIn(s, w, j)
        PROVE  FALSE
    <3>1. /\ i \in Nat /\ j \in Nat /\ n - j \in Nat /\ j + (n - j) = n
          /\ i + (n - j) \in Nat /\ i + (n - j) # n
      BY <2>4
    <3>2. HopIn(s, w, i + (n - j)) = HopIn(s, w, j + (n - j))
      BY <2>4, <3>1, SameWay
    <3>3. FinalIn(s, w, i + (n - j))
      BY <3>1, <3>2 DEF FinalIn
    <3> QED
      BY <3>1, <3>3, OneFinal
  <2>5. HopIn(s, w, x) = HopIn(s, w, y) /\ HopIn(s, w, y) = HopIn(s, w, x)
    BY <2>3
  <2>6. x < y \/ y < x
    BY <2>3
  <2> QED
    BY <2>4, <2>5, <2>6
<1>5. n \in 0 .. Cardinality(Urls)
  BY <1>2, <1>4
<1> QED
  BY <1>1, <1>5


-----------------------------------------------------------------------------
(* The steps                                                               *)

(* The redirects of a request stay as they are while it lasts.             *)
LEMMA HopsStay ==
  ASSUME UNCHANGED <<start, web>>, NEW n \in Nat
  PROVE  Hop(n)' = Hop(n) /\ Bodies(n)' = Bodies(n) /\ (Follows(n) => Follows(n)')
                          /\ Before(n)' = Before(n)
<1>1. \A k : Hop(k)' = Hop(k)
  BY HopNow
<1>2. \A k : Bodies(k)' = Bodies(k)
  BY BodiesNow
<1> QED
  BY <1>1, <1>2 DEF Follows, Before

(* The URLs and the bodies of a request in a state of Inv.                 *)
LEMMA HopFacts ==
  ASSUME web \in Webs, start \in Urls, NEW n \in Nat
  PROVE  /\ Hop(n) \in Urls \cup {None}
         /\ Hop(0) = start
         /\ Hop(n) # None /\ web[Hop(n)].code \in Redirects => Hop(n + 1) = web[Hop(n)].next
         /\ Hop(n) \in Urls /\ Follows(n) =>
              /\ web[Hop(n)].body \in Seq(Nat)
              /\ Before(n) \in Seq(Nat)
              /\ Bodies(n) = Before(n) \o web[Hop(n)].body
<1>1. \A k : Hop(k) = HopIn(start, web, k)
  BY HopNow
<1>2. \A k : Bodies(k) = BodiesIn(start, web, k)
  BY BodiesNow
<1>3. /\ Hop(n) \in Urls \cup {None} /\ Hop(0) = start
      /\ Hop(n + 1) = After(web, Hop(n))
  <2>1. n + 1 \in Nat
    OBVIOUS
  <2> QED
    BY <1>1, <2>1, HopStep
<1>4. ASSUME Hop(n) \in Urls, Follows(n)
      PROVE  /\ web[Hop(n)].body \in Seq(Nat)
             /\ Before(n) \in Seq(Nat)
             /\ Bodies(n) = Before(n) \o web[Hop(n)].body
  <2>1. web[Hop(n)].body \in Seq(Nat)
    BY <1>4, WebAssumption
  <2>2. AllHops(start, web, n)
    <3>1. ASSUME NEW k \in 0 .. n PROVE Hop(k) \in Urls
      <4>1. k = n \/ k \in 0 .. n - 1
        OBVIOUS
      <4> QED
        BY <1>4, <4>1 DEF Follows
    <3> QED
      BY <1>1, <3>1 DEF AllHops
  <2>3. BodyOf(start, web, n) = web[Hop(n)].body
    BY <1>1 DEF BodyOf
  <2>4. CASE n = 0
    <3>1. Before(n) = <<>>
      BY <2>4 DEF Before
    <3>2. Bodies(n) = web[Hop(n)].body
      BY <1>2, <2>2, <2>3, <2>4, BodiesStep
    <3> QED
      BY <2>1, <3>1, <3>2, EmptySeq, ConcatEmptySeq
  <2>5. CASE n # 0
    <3>1. Before(n) = Bodies(n - 1)
      BY <2>5 DEF Before
    <3>2. n - 1 \in Nat /\ AllHops(start, web, n - 1)
      <4>1. n - 1 \in Nat /\ \A k \in 0 .. n - 1 : k \in 0 .. n
        BY <2>5
      <4> QED
        BY <2>2, <4>1 DEF AllHops
    <3>3. Bodies(n - 1) \in Seq(Nat)
      BY <1>2, <3>2, BodiesStep
    <3>4. Bodies(n) = Bodies(n - 1) \o web[Hop(n)].body
      BY <1>2, <2>2, <2>3, <2>5, BodiesStep
    <3> QED
      BY <2>1, <3>1, <3>3, <3>4
  <2> QED
    BY <2>4, <2>5
<1> QED
  BY <1>3, <1>4 DEF After

LEMMA Initial == Init => Inv
BY DEF Init, Inv, NoReply

LEMMA StepHandleRequest == Inv /\ HandleRequest => Inv'
<1> SUFFICES ASSUME Inv, HandleRequest PROVE Inv'
  OBVIOUS
<1>1. /\ web \in Webs /\ web' = web /\ start' \in Urls /\ at' = "perform" /\ reply' = NoReply
      /\ url' = start' /\ part' = 0 /\ serverResponse' = <<>>
  BY DEF Inv, HandleRequest
<1>2. Hop(0)' = start'
  BY <1>1, HopNow, HopStep
<1>3. Follows(0)'
  BY DEF Follows
<1>4. Before(0)' = <<>>
  BY DEF Before
<1>5. PICK body : body = web'[url'].body
  OBVIOUS
<1>6. body \in Seq(Nat)
  BY <1>1, <1>5, WebAssumption
<1>7. 0 \in 0 .. Len(body) /\ SubSeq(body, 1, 0) = <<>>
  BY <1>6
<1>8. <<>> \o SubSeq(body, 1, 0) = <<>>
  BY <1>7, EmptySeq, ConcatEmptySeq
<1>9. Performing(0)'
  BY <1>1, <1>2, <1>3, <1>4, <1>5, <1>7, <1>8 DEF Performing
<1>10. (\E n \in Nat : Performing(n))'
  BY <1>9
<1> QED
  BY <1>1, <1>10 DEF Inv, NoReply

LEMMA StepCallback == Inv /\ curlCallback => Inv'
<1> SUFFICES ASSUME Inv, curlCallback PROVE Inv'
  OBVIOUS
<1>1. /\ at = "perform" /\ url # None /\ part < Len(web[url].body)
      /\ UNCHANGED <<web, at, url, start, broken, reply>>
      /\ part' = part + 1
      /\ serverResponse' = Append(serverResponse, web[url].body[part + 1])
      /\ web \in Webs /\ start \in Urls /\ reply = NoReply
  BY DEF Inv, curlCallback, Transferring, infoVars
<1>2. ASSUME broken = FALSE PROVE (\E n \in Nat : Performing(n))'
  <2>1. PICK n \in Nat : Performing(n)
    BY <1>1, <1>2 DEF Inv
  <2>2. PICK body, old : body = web[url].body /\ old = Before(n)
    OBVIOUS
  <2>3. /\ url = Hop(n) /\ Follows(n) /\ part \in 0 .. Len(body)
        /\ serverResponse = old \o SubSeq(body, 1, part)
    BY <1>1, <2>1, <2>2 DEF Performing
  <2>4. url \in Urls /\ body \in Seq(Nat) /\ old \in Seq(Nat)
    BY <1>1, <2>2, <2>3, HopFacts
  <2>5. SubSeq(body, 1, part + 1) = Append(SubSeq(body, 1, part), body[part + 1])
    BY <1>1, <2>2, <2>3, <2>4, SMTT(30)
  <2>6. SubSeq(body, 1, part) \in Seq(Nat) /\ body[part + 1] \in Nat
    <3>1. part \in Int /\ 1 \in Int /\ part + 1 \in 1 .. Len(body)
          /\ \A i \in 1 .. part : i \in 1 .. Len(body)
      BY <1>1, <2>2, <2>3, <2>4
    <3>2. body[part + 1] \in Nat /\ \A i \in 1 .. part : body[i] \in Nat
      BY <2>4, <3>1, ElementOfSeq
    <3> QED
      BY <3>1, <3>2, SubSeqProperties
  <2>7. Append(old \o SubSeq(body, 1, part), body[part + 1])
          = old \o Append(SubSeq(body, 1, part), body[part + 1])
    <3>1. PICK a, c : a = SubSeq(body, 1, part) /\ c = body[part + 1]
      OBVIOUS
    <3>2. a \in Seq(Nat) /\ <<c>> \in Seq(Nat) /\ c \in Nat
      BY <2>6, <3>1
    <3>3. old \o a \in Seq(Nat)
      BY <2>4, <3>2, ConcatProperties
    <3>4. Append(old \o a, c) = (old \o a) \o <<c>> /\ Append(a, c) = a \o <<c>>
      BY <3>2, <3>3, AppendIsConcat
    <3>5. (old \o a) \o <<c>> = old \o (a \o <<c>>)
      BY <2>4, <3>2, ConcatAssociative
    <3> QED
      BY <3>1, <3>4, <3>5
  <2>8. serverResponse' = old \o SubSeq(body, 1, part')
    BY <1>1, <2>2, <2>3, <2>5, <2>7
  <2>9. part' \in 0 .. Len(body)
    BY <1>1, <2>2, <2>3, <2>4
  <2>10. Hop(n)' = Hop(n) /\ Before(n)' = Before(n) /\ Follows(n)'
    BY <1>1, <2>3, HopsStay
  <2>11. Performing(n)'
    BY <1>1, <2>2, <2>3, <2>8, <2>9, <2>10 DEF Performing
  <2> QED
    BY <2>11
<1> QED
  BY <1>1, <1>2 DEF Inv, NoReply


(* The steps that end a transfer, with the answer of its server or without.*)
LEMMA StepCompletes == Inv /\ TransferCompletes => Inv'
<1> SUFFICES ASSUME Inv, TransferCompletes PROVE Inv'
  OBVIOUS
<1>1. /\ at = "perform" /\ url # None /\ part = Len(web[url].body)
      /\ UNCHANGED <<web, url, serverResponse, start, broken, reply>>
      /\ at' = "check"
      /\ http_code' = web[url].code
      /\ nextURL' = IF web[url].code \in Redirects THEN web[url].next ELSE None
      /\ web \in Webs /\ start \in Urls /\ reply = NoReply
  BY DEF Inv, TransferCompletes, Transferring, transferVars
<1>2. ASSUME broken = FALSE PROVE (\E n \in Nat : Checking(n))'
  <2>1. PICK n \in Nat : Performing(n)
    BY <1>1, <1>2 DEF Inv
  <2>2. PICK body, old : body = web[url].body /\ old = Before(n)
    OBVIOUS
  <2>3. url = Hop(n) /\ Follows(n) /\ serverResponse = old \o SubSeq(body, 1, part)
    BY <1>1, <2>1, <2>2 DEF Performing
  <2>4. url \in Urls /\ body \in Seq(Nat) /\ old \in Seq(Nat) /\ Bodies(n) = old \o body
    BY <1>1, <2>2, <2>3, HopFacts
  <2>5. SubSeq(body, 1, part) = body
    BY <1>1, <2>2, <2>4, SubSeqFull
  <2>6. Hop(n)' = Hop(n) /\ Bodies(n)' = Bodies(n) /\ Follows(n)'
    BY <1>1, <2>3, HopsStay
  <2>7. Checking(n)'
    BY <1>1, <2>3, <2>4, <2>5, <2>6 DEF Checking
  <2> QED
    BY <2>7
<1> QED
  BY <1>1, <1>2 DEF Inv, NoReply

LEMMA StepBreaks == Inv /\ (TransferBreaks \/ NoTransfer) => Inv'
<1> SUFFICES ASSUME Inv, TransferBreaks \/ NoTransfer PROVE Inv'
  OBVIOUS
<1>1. /\ web' = web /\ start' = start /\ reply' = reply /\ broken' = TRUE
      /\ at = "perform" /\ at' = "check"
  BY DEF TransferBreaks, NoTransfer, Transferring
<1> QED
  BY <1>1 DEF Inv, NoReply

LEMMA StepServerStops == Inv /\ ServerStops => Inv'
<1> SUFFICES ASSUME Inv, ServerStops PROVE Inv'
  OBVIOUS
<1>1. /\ at = "perform" /\ UNCHANGED <<web, at, url, part, serverResponse, start, broken, reply>>
      /\ web \in Webs /\ start \in Urls /\ reply = NoReply
  BY DEF Inv, ServerStops, transferVars
<1>2. ASSUME broken = FALSE PROVE (\E n \in Nat : Performing(n))'
  <2>1. PICK n \in Nat : Performing(n)
    BY <1>1, <1>2 DEF Inv
  <2>2. Hop(n)' = Hop(n) /\ Before(n)' = Before(n) /\ (Follows(n) => Follows(n)')
    BY <1>1, HopsStay
  <2>3. Performing(n)'
    BY <1>1, <2>1, <2>2 DEF Performing
  <2> QED
    BY <2>3
<1> QED
  BY <1>1, <1>2 DEF Inv, NoReply

LEMMA StepRedirect == Inv /\ redirect => Inv'
<1> SUFFICES ASSUME Inv, redirect PROVE Inv'
  OBVIOUS
<1>1. /\ at = "check" /\ at' = "perform" /\ http_code \in Redirects
      /\ url' = nextURL /\ part' = 0
      /\ UNCHANGED <<web, serverResponse, start, broken, reply>>
      /\ web \in Webs /\ start \in Urls /\ reply = NoReply
  BY DEF Inv, redirect, IsRedirect, NextTarget
<1>2. ASSUME broken = FALSE PROVE (\E n \in Nat : Performing(n))'
  <2>1. PICK n \in Nat : Checking(n)
    BY <1>1, <1>2 DEF Inv
  <2>2. /\ url = Hop(n) /\ url \in Urls /\ Follows(n) /\ web[url].code \in Redirects
        /\ nextURL = web[url].next /\ serverResponse = Bodies(n)
    BY <1>1, <2>1 DEF Checking
  <2>3. PICK m \in Nat : m = n + 1
    OBVIOUS
  <2>4. url # None
    BY <2>2, WebAssumption
  <2>5. Hop(m) = nextURL
    BY <1>1, <2>2, <2>3, <2>4, HopFacts
  <2>6. Follows(m)
    <3>1. \A k \in 0 .. m - 1 : k \in 0 .. n - 1 \/ k = n
      BY <2>3
    <3> QED
      BY <2>2, <3>1 DEF Follows
  <2>7. Before(m) = serverResponse
    <3>1. m # 0 /\ m - 1 = n
      BY <2>3
    <3> QED
      BY <2>2, <3>1 DEF Before
  <2>8. Hop(m)' = Hop(m) /\ Before(m)' = Before(m) /\ Follows(m)'
    BY <1>1, <2>6, HopsStay
  <2>9. ASSUME url' # None
        PROVE  /\ part' \in 0 .. Len(web'[url'].body)
               /\ serverResponse' = Before(m)' \o SubSeq(web'[url'].body, 1, part')
    <3>1. PICK body : body = web[url'].body
      OBVIOUS
    <3>2. Hop(m) \in Urls
      BY <1>1, <2>5, <2>9, HopFacts
    <3>3. body \in Seq(Nat) /\ Before(m) \in Seq(Nat)
      BY <1>1, <2>5, <2>6, <3>1, <3>2, HopFacts
    <3>4. 0 \in 0 .. Len(body) /\ SubSeq(body, 1, 0) = <<>>
      BY <3>3
    <3>5. Before(m) \o SubSeq(body, 1, 0) = Before(m)
      BY <3>3, <3>4, ConcatEmptySeq
    <3> QED
      BY <1>1, <2>7, <2>8, <3>1, <3>4, <3>5
  <2>10. Performing(m)'
    BY <1>1, <2>5, <2>8, <2>9 DEF Performing
  <2> QED
    BY <2>10
<1> QED
  BY <1>1, <1>2 DEF Inv, NoReply

LEMMA StepAnswer == Inv /\ answer => Inv'
<1> SUFFICES ASSUME Inv, answer PROVE Inv'
  OBVIOUS
<1>1. /\ at = "check" /\ at' = "idle" /\ http_code \notin Redirects
      /\ reply' = [code |-> 200, body |-> serverResponse]
      /\ UNCHANGED <<web, start, broken>>
      /\ web \in Webs /\ start \in Urls
  BY DEF Inv, answer, IsRedirect
<1>2. ASSUME broken = FALSE PROVE (\E n \in Nat : Relayed(n))'
  <2>1. PICK n \in Nat : Checking(n)
    BY <1>1, <1>2 DEF Inv
  <2>2. /\ url = Hop(n) /\ url \in Urls /\ Follows(n) /\ web[url].code \notin Redirects
        /\ serverResponse = Bodies(n)
    BY <1>1, <2>1 DEF Checking
  <2>3. url # None
    BY <2>2, WebAssumption
  <2>4. Hop(n)' = Hop(n) /\ Bodies(n)' = Bodies(n) /\ Follows(n)'
    BY <1>1, <2>2, HopsStay
  <2>5. reply'.body = Bodies(n)'
    BY <1>1, <2>2, <2>4
  <2>6. IsFinal(n)'
    BY <1>1, <2>2, <2>3, <2>4 DEF IsFinal
  <2>7. Relayed(n)'
    BY <2>4, <2>5, <2>6 DEF Relayed
  <2> QED
    BY <2>7
<1> QED
  BY <1>1, <1>2 DEF Inv

LEMMA Stutter == Inv /\ UNCHANGED vars => Inv'
<1> SUFFICES ASSUME Inv, UNCHANGED vars PROVE Inv'
  OBVIOUS
<1>1. UNCHANGED <<web, at, url, part, serverResponse, http_code, nextURL, start, broken, reply>>
  BY DEF vars, transferVars, infoVars
<1>2. \A n \in Nat : Hop(n)' = Hop(n) /\ Bodies(n)' = Bodies(n) /\ Before(n)' = Before(n)
                     /\ (Follows(n) => Follows(n)')
  BY <1>1, HopsStay
<1>3. ASSUME NEW n \in Nat, Performing(n) PROVE Performing(n)'
  BY <1>1, <1>2, <1>3 DEF Performing
<1>4. ASSUME NEW n \in Nat, Checking(n) PROVE Checking(n)'
  BY <1>1, <1>2, <1>4 DEF Checking
<1>5. ASSUME NEW n \in Nat, Relayed(n) PROVE Relayed(n)'
  BY <1>1, <1>2, <1>5 DEF Relayed, IsFinal
<1>6. /\ (\E n \in Nat : Performing(n)) => (\E n \in Nat : Performing(n))'
      /\ (\E n \in Nat : Checking(n)) => (\E n \in Nat : Checking(n))'
      /\ (\E n \in Nat : Relayed(n)) => (\E n \in Nat : Relayed(n))'
  BY <1>3, <1>4, <1>5
<1> QED
  BY <1>1, <1>6 DEF Inv, NoReply

LEMMA InvNext == Inv /\ [Next]_vars => Inv'
BY StepHandleRequest, StepCallback, StepCompletes, StepBreaks, StepServerStops,
   StepRedirect, StepAnswer, Stutter DEF Next, Thread

LEMMA Invariance == Spec => []Inv
BY Initial, InvNext, PTL DEF Spec

-----------------------------------------------------------------------------

(* A reply of proxy_handler without a broken transfer comes after the last *)
(* redirect, with the bodies of all the answers in order, whatever servers *)
(* there are and whichever way they redirect.                              *)
THEOREM BodiesRelayed == Spec => []RelaysBodies
<1>1. Inv => RelaysBodies
  <2> SUFFICES ASSUME Inv, reply.code # 0, ~broken
      PROVE  LeadsToPage /\ reply.body = Bodies(CHOOSE n \in Hops : TRUE)
    BY DEF RelaysBodies
  <2>1. start \in Urls /\ web \in Webs
    BY DEF Inv
  <2>2. PICK n \in Nat : IsFinal(n) /\ reply.body = Bodies(n)
    BY DEF Inv, Relayed
  <2>3. \A k : IsFinal(k) <=> FinalIn(start, web, k)
    BY HopNow DEF IsFinal, FinalIn
  <2>4. n \in Hops
    BY <2>1, <2>2, <2>3, FinalBound DEF Hops
  <2>5. \A m \in Hops : m = n
    <3>1. \A m \in Hops : m \in Nat /\ FinalIn(start, web, m)
      BY <2>3 DEF Hops
    <3> QED
      BY <2>1, <2>2, <2>3, <3>1, OneFinal
  <2>6. (CHOOSE m \in Hops : TRUE) = n
    BY <2>4, <2>5
  <2>7. start # None
    BY <2>1, WebAssumption
  <2> QED
    BY <2>2, <2>4, <2>6, <2>7 DEF LeadsToPage
<1> QED
  BY <1>1, Invariance, PTL

=============================================================================
