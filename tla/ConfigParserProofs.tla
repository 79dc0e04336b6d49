------------------------- MODULE ConfigParserProofs -------------------------
(* Safety of module ConfigParser for every file.                           *)
EXTENDS ConfigGrammar, SequenceTheorems, Induction

-----------------------------------------------------------------------------
(* Types                                                                   *)

LexTypes == input \in Seq(Chars) /\ state \in TokenStates /\ value \in Seq(Chars)

LEMMA CharTypes ==
  /\ DOMAIN Marks \subseteq Chars /\ DOMAIN Openers \subseteq Chars
  /\ \A c \in DOMAIN Marks : Marks[c] \in TokenTypes
  /\ \A c \in DOMAIN Openers : Openers[c] \in TokenStates
  /\ DOMAIN Quotes \subseteq TokenStates
  /\ Letters \subseteq Chars
  BY DEF Marks, Openers, Quotes, Chars, Specials, TokenTypes, TokenStates

(* What ParseToken does to the types, whichever round it is.               *)
LEMMA LexStep ==
  ASSUME TypeOK, ParseToken
  PROVE  /\ LexTypes' /\ token_type' \in TokenTypes \cup {"NONE"}
         /\ UNCHANGED <<text, last_token_type, treeVars, result>>
<1> USE DEF LexTypes, TypeOK
<1>1. ASSUME NEW s \in Seq(Chars), s # <<>>
      PROVE  Head(s) \in Chars /\ Tail(s) \in Seq(Chars)
  BY <1>1
<1>2. /\ "NORMAL" \in TokenTypes /\ "COMMENT" \in TokenTypes
      /\ "EOF" \in TokenTypes /\ "ERROR" \in TokenTypes
      /\ "NORMAL" \in TokenStates /\ "COMMENT" \in TokenStates
      /\ "INITIAL_WHITESPACE" \in TokenStates
  BY DEF TokenTypes, TokenStates
<1>3. CASE initial_whitespace
  <2>1. input # <<>> /\ input' = Tail(input) /\ Head(input) \in Chars
    BY <1>1, <1>3 DEF initial_whitespace
  <2>2. CASE Head(input) \in DOMAIN Marks /\ Return(Marks[Head(input)], <<Head(input)>>)
    BY <1>1, <1>3, <2>1, <2>2, CharTypes DEF initial_whitespace, Return
  <2>3. CASE Head(input) \in DOMAIN Openers /\ Continue(Openers[Head(input)], <<Head(input)>>)
    BY <1>1, <1>3, <2>1, <2>3, CharTypes DEF initial_whitespace, Continue
  <2>4. CASE Continue("INITIAL_WHITESPACE", value)
    BY <1>1, <1>2, <1>3, <2>1, <2>4 DEF initial_whitespace, Continue
  <2>5. CASE Continue("NORMAL", Append(value, Head(input)))
    BY <1>1, <1>2, <1>3, <2>1, <2>5 DEF initial_whitespace, Continue
  <2> QED
    BY <1>3, <2>2, <2>3, <2>4, <2>5 DEF initial_whitespace
<1>4. ASSUME NEW q \in DOMAIN Quotes, quote(q)
      PROVE  /\ LexTypes' /\ token_type' \in TokenTypes \cup {"NONE"}
             /\ UNCHANGED <<text, last_token_type, treeVars, result>>
  <2>1. input # <<>> /\ input' = Tail(input) /\ Head(input) \in Chars
    BY <1>1, <1>4 DEF quote
  <2>2. CASE Return("NORMAL", Append(value, Head(input)))
    BY <1>1, <1>2, <1>4, <2>1, <2>2 DEF quote, Return
  <2>3. CASE Continue(q, Append(value, Head(input)))
    BY <1>1, <1>4, <2>1, <2>3, CharTypes DEF quote, Continue
  <2> QED
    BY <1>4, <2>2, <2>3 DEF quote
<1>5. CASE comment
  <2>1. input # <<>> /\ input' = Tail(input) /\ Head(input) \in Chars
    BY <1>1, <1>5 DEF comment
  <2>2. CASE Return("COMMENT", value)
    BY <1>1, <1>2, <1>5, <2>1, <2>2 DEF comment, Return
  <2>3. CASE Continue("COMMENT", Append(value, Head(input)))
    BY <1>1, <1>2, <1>5, <2>1, <2>3 DEF comment, Continue
  <2> QED
    BY <1>5, <2>2, <2>3 DEF comment
<1>6. CASE normal
  <2>1. input # <<>> /\ Head(input) \in Chars
    BY <1>1, <1>6 DEF normal
  <2>2. CASE Return("NORMAL", value) /\ UNCHANGED input
    BY <1>2, <1>6, <2>1, <2>2 DEF normal, Return
  <2>3. CASE Continue("NORMAL", Append(value, Head(input))) /\ input' = Tail(input)
    BY <1>1, <1>2, <1>6, <2>1, <2>3 DEF normal, Continue
  <2> QED
    BY <1>6, <2>2, <2>3 DEF normal
<1>7. CASE end_of_file
  BY <1>2, <1>7 DEF end_of_file, Return
<1> QED
  BY <1>3, <1>4, <1>5, <1>6, <1>7 DEF ParseToken

-----------------------------------------------------------------------------
(* The tree of blocks.  Steps of Parse change one statement at a time: the *)
(* last one of the block on top of the stack.                              *)

Heap == Seq(Seq(Statement))

(* The open blocks are blocks, in the order in which they were made.       *)
StackOrdered ==
  /\ \A k \in 1 .. Len(config_stack) : config_stack[k] \in 1 .. Len(blocks)
  /\ \A j, k \in 1 .. Len(config_stack) : j < k => config_stack[j] < config_stack[k]

(* A block made after block t lies in t or in a later one.                 *)
Inside(h, t) ==
  \A a \in DOMAIN h : \A j \in DOMAIN h[a] : h[a][j].child > t => a >= t

(* All that was made after an open block lies in it.                       *)
OpenInside == \A k \in 1 .. Len(config_stack) : Inside(blocks, config_stack[k])

Inv == TypeOK /\ StackOrdered /\ OpenInside /\ StackSafe /\ BlocksFormTree

(* More statements without a block, and other tokens, leave a tree a tree. *)
LEMMA SameChildren ==
  ASSUME NEW h \in Heap, NEW g \in Heap, IsTree(h), Len(g) = Len(h),
         \A b \in 1 .. Len(h) : \A i \in 1 .. Len(h[b]) :
            i \in 1 .. Len(g[b]) /\ g[b][i].child = h[b][i].child,
         \A b \in 1 .. Len(h) : \A i \in 1 .. Len(g[b]) :
            g[b][i].child # 0 => i \in 1 .. Len(h[b])
  PROVE  IsTree(g)
<1>1. /\ DOMAIN h = 1 .. Len(h) /\ DOMAIN g = 1 .. Len(h)
      /\ \A b \in 1 .. Len(h) : DOMAIN h[b] = 1 .. Len(h[b]) /\ DOMAIN g[b] = 1 .. Len(g[b])
  BY DEF Heap
<1>2. ASSUME NEW b \in DOMAIN g, NEW i \in DOMAIN g[b], g[b][i].child # 0
      PROVE  g[b][i].child \in b + 1 .. Len(g)
  <2>1. b \in DOMAIN h /\ i \in DOMAIN h[b] /\ g[b][i].child = h[b][i].child
    BY <1>1, <1>2
  <2> QED
    BY <1>2, <2>1 DEF IsTree
<1>3. ASSUME NEW c \in 2 .. Len(g)
      PROVE  \E b \in DOMAIN g : \E i \in DOMAIN g[b] :
               /\ g[b][i].child = c
               /\ \A d \in DOMAIN g : \A j \in DOMAIN g[d] :
                    g[d][j].child = c => d = b /\ j = i
  <2>1. PICK b \in DOMAIN h : \E i \in DOMAIN h[b] :
               /\ h[b][i].child = c
               /\ \A d \in DOMAIN h : \A j \in DOMAIN h[d] :
                    h[d][j].child = c => d = b /\ j = i
    BY DEF IsTree
  <2>2. PICK i \in DOMAIN h[b] :
               /\ h[b][i].child = c
               /\ \A d \in DOMAIN h : \A j \in DOMAIN h[d] :
                    h[d][j].child = c => d = b /\ j = i
    BY <2>1
  <2>3. ASSUME NEW d \in DOMAIN g, NEW j \in DOMAIN g[d], g[d][j].child = c
        PROVE  d = b /\ j = i
    <3>1. c # 0
      OBVIOUS
    <3>2. d \in DOMAIN h /\ j \in DOMAIN h[d]
      BY <1>1, <2>3, <3>1
    <3>3. g[d][j].child = h[d][j].child
      BY <1>1, <3>2
    <3> QED
      BY <2>2, <2>3, <3>2, <3>3
  <2>4. b \in DOMAIN g /\ i \in DOMAIN g[b] /\ g[b][i].child = c
    BY <1>1, <2>2
  <2> QED
    BY <2>3, <2>4
<1> QED
  BY <1>2, <1>3 DEF IsTree

(* They also leave the blocks in their order.                              *)
LEMMA SameOrder ==
  ASSUME NEW h \in Heap, NEW g \in Heap, Len(g) = Len(h),
         \A b \in 1 .. Len(h) : \A i \in 1 .. Len(h[b]) :
            i \in 1 .. Len(g[b]) /\ g[b][i].child = h[b][i].child,
         \A b \in 1 .. Len(h) : \A i \in 1 .. Len(g[b]) :
            g[b][i].child # 0 => i \in 1 .. Len(h[b])
  PROVE  /\ InOrder(h) => InOrder(g)
         /\ \A t \in Nat : Inside(h, t) => Inside(g, t)
<1>1. /\ DOMAIN h = 1 .. Len(h) /\ DOMAIN g = 1 .. Len(h)
      /\ \A b \in 1 .. Len(h) : DOMAIN h[b] = 1 .. Len(h[b]) /\ DOMAIN g[b] = 1 .. Len(g[b])
  BY DEF Heap
<1>2. ASSUME NEW b \in DOMAIN g, NEW i \in DOMAIN g[b]
      PROVE  /\ g[b][i].child \in Nat
             /\ g[b][i].child # 0 =>
                  b \in DOMAIN h /\ i \in DOMAIN h[b] /\ g[b][i].child = h[b][i].child
  <2>1. g[b][i] \in Statement
    BY DEF Heap
  <2>2. g[b][i].child \in Nat
    BY <2>1 DEF Statement
  <2> QED
    BY <1>1, <2>2
<1>3. ASSUME InOrder(h) PROVE InOrder(g)
  <2> SUFFICES ASSUME NEW b \in DOMAIN g, NEW i \in DOMAIN g[b],
                      NEW a \in DOMAIN g, NEW j \in DOMAIN g[a],
                      b < g[a][j].child, g[a][j].child < g[b][i].child
               PROVE  a > b \/ (a = b /\ j < i)
    BY DEF InOrder
  <2>1. b \in Nat
    BY <1>1
  <2>2. g[a][j].child # 0 /\ g[b][i].child # 0
    BY <1>2, <2>1
  <2>3. /\ b \in DOMAIN h /\ i \in DOMAIN h[b] /\ g[b][i].child = h[b][i].child
        /\ a \in DOMAIN h /\ j \in DOMAIN h[a] /\ g[a][j].child = h[a][j].child
    BY <1>2, <2>2
  <2> QED
    BY <1>3, <2>3 DEF InOrder
<1>4. ASSUME NEW t \in Nat, Inside(h, t) PROVE Inside(g, t)
  <2> SUFFICES ASSUME NEW a \in DOMAIN g, NEW j \in DOMAIN g[a], g[a][j].child > t
               PROVE  a >= t
    BY DEF Inside
  <2>1. g[a][j].child # 0
    BY <1>2
  <2>2. a \in DOMAIN h /\ j \in DOMAIN h[a] /\ h[a][j].child > t
    BY <1>2, <2>1
  <2> QED
    BY <1>4, <2>2 DEF Inside
<1> QED
  BY <1>3, <1>4

LEMMA Below == \A n \in Nat : \A d \in 1 .. n + 1 : d # n + 1 => d \in 1 .. n
  OBVIOUS

(* A statement that has no block gets one, the newest.                     *)
GetsBlock(h, g, t, n) ==
  /\ h \in Heap /\ t \in 1 .. Len(h) /\ n \in 1 .. Len(h[t]) /\ h[t][n].child = 0
  /\ g \in Heap /\ Len(g) = Len(h) + 1 /\ g[Len(g)] = <<>>
  /\ \A b \in 1 .. Len(h) : /\ Len(g[b]) = Len(h[b])
                            /\ \A i \in 1 .. Len(h[b]) :
                                 b # t \/ i # n => g[b][i] = h[b][i]
  /\ g[t][n].child = Len(g)

LEMMA NewChild ==
  ASSUME NEW h, NEW g, NEW t, NEW n, GetsBlock(h, g, t, n), IsTree(h)
  PROVE  IsTree(g)
<1> DEFINE new == Len(h) + 1
<1> USE DEF GetsBlock
<1>1. /\ DOMAIN h = 1 .. Len(h) /\ DOMAIN g = 1 .. Len(h) + 1
      /\ \A b \in 1 .. Len(h) : DOMAIN h[b] = 1 .. Len(h[b]) /\ DOMAIN g[b] = 1 .. Len(h[b])
      /\ DOMAIN g[new] = {} /\ Len(h) \in Nat
  <2>1. Len(h) \in Nat /\ DOMAIN h = 1 .. Len(h) /\ DOMAIN g = 1 .. Len(h) + 1
    BY DEF Heap
  <2>2. ASSUME NEW b \in 1 .. Len(h)
        PROVE  DOMAIN h[b] = 1 .. Len(h[b]) /\ DOMAIN g[b] = 1 .. Len(h[b])
    <3>1. h[b] \in Seq(Statement) /\ g[b] \in Seq(Statement)
      BY <2>1 DEF Heap
    <3>2. Len(g[b]) = Len(h[b])
      OBVIOUS
    <3> QED
      BY <3>1, <3>2
  <2>3. DOMAIN g[new] = {}
    <3>1. g[new] = <<>>
      OBVIOUS
    <3> QED
      BY <3>1
  <2> QED
    BY <2>1, <2>2, <2>3
<1>2. ASSUME NEW d \in DOMAIN g, NEW j \in DOMAIN g[d]
      PROVE  d \in DOMAIN h /\ j \in DOMAIN h[d] /\ (d # t \/ j # n => g[d][j] = h[d][j])
  <2>1. d # new
    BY <1>1
  <2>2. d \in 1 .. Len(h)
    <3>1. Len(h) \in Nat /\ d \in 1 .. Len(h) + 1 /\ d # Len(h) + 1
      BY <1>1, <2>1
    <3> QED
      BY <3>1, Below
  <2> QED
    BY <1>1, <2>2
<1>3. ASSUME NEW b \in DOMAIN g, NEW i \in DOMAIN g[b], g[b][i].child # 0
      PROVE  g[b][i].child \in b + 1 .. Len(g)
  <2>1. CASE b = t /\ i = n
    BY <1>1, <2>1
  <2>2. CASE b # t \/ i # n
    <3>1. g[b][i] = h[b][i] /\ b \in DOMAIN h /\ i \in DOMAIN h[b]
      BY <1>2, <2>2
    <3>2. h[b][i].child \in b + 1 .. Len(h)
      BY <1>3, <3>1 DEF IsTree
    <3> QED
      BY <1>1, <3>1, <3>2
  <2> QED
    BY <2>1, <2>2
<1>4. ASSUME NEW c \in 2 .. Len(g)
      PROVE  \E b \in DOMAIN g : \E i \in DOMAIN g[b] :
               /\ g[b][i].child = c
               /\ \A d \in DOMAIN g : \A j \in DOMAIN g[d] :
                    g[d][j].child = c => d = b /\ j = i
  <2>1. CASE c = new
    <3>1. t \in DOMAIN g /\ n \in DOMAIN g[t] /\ g[t][n].child = c
      BY <1>1, <2>1
    <3>2. ASSUME NEW d \in DOMAIN g, NEW j \in DOMAIN g[d], g[d][j].child = c,
                 d # t \/ j # n
          PROVE  FALSE
      <4>1. d \in DOMAIN h /\ j \in DOMAIN h[d] /\ h[d][j].child = c
        BY <1>2, <3>2
      <4>2. c # 0
        BY <1>1, <2>1
      <4>3. c \in d + 1 .. Len(h)
        BY <4>1, <4>2 DEF IsTree
      <4> QED
        BY <1>1, <2>1, <4>3
    <3> QED
      BY <3>1, <3>2
  <2>2. CASE c # new
    <3>1. c \in 2 .. Len(h)
      BY <1>1, <2>2
    <3>2. PICK b \in DOMAIN h : \E i \in DOMAIN h[b] :
               /\ h[b][i].child = c
               /\ \A d \in DOMAIN h : \A j \in DOMAIN h[d] :
                    h[d][j].child = c => d = b /\ j = i
      BY <3>1 DEF IsTree
    <3>3. PICK i \in DOMAIN h[b] :
               /\ h[b][i].child = c
               /\ \A d \in DOMAIN h : \A j \in DOMAIN h[d] :
                    h[d][j].child = c => d = b /\ j = i
      BY <3>2
    <3>4. b # t \/ i # n
      BY <3>1, <3>3
    <3>5. b \in DOMAIN g /\ i \in DOMAIN g[b] /\ g[b][i].child = c
      BY <1>1, <3>3, <3>4
    <3>6. ASSUME NEW d \in DOMAIN g, NEW j \in DOMAIN g[d], g[d][j].child = c
          PROVE  d = b /\ j = i
      <4>1. d # t \/ j # n
        BY <1>1, <2>2, <3>6
      <4>2. d \in DOMAIN h /\ j \in DOMAIN h[d] /\ h[d][j].child = c
        BY <1>2, <3>6, <4>1
      <4> QED
        BY <3>3, <4>2
    <3> QED
      BY <3>5, <3>6
  <2> QED
    BY <2>1, <2>2
<1> QED
  BY <1>3, <1>4 DEF IsTree

(* If it is the last statement of an open block, the new block comes last  *)
(* in the order, too.                                                      *)
LEMMA NewInOrder ==
  ASSUME NEW h, NEW g, NEW t, NEW n, GetsBlock(h, g, t, n), IsTree(h),
         n = Len(h[t]), InOrder(h), Inside(h, t)
  PROVE  /\ InOrder(g) /\ Inside(g, Len(g))
         /\ \A u \in 1 .. t : Inside(h, u) => Inside(g, u)
<1>1. Len(h) \in Nat /\ DOMAIN h = 1 .. Len(h) /\ DOMAIN g = 1 .. Len(h) + 1
      /\ Len(g) = Len(h) + 1 /\ g[Len(g)] = <<>> /\ g[t][n].child = Len(g) /\ t \in 1 .. Len(h)
  BY DEF GetsBlock, Heap
<1>2. ASSUME NEW d \in DOMAIN g, NEW j \in DOMAIN g[d]
      PROVE  /\ d \in DOMAIN h /\ j \in DOMAIN h[d] /\ d \in Nat /\ j \in Nat
             /\ d # t \/ j # n => /\ g[d][j] = h[d][j] /\ g[d][j].child \in Nat
                                  /\ g[d][j].child <= Len(h)
             /\ d = t => j <= n
  <2>1. d # Len(h) + 1
    <3>1. d # Len(g)
      BY <1>1
    <3> QED
      BY <1>1, <3>1
  <2>2. d \in 1 .. Len(h) /\ d \in Nat
    BY <1>1, <2>1, SMTT(30)
  <2>3. h[d] \in Seq(Statement) /\ g[d] \in Seq(Statement) /\ Len(g[d]) = Len(h[d])
    BY <1>1, <2>2 DEF GetsBlock, Heap
  <2>4. j \in 1 .. Len(h[d]) /\ j \in DOMAIN h[d] /\ j \in Nat /\ h[d][j] \in Statement
    BY <2>3
  <2>5. ASSUME d # t \/ j # n
        PROVE  g[d][j] = h[d][j] /\ g[d][j].child \in Nat /\ g[d][j].child <= Len(h)
    <3>1. g[d][j] = h[d][j]
      BY <2>2, <2>4, <2>5 DEF GetsBlock
    <3>2. h[d][j].child \in Nat
      BY <2>4 DEF Statement
    <3>3. h[d][j].child # 0 => h[d][j].child \in d + 1 .. Len(h)
      BY <1>1, <2>2, <2>4 DEF IsTree
    <3> QED
      BY <1>1, <3>1, <3>2, <3>3
  <2>6. d = t => j <= n
    BY <2>4
  <2> QED
    BY <1>1, <2>2, <2>4, <2>5, <2>6
<1>3. InOrder(g)
  <2> SUFFICES ASSUME NEW b \in DOMAIN g, NEW i \in DOMAIN g[b],
                      NEW a \in DOMAIN g, NEW j \in DOMAIN g[a],
                      b < g[a][j].child, g[a][j].child < g[b][i].child
               PROVE  a > b \/ (a = b /\ j < i)
    BY DEF InOrder
  <2>1. a # t \/ j # n
    <3> SUFFICES ASSUME a = t, j = n PROVE FALSE
      OBVIOUS
    <3>1. Len(g) < g[b][i].child
      BY <1>1
    <3>2. CASE b = t /\ i = n
      BY <1>1, <3>1, <3>2
    <3>3. CASE b # t \/ i # n
      BY <1>1, <1>2, <3>1, <3>3
    <3> QED
      BY <3>2, <3>3
  <2>2. a \in DOMAIN h /\ j \in DOMAIN h[a] /\ h[a][j].child = g[a][j].child
    BY <1>2, <2>1
  <2>3. CASE b = t /\ i = n
    <3>1. h[a][j].child > t
      BY <1>1, <1>2, <2>1, <2>2, <2>3
    <3>2. a >= t
      BY <2>2, <3>1 DEF Inside
    <3> QED
      BY <1>1, <1>2, <2>1, <2>3, <3>2
  <2>4. CASE b # t \/ i # n
    <3>1. b \in DOMAIN h /\ i \in DOMAIN h[b] /\ h[b][i].child = g[b][i].child
      BY <1>2, <2>4
    <3> QED
      BY <2>2, <3>1 DEF InOrder
  <2> QED
    BY <2>3, <2>4
<1>4. Inside(g, Len(g))
  <2>1. ASSUME NEW a \in DOMAIN g, NEW j \in DOMAIN g[a] PROVE ~(g[a][j].child > Len(g))
    BY <1>1, <1>2
  <2> QED
    BY <2>1 DEF Inside
<1>5. ASSUME NEW u \in 1 .. t, Inside(h, u) PROVE Inside(g, u)
  <2> SUFFICES ASSUME NEW a \in DOMAIN g, NEW j \in DOMAIN g[a], g[a][j].child > u
               PROVE  a >= u
    BY DEF Inside
  <2>1. CASE a = t /\ j = n
    BY <1>1, <2>1
  <2>2. CASE a # t \/ j # n
    BY <1>2, <1>5, <2>2 DEF Inside
  <2> QED
    BY <2>1, <2>2
<1> QED
  BY <1>3, <1>4, <1>5

(* The block on top of the stack, and the open blocks below it.            *)
LEMMA TopBlock ==
  ASSUME Inv
  PROVE  /\ Len(config_stack) \in Nat /\ Len(config_stack) > 0
         /\ Top \in 1 .. Len(blocks) /\ blocks[Top] \in Seq(Statement)
         /\ \A k \in 1 .. Len(config_stack) - 1 :
              config_stack[k] \in 1 .. Len(blocks) /\ config_stack[k] # Top
<1>1. config_stack \in Seq(Nat) /\ blocks \in Seq(Seq(Statement))
  BY DEF Inv, TypeOK
<1>2. Len(config_stack) \in Nat /\ Len(config_stack) > 0
  BY <1>1 DEF Inv, StackSafe
<1>3. Top \in 1 .. Len(blocks)
  BY <1>1, <1>2 DEF Inv, StackOrdered, Top
<1>4. \A k \in 1 .. Len(config_stack) - 1 :
        config_stack[k] \in 1 .. Len(blocks) /\ config_stack[k] < Top
  BY <1>1, <1>2 DEF Inv, StackOrdered, Top
<1> QED
  BY <1>1, <1>2, <1>3, <1>4

(* A word changes the block on top of the stack only: it adds a statement  *)
(* or extends the last one.                                                *)
LEMMA TopChanges ==
  ASSUME Inv, NEW B \in Seq(Statement),
         blocks' = [blocks EXCEPT ![Top] = B],
         Len(B) > 0, B[Len(B)].child = 0,
         Len(blocks[Top]) <= Len(B),
         \A i \in 1 .. Len(blocks[Top]) : B[i].child = blocks[Top][i].child,
         \A i \in 1 .. Len(B) : B[i].child # 0 => i \in 1 .. Len(blocks[Top]),
         UNCHANGED <<num_start_block, num_end_block, config_stack>>
  PROVE  blocks' \in Heap /\ StackOrdered' /\ OpenInside' /\ StackSafe' /\ BlocksFormTree'
<1>1. blocks \in Heap /\ config_stack \in Seq(Nat)
  BY DEF Inv, TypeOK, Heap
<1>2. /\ blocks' \in Heap /\ Len(blocks') = Len(blocks)
      /\ blocks'[Top] = B
      /\ \A b \in 1 .. Len(blocks) : b # Top => blocks'[b] = blocks[b]
  BY <1>1, TopBlock DEF Heap
<1>3. StackOrdered'
  BY <1>2 DEF Inv, StackOrdered
<1>4. StackSafe'
  <2>1. Top' = Top /\ Back' = Len(B)
    BY <1>2 DEF Top, Back
  <2>2. ASSUME NEW k \in 1 .. Len(config_stack) - 1
        PROVE  blocks'[config_stack[k]] = blocks[config_stack[k]]
    BY <1>2, TopBlock
  <2> QED
    BY <1>1, <1>2, <2>1, <2>2, TopBlock DEF Inv, StackSafe
<1>5. IsTree(blocks') /\ InOrder(blocks') /\ OpenInside'
  <2>1. IsTree(blocks) /\ InOrder(blocks)
    BY DEF Inv, BlocksFormTree
  <2>2. \A b \in 1 .. Len(blocks) : \A i \in 1 .. Len(blocks[b]) :
          i \in 1 .. Len(blocks'[b]) /\ blocks'[b][i].child = blocks[b][i].child
    BY <1>1, <1>2, TopBlock DEF Heap
  <2>3. \A b \in 1 .. Len(blocks) : \A i \in 1 .. Len(blocks'[b]) :
          blocks'[b][i].child # 0 => i \in 1 .. Len(blocks[b])
    BY <1>1, <1>2, TopBlock DEF Heap
  <2> DEFINE g == blocks'
  <2>4. g \in Heap /\ Len(g) = Len(blocks)
    BY <1>2
  <2> HIDE DEF g
  <2>5. \A b \in 1 .. Len(blocks) : \A i \in 1 .. Len(blocks[b]) :
          i \in 1 .. Len(g[b]) /\ g[b][i].child = blocks[b][i].child
    BY <2>2 DEF g
  <2>6. \A b \in 1 .. Len(blocks) : \A i \in 1 .. Len(g[b]) :
          g[b][i].child # 0 => i \in 1 .. Len(blocks[b])
    BY <2>3 DEF g
  <2>7. IsTree(g)
    BY <1>1, <2>1, <2>4, <2>5, <2>6, SameChildren
  <2>8. InOrder(g) /\ \A t \in Nat : Inside(blocks, t) => Inside(g, t)
    BY <1>1, <2>1, <2>4, <2>5, <2>6, SameOrder
  <2>9. \A k \in 1 .. Len(config_stack) : config_stack[k] \in Nat
    BY <1>1
  <2>10. \A k \in 1 .. Len(config_stack) : Inside(g, config_stack[k])
    BY <2>8, <2>9 DEF Inv, OpenInside
  <2>11. \A k \in 1 .. Len(config_stack') : Inside(blocks', config_stack'[k])
    BY <2>10 DEF g
  <2> QED
    BY <2>7, <2>8, <2>11 DEF g, OpenInside
<1> QED
  BY <1>2, <1>3, <1>4, <1>5 DEF BlocksFormTree

-----------------------------------------------------------------------------
(* The steps of Parse                                                      *)

(* What no step of Parse but the end of the file touches.                  *)
LEMMA NextTokenTypes ==
  ASSUME TypeOK, NextToken
  PROVE  LexTypes' /\ token_type' = "NONE" /\ UNCHANGED <<text, result>>
<1>1. "INITIAL_WHITESPACE" \in TokenStates
  BY DEF TokenStates
<1> QED
  BY <1>1 DEF TypeOK, NextToken, LexTypes

LEMMA InvUnchanged ==
  ASSUME Inv, UNCHANGED <<last_token_type, treeVars>>,
         LexTypes', token_type' \in TokenTypes \cup {"NONE"}, text' = text,
         result' \in {"opening", "unreadable", "parsing", "true", "false"}
  PROVE  Inv'
<1>1. TypeOK'
  BY DEF Inv, TypeOK, LexTypes, treeVars
<1>2. StackOrdered' /\ OpenInside' /\ StackSafe' /\ BlocksFormTree'
  BY DEF Inv, StackOrdered, OpenInside, StackSafe, BlocksFormTree, Top, Back, treeVars
<1> QED
  BY <1>1, <1>2 DEF Inv

LEMMA RejectInv ==
  ASSUME Inv, Reject
  PROVE  Inv'
<1>1. LexTypes' /\ token_type' \in TokenTypes \cup {"NONE"} /\ text' = text
  BY DEF Inv, TypeOK, LexTypes, Reject, lexVars
<1> QED
  BY <1>1, InvUnchanged DEF Reject

(* The two edits of a statement.                                           *)
LEMMA StatementEdits ==
  ASSUME NEW r \in Statement, NEW v \in Seq(Chars), NEW n \in Nat
  PROVE  /\ [r EXCEPT !.tokens = Append(@, v)] \in Statement
         /\ [r EXCEPT !.tokens = Append(@, v)].child = r.child
         /\ [r EXCEPT !.child = n] \in Statement
         /\ [r EXCEPT !.child = n].child = n
<1>1. r.tokens \in Seq(Seq(Chars)) /\ r.child \in Nat
  BY DEF Statement
<1>2. Append(r.tokens, v) \in Seq(Seq(Chars))
  BY <1>1
<1>3. [r EXCEPT !.tokens = Append(@, v)] = [tokens |-> Append(r.tokens, v), child |-> r.child]
  <2> DEFINE more == Append(r.tokens, v)
  <2>1. [r EXCEPT !.tokens = Append(@, v)] = [r EXCEPT !.tokens = more]
    OBVIOUS
  <2> HIDE DEF more
  <2>2. [r EXCEPT !.tokens = more] = [tokens |-> more, child |-> r.child]
    BY DEF Statement
  <2> QED
    BY <2>1, <2>2 DEF more
<1>4. [r EXCEPT !.child = n] = [tokens |-> r.tokens, child |-> n]
  BY DEF Statement
<1> QED
  BY <1>1, <1>2, <1>3, <1>4 DEF Statement

(* A word: a new statement, or one more token of the last one.             *)
LEMMA NormalToken ==
  ASSUME Inv, normal_token
  PROVE  Inv'
<1>1. TypeOK /\ value \in Seq(Chars)
  BY DEF Inv, TypeOK
<1>2. LexTypes' /\ token_type' = "NONE" /\ UNCHANGED <<text, result>>
  BY <1>1, NextTokenTypes DEF normal_token, Accept
<1>3. /\ last_token_type' = "NORMAL"
      /\ UNCHANGED <<num_start_block, num_end_block, config_stack>>
  BY DEF normal_token, Accept
<1>4. blocks' \in Heap /\ StackOrdered' /\ OpenInside' /\ StackSafe' /\ BlocksFormTree'
  <2>1. CASE NewStatement
    <3> DEFINE s == [tokens |-> <<value>>, child |-> 0]
               B == Append(blocks[Top], s)
    <3>1. s \in Statement /\ s.child = 0
      BY <1>1 DEF Statement
    <3>2. blocks' = [blocks EXCEPT ![Top] = B]
      BY <2>1 DEF normal_token
    <3> HIDE DEF s
    <3>3. /\ B \in Seq(Statement) /\ Len(B) = Len(blocks[Top]) + 1
          /\ Len(blocks[Top]) \in Nat /\ B[Len(B)] = s
          /\ \A i \in 1 .. Len(blocks[Top]) : B[i] = blocks[Top][i]
      BY <3>1, TopBlock
    <3> HIDE DEF B
    <3>4. /\ Len(B) > 0 /\ B[Len(B)].child = 0 /\ Len(blocks[Top]) <= Len(B)
          /\ \A i \in 1 .. Len(blocks[Top]) : B[i].child = blocks[Top][i].child
          /\ \A i \in 1 .. Len(B) : B[i].child # 0 => i \in 1 .. Len(blocks[Top])
      BY <3>1, <3>3
    <3> QED
      BY <1>3, <3>1, <3>2, <3>3, <3>4, TopChanges
  <2>2. CASE ~NewStatement
    <3> DEFINE T == blocks[Top]
               s == [T[Back] EXCEPT !.tokens = Append(@, value)]
               B == [T EXCEPT ![Back] = s]
    <3>1. T \in Seq(Statement) /\ T # <<>> /\ T[Back].child = 0 /\ Back = Len(T)
      BY <2>2, TopBlock DEF NewStatement, Inv, StackSafe, Back
    <3>2. blocks' = [blocks EXCEPT ![Top] = B]
      BY <2>2 DEF normal_token
    <3> HIDE DEF T
    <3>3. Back \in 1 .. Len(T) /\ T[Back] \in Statement
      BY <3>1
    <3>4. s \in Statement /\ s.child = T[Back].child
      BY <1>1, <3>3, StatementEdits
    <3> HIDE DEF s
    <3>5. /\ B \in Seq(Statement) /\ Len(B) = Len(T) /\ B[Back] = s
          /\ \A i \in 1 .. Len(T) : i # Back => B[i] = T[i]
      BY <3>1, <3>3, <3>4
    <3> HIDE DEF B
    <3>6. /\ Len(B) > 0 /\ B[Len(B)].child = 0 /\ Len(T) <= Len(B)
          /\ \A i \in 1 .. Len(T) : B[i].child = T[i].child
          /\ \A i \in 1 .. Len(B) : B[i].child # 0 => i \in 1 .. Len(T)
      BY <3>1, <3>3, <3>4, <3>5
    <3> QED
      BY <1>3, <3>2, <3>5, <3>6, TopChanges DEF T
  <2> QED
    BY <2>1, <2>2
<1>5. TypeOK'
  BY <1>1, <1>2, <1>3, <1>4 DEF TypeOK, LexTypes, Heap
<1> QED
  BY <1>4, <1>5 DEF Inv

(* An opening brace: the last statement gets a block, the new top.         *)
LEMMA StartBlock ==
  ASSUME Inv, Got("START_BLOCK"), ~NoStatement, start_block_token
  PROVE  Inv'
<1> DEFINE new == Len(blocks) + 1
           T == blocks[Top]
           s == [T[Back] EXCEPT !.child = new]
           B == [T EXCEPT ![Back] = s]
           M == [blocks EXCEPT ![Top] = B]
           g == Append(M, <<>>)
<1>1. TypeOK /\ blocks \in Heap /\ config_stack \in Seq(Nat) /\ Len(blocks) \in Nat
  BY DEF Inv, TypeOK, Heap
<1>2. /\ Accept("START_BLOCK") /\ num_start_block' = num_start_block + 1
      /\ num_end_block' = num_end_block /\ last_token_type = "NORMAL"
      /\ blocks' = g /\ config_stack' = Append(config_stack, new)
  BY DEF start_block_token, NoStatement
<1>3. LexTypes' /\ token_type' = "NONE" /\ UNCHANGED <<text, result>>
      /\ last_token_type' = "START_BLOCK"
  BY <1>1, <1>2, NextTokenTypes DEF Accept
<1>4. T \in Seq(Statement) /\ T # <<>> /\ T[Back].child = 0 /\ Back = Len(T)
  BY <1>2, TopBlock DEF Inv, StackSafe, Back
<1> HIDE DEF T
<1>5. Back \in 1 .. Len(T) /\ T[Back] \in Statement
  BY <1>4
<1>6. s \in Statement /\ s.child = new
  <2>1. new \in Nat /\ value \in Seq(Chars)
    BY <1>1 DEF TypeOK
  <2> QED
    BY <1>5, <2>1, StatementEdits
<1> HIDE DEF s, new
<1>7. /\ B \in Seq(Statement) /\ Len(B) = Len(T) /\ B[Back] = s
      /\ \A i \in 1 .. Len(T) : i # Back => B[i] = T[i]
  BY <1>4, <1>5, <1>6
<1> HIDE DEF B
<1>8. /\ M \in Seq(Seq(Statement)) /\ Len(M) = Len(blocks) /\ M[Top] = B
      /\ \A b \in 1 .. Len(blocks) : b # Top => M[b] = blocks[b]
  BY <1>1, <1>7, TopBlock DEF Heap
<1> HIDE DEF M
<1>9. /\ g \in Heap /\ Len(g) = new /\ g[new] = <<>> /\ g[Top] = B
      /\ \A b \in 1 .. Len(blocks) : b # Top => g[b] = blocks[b]
  BY <1>1, <1>8, TopBlock DEF Heap, new
<1> HIDE DEF g
<1>10. /\ IsTree(g) /\ InOrder(g) /\ Inside(g, new)
       /\ \A u \in 1 .. Top : Inside(blocks, u) => Inside(g, u)
  <2>1. IsTree(blocks) /\ InOrder(blocks) /\ Top \in 1 .. Len(blocks)
    BY TopBlock DEF Inv, BlocksFormTree
  <2>2. Back \in 1 .. Len(blocks[Top]) /\ blocks[Top][Back].child = 0
    BY <1>4, <1>5 DEF T
  <2>3. \A b \in 1 .. Len(blocks) :
          /\ Len(g[b]) = Len(blocks[b])
          /\ \A i \in 1 .. Len(blocks[b]) :
               b # Top \/ i # Back => g[b][i] = blocks[b][i]
    BY <1>7, <1>9 DEF T
  <2>4. g[Top][Back].child = Len(g) /\ Len(g) = Len(blocks) + 1 /\ g[Len(g)] = <<>>
    BY <1>6, <1>7, <1>9 DEF new
  <2>5. GetsBlock(blocks, g, Top, Back)
    BY <1>1, <1>9, <2>1, <2>2, <2>3, <2>4 DEF GetsBlock
  <2>6. Inside(blocks, Top) /\ Back = Len(blocks[Top])
    BY TopBlock DEF Inv, OpenInside, Top, Back
  <2>7. Len(g) = new
    BY <1>9
  <2> QED
    BY <2>1, <2>5, <2>6, <2>7, NewChild, NewInOrder
<1>11. /\ config_stack' \in Seq(Nat) /\ Len(config_stack') = Len(config_stack) + 1
       /\ config_stack'[Len(config_stack) + 1] = new
       /\ \A k \in 1 .. Len(config_stack) : config_stack'[k] = config_stack[k]
       /\ Len(config_stack) \in Nat /\ Len(config_stack) > 0 /\ new \in Nat
  BY <1>1, <1>2, TopBlock DEF new
<1>12. StackOrdered'
  <2>1. \A k \in 1 .. Len(config_stack) : config_stack[k] \in 1 .. Len(blocks)
    BY DEF Inv, StackOrdered
  <2>2. \A k \in 1 .. Len(config_stack') : config_stack'[k] \in 1 .. Len(blocks')
    BY <1>1, <1>2, <1>9, <1>11, <2>1 DEF new
  <2>3. \A j, k \in 1 .. Len(config_stack') : j < k => config_stack'[j] < config_stack'[k]
    <3>1. ASSUME NEW j \in 1 .. Len(config_stack'), NEW k \in 1 .. Len(config_stack'), j < k
          PROVE  config_stack'[j] < config_stack'[k]
      <4>1. j \in 1 .. Len(config_stack) /\ config_stack'[j] = config_stack[j]
        BY <1>11, <3>1
      <4>2. CASE k = Len(config_stack) + 1
        BY <1>1, <1>11, <2>1, <4>1, <4>2 DEF new
      <4>3. CASE k # Len(config_stack) + 1
        <5>1. k \in 1 .. Len(config_stack) /\ config_stack'[k] = config_stack[k]
          BY <1>11, <4>3
        <5> QED
          BY <3>1, <4>1, <5>1 DEF Inv, StackOrdered
      <4> QED
        BY <4>2, <4>3
    <3> QED
      BY <3>1
  <2> QED
    BY <2>2, <2>3 DEF StackOrdered
<1>13. StackSafe'
  <2>1. Len(config_stack') + num_end_block' = 1 + num_start_block'
    BY <1>1, <1>2, <1>11 DEF Inv, StackSafe, TypeOK
  <2>2. config_stack' # <<>> /\ config_stack'[1] = 1
    BY <1>11 DEF Inv, StackSafe
  <2>3. ASSUME NEW k \in 1 .. Len(config_stack') - 1
        PROVE  /\ blocks'[config_stack'[k]] # <<>>
               /\ blocks'[config_stack'[k]][Len(blocks'[config_stack'[k]])].child
                    = config_stack'[k + 1]
    <3>1. CASE k = Len(config_stack)
      <4>1. config_stack'[k] = Top /\ config_stack'[k + 1] = new
        BY <1>11, <3>1 DEF Top
      <4>2. blocks'[Top] = B /\ B # <<>> /\ B[Len(B)].child = new
        BY <1>2, <1>4, <1>5, <1>6, <1>7, <1>9
      <4> QED
        BY <4>1, <4>2
    <3>2. CASE k # Len(config_stack)
      <4>1. k \in 1 .. Len(config_stack) - 1 /\ k + 1 \in 1 .. Len(config_stack)
        BY <1>11, <3>2
      <4>2. config_stack'[k] = config_stack[k] /\ config_stack'[k + 1] = config_stack[k + 1]
        BY <1>11, <4>1
      <4>3. blocks'[config_stack[k]] = blocks[config_stack[k]]
        BY <1>2, <1>9, <4>1, TopBlock
      <4> QED
        BY <4>1, <4>2, <4>3 DEF Inv, StackSafe
    <3> QED
      BY <3>1, <3>2
  <2> QED
    BY <1>3, <2>1, <2>2, <2>3 DEF StackSafe
<1>14. TypeOK'
  BY <1>1, <1>2, <1>3, <1>9, <1>11 DEF TypeOK, LexTypes, Heap
<1>15. OpenInside'
  <2>1. ASSUME NEW k \in 1 .. Len(config_stack) + 1
        PROVE  Inside(g, config_stack'[k])
    <3>1. CASE k = Len(config_stack) + 1
      BY <1>10, <1>11, <3>1
    <3>2. CASE k # Len(config_stack) + 1
      <4>1. k \in 1 .. Len(config_stack) /\ config_stack'[k] = config_stack[k]
        BY <1>11, <3>2
      <4>2. config_stack[k] \in 1 .. Len(blocks) /\ Top \in 1 .. Len(blocks)
        BY <4>1, TopBlock DEF Inv, StackOrdered
      <4>3. config_stack[k] <= Top
        <5>1. k = Len(config_stack) \/ k < Len(config_stack)
          BY <1>11, <4>1
        <5>2. CASE k = Len(config_stack)
          BY <4>2, <5>2 DEF Top
        <5>3. CASE k < Len(config_stack)
          <6>1. Len(config_stack) \in 1 .. Len(config_stack)
            BY <1>11
          <6>2. config_stack[k] < config_stack[Len(config_stack)]
            BY <4>1, <5>3, <6>1 DEF Inv, StackOrdered
          <6> QED
            BY <4>2, <6>2 DEF Top
        <5> QED
          BY <5>1, <5>2, <5>3
      <4>4. config_stack[k] \in 1 .. Top
        BY <4>2, <4>3
      <4> QED
        BY <1>10, <4>1, <4>4 DEF Inv, OpenInside
    <3> QED
      BY <3>1, <3>2
  <2> QED
    BY <1>2, <1>11, <2>1 DEF OpenInside
<1> QED
  BY <1>2, <1>10, <1>12, <1>13, <1>14, <1>15 DEF Inv, BlocksFormTree

(* A closing brace in its place: the block under the top is open again.    *)
LEMMA EndBlock ==
  ASSUME Inv, Accept("END_BLOCK"), ~Misplaced, num_end_block' = num_end_block + 1,
         config_stack' = SubSeq(config_stack, 1, Len(config_stack) - 1),
         UNCHANGED <<num_start_block, blocks>>
  PROVE  Inv'
<1>1. TypeOK /\ config_stack \in Seq(Nat)
  BY DEF Inv, TypeOK
<1>2. LexTypes' /\ token_type' = "NONE" /\ UNCHANGED <<text, result>>
      /\ last_token_type' = "END_BLOCK"
  BY <1>1, NextTokenTypes DEF Accept
<1>3. Len(config_stack) > 1 /\ Len(config_stack) \in Nat
  BY <1>1 DEF Inv, StackSafe, Misplaced, TypeOK
<1>4. /\ config_stack' \in Seq(Nat) /\ Len(config_stack') = Len(config_stack) - 1
      /\ \A k \in 1 .. Len(config_stack) - 1 : config_stack'[k] = config_stack[k]
  BY <1>1, <1>3
<1>5. StackOrdered' /\ OpenInside'
  <2>1. \A k \in 1 .. Len(config_stack') :
          k \in 1 .. Len(config_stack) /\ config_stack'[k] = config_stack[k]
    BY <1>3, <1>4
  <2> QED
    BY <2>1 DEF Inv, StackOrdered, OpenInside
<1>6. StackSafe'
  <2>1. Len(config_stack') + num_end_block' = 1 + num_start_block'
    <3>1. Len(config_stack) + num_end_block = 1 + num_start_block
      BY DEF Inv, StackSafe
    <3>2. num_end_block \in Nat /\ num_start_block \in Nat
      BY <1>1 DEF TypeOK
    <3>3. \A l, e, n \in Nat : l + e = 1 + n => (l - 1) + (e + 1) = 1 + n
      OBVIOUS
    <3>4. (Len(config_stack) - 1) + (num_end_block + 1) = 1 + num_start_block
      BY <1>3, <3>1, <3>2, <3>3
    <3> QED
      BY <1>4, <3>4
  <2>2. config_stack' # <<>> /\ config_stack'[1] = 1
    BY <1>3, <1>4 DEF Inv, StackSafe
  <2>3. ASSUME NEW k \in 1 .. Len(config_stack') - 1
        PROVE  /\ blocks'[config_stack'[k]] # <<>>
               /\ blocks'[config_stack'[k]][Len(blocks'[config_stack'[k]])].child
                    = config_stack'[k + 1]
    <3>1. /\ k \in 1 .. Len(config_stack) - 1
          /\ config_stack'[k] = config_stack[k] /\ config_stack'[k + 1] = config_stack[k + 1]
      BY <1>3, <1>4
    <3> QED
      BY <3>1 DEF Inv, StackSafe
  <2> QED
    BY <1>2, <2>1, <2>2, <2>3 DEF StackSafe
<1>7. TypeOK'
  BY <1>1, <1>2, <1>4 DEF TypeOK, LexTypes
<1> QED
  BY <1>5, <1>6, <1>7 DEF Inv, BlocksFormTree

LEMMA ParseInv ==
  ASSUME Inv, Parse
  PROVE  Inv'
<1>1. TypeOK
  BY DEF Inv
<1>2. CASE skip_comment
  <2>1. LexTypes' /\ token_type' = "NONE" /\ UNCHANGED <<text, result>>
    BY <1>1, <1>2, NextTokenTypes DEF skip_comment
  <2> QED
    BY <1>1, <1>2, <2>1, InvUnchanged DEF skip_comment, TypeOK
<1>3. CASE normal_token
  BY <1>3, NormalToken
<1>4. CASE statement_end_token
  <2>1. CASE Reject
    BY <2>1, RejectInv
  <2>2. CASE Accept("STATEMENT_END") /\ UNCHANGED treeVars
    <3>1. LexTypes' /\ token_type' = "NONE" /\ UNCHANGED <<text, result>>
          /\ last_token_type' = "STATEMENT_END"
      BY <1>1, <2>2, NextTokenTypes DEF Accept
    <3>2. TypeOK'
      BY <1>1, <2>2, <3>1 DEF TypeOK, LexTypes, treeVars
    <3>3. StackOrdered' /\ OpenInside' /\ StackSafe' /\ BlocksFormTree'
      BY <2>2, <3>1 DEF Inv, StackOrdered, OpenInside, StackSafe, BlocksFormTree, treeVars
    <3> QED
      BY <3>2, <3>3 DEF Inv
  <2> QED
    BY <1>4, <2>1, <2>2 DEF statement_end_token
<1>5. CASE start_block_token
  <2>1. CASE NoStatement
    BY <1>5, <2>1, RejectInv DEF start_block_token
  <2>2. CASE ~NoStatement
    BY <1>5, <2>2, StartBlock DEF start_block_token
  <2> QED
    BY <2>1, <2>2
<1>6. CASE end_block_token
  <2>1. CASE Misplaced
    BY <1>6, <2>1, RejectInv DEF end_block_token
  <2>2. CASE ~Misplaced
    BY <1>6, <2>2, EndBlock DEF end_block_token
  <2> QED
    BY <2>1, <2>2
<1>7. CASE end_of_input
  <2>1. CASE Reject
    BY <2>1, RejectInv
  <2>2. CASE ~Reject
    <3>1. result' = "true" /\ UNCHANGED <<text, lexVars, last_token_type, treeVars>>
      BY <1>7, <2>2 DEF end_of_input
    <3>2. LexTypes' /\ token_type' \in TokenTypes \cup {"NONE"} /\ text' = text
      BY <1>1, <3>1 DEF TypeOK, LexTypes, lexVars
    <3> QED
      BY <3>1, <3>2, InvUnchanged
  <2> QED
    BY <2>1, <2>2
<1>8. CASE error_token
  BY <1>8, RejectInv DEF error_token
<1> QED
  BY <1>2, <1>3, <1>4, <1>5, <1>6, <1>7, <1>8 DEF Parse

-----------------------------------------------------------------------------
(* The theorems                                                            *)

LEMMA InitInv == Init => Inv
<1> SUFFICES ASSUME Init PROVE Inv
  OBVIOUS
<1>1. blocks = << <<>> >> /\ config_stack = <<1>> /\ text \in Seq(Chars)
  BY TextAssumption DEF Init
<1>2. <<>> \in Seq(Statement) /\ Len(blocks) = 1 /\ DOMAIN blocks = {1}
      /\ blocks[1] = <<>> /\ Len(config_stack) = 1 /\ config_stack[1] = 1
  BY <1>1
<1>3. blocks \in Seq(Seq(Statement)) /\ config_stack \in Seq(Nat)
  BY <1>1, <1>2
<1>4. TypeOK
  BY <1>1, <1>3 DEF Init, TypeOK, TokenStates, TokenTypes
<1>5. StackOrdered
  BY <1>2 DEF StackOrdered
<1>6. StackSafe
  BY <1>2 DEF Init, StackSafe
<1>7. BlocksFormTree
  BY <1>2 DEF BlocksFormTree, IsTree, InOrder
<1>8. OpenInside
  BY <1>2 DEF OpenInside, Inside
<1> QED
  BY <1>4, <1>5, <1>6, <1>7, <1>8 DEF Inv

LEMMA StepInv ==
  ASSUME Inv, [Next]_vars
  PROVE  Inv'
<1>1. TypeOK
  BY DEF Inv
<1>2. CASE open
  <2>1. LexTypes' /\ token_type' \in TokenTypes \cup {"NONE"} /\ text' = text
    BY <1>1, <1>2 DEF open, TypeOK, LexTypes, lexVars
  <2> QED
    BY <1>2, <2>1, InvUnchanged DEF open
<1>3. CASE ParseToken
  <2>1. /\ LexTypes' /\ token_type' \in TokenTypes \cup {"NONE"}
        /\ UNCHANGED <<text, last_token_type, treeVars, result>>
    BY <1>1, <1>3, LexStep
  <2> QED
    BY <1>1, <2>1, InvUnchanged DEF TypeOK
<1>4. CASE Parse
  BY <1>4, ParseInv
<1>5. CASE UNCHANGED vars
  <2>1. /\ LexTypes' /\ token_type' \in TokenTypes \cup {"NONE"}
        /\ UNCHANGED <<text, last_token_type, treeVars, result>>
    BY <1>1, <1>5 DEF vars, TypeOK, LexTypes, lexVars
  <2> QED
    BY <1>1, <2>1, InvUnchanged DEF TypeOK
<1> QED
  BY <1>2, <1>3, <1>4, <1>5 DEF Next

LEMMA Invariance == Spec => []Inv
  BY InitInv, StepInv, PTL DEF Spec

(* Type correctness of the parser for every set of files.                  *)
THEOREM ParserTypes == Spec => []TypeOK
<1>1. Inv => TypeOK
  BY DEF Inv
<1> QED
  BY <1>1, Invariance, PTL

(* Whatever the file, config_stack.top() and statements_.back() of Parse   *)
(* find something, pop() leaves the root, and no block is freed: the open  *)
(* blocks are the path to the last statement.                              *)
THEOREM StackAlwaysSafe == Spec => []StackSafe
<1>1. Inv => StackSafe
  BY DEF Inv
<1> QED
  BY <1>1, Invariance, PTL

(* Whatever the file, the blocks that Parse has made form a tree, so that  *)
(* the recursive get_handler_paths and ToString end, and are numbered as   *)
(* their braces open.                                                      *)
THEOREM ParseBuildsTree == Spec => []BlocksFormTree
<1>1. Inv => BlocksFormTree
  BY DEF Inv
<1> QED
  BY <1>1, Invariance, PTL

-----------------------------------------------------------------------------
(* Reading a text.  Rest(t, q) is what is left of t from q on.             *)

Text == Seq(Chars)
Lexeme == [type : TokenTypes, value : Seq(Chars)]

Rest(t, q) == SubSeq(t, q, Len(t))

LEMMA TextFacts ==
  ASSUME NEW t \in Text
  PROVE  Len(t) \in Nat /\ DOMAIN t = 1 .. Len(t) /\ \A n \in 1 .. Len(t) : t[n] \in Chars
  BY DEF Text

LEMMA RestFacts ==
  ASSUME NEW t \in Text, NEW q \in 1 .. Len(t) + 1
  PROVE  /\ Rest(t, q) = <<>> => q = Len(t) + 1
         /\ Rest(t, q) # <<>> => /\ q \in 1 .. Len(t) /\ q + 1 \in 1 .. Len(t) + 1
                                 /\ Head(Rest(t, q)) = t[q]
                                 /\ Tail(Rest(t, q)) = Rest(t, q + 1)
<1>1. PICK len \in Nat : len = Len(t)
  BY TextFacts
<1>2. CASE q = len + 1
  <2>1. Rest(t, q) = <<>>
    <3>1. q \in Int /\ len \in Int /\ len < q
      BY <1>1, <1>2
    <3> QED
      BY <1>1, <3>1, SubSeqEmpty DEF Rest
  <2> QED
    BY <1>1, <1>2, <2>1
<1>3. CASE q # len + 1
  <2>1. q \in 1 .. Len(t) /\ q + 1 \in 1 .. Len(t) + 1 /\ Len(t) \in q .. Len(t)
    BY <1>1, <1>3
  <2>2. Head(Rest(t, q)) = t[q] /\ Tail(Rest(t, q)) = Rest(t, q + 1)
    BY <2>1, HeadTailOfSubSeq DEF Rest, Text
  <2>3. Rest(t, q) # <<>>
    <3>1. q \in Int /\ len \in Int /\ q <= len
      BY <1>1, <2>1
    <3>2. \A i \in q .. len : t[i] \in Chars
      BY <1>1, <2>1, TextFacts
    <3>3. Len(Rest(t, q)) = len - q + 1
      BY <1>1, <3>1, <3>2, SubSeqProperties DEF Rest
    <3> QED
      BY <3>1, <3>3
  <2> QED
    BY <2>1, <2>2, <2>3
<1> QED
  BY <1>2, <1>3

LEMMA RestStart ==
  ASSUME NEW t \in Text
  PROVE  Rest(t, 1) = t /\ 1 \in 1 .. Len(t) + 1
  BY TextFacts, SubSeqFull DEF Rest, Text

(* A piece with one more character.                                        *)
LEMMA PieceGrows ==
  ASSUME NEW t \in Text, NEW s \in 1 .. Len(t), NEW q \in s .. Len(t)
  PROVE  /\ SubSeq(t, s, q - 1) \in Text
         /\ Append(SubSeq(t, s, q - 1), t[q]) = SubSeq(t, s, q)
         /\ SubSeq(t, s, s) = <<t[s]>>
<1>1. Len(t) \in Nat /\ s \in Nat /\ q \in Nat
  BY TextFacts
<1>2. \A i \in s .. q - 1 : t[i] \in Chars
  BY <1>1, TextFacts
<1>3. SubSeq(t, s, q - 1) \in Text
  BY <1>1, <1>2, SubSeqProperties DEF Text
<1>4. SubSeq(t, s, q) = SubSeq(t, s, q - 1) \o <<t[q]>>
  BY SubSeqRecursiveSecond DEF Text
<1>5. t[q] \in Chars
  BY <1>1, TextFacts
<1>6. Append(SubSeq(t, s, q - 1), t[q]) = SubSeq(t, s, q - 1) \o <<t[q]>>
  BY <1>3, <1>5, AppendIsConcat DEF Text
<1>7. SubSeq(t, s, s) = SubSeq(t, s, s - 1) \o <<t[s]>>
  <2>1. s \in s .. Len(t)
    BY <1>1
  <2> QED
    BY <2>1, SubSeqRecursiveSecond DEF Text
<1>8. SubSeq(t, s, s - 1) = <<>>
  BY <1>1, SubSeqEmpty
<1>9. <<>> \o <<t[s]>> = <<t[s]>>
  <2>1. t[s] \in Chars
    BY TextFacts
  <2>2. <<t[s]>> \in Seq(Chars)
    BY <2>1
  <2> QED
    BY <2>2, ConcatEmptySeq
<1> QED
  BY <1>3, <1>4, <1>6, <1>7, <1>8, <1>9

(* Find is the first character of S behind s.                              *)
LEMMA FindFacts ==
  ASSUME NEW t \in Text, NEW S, NEW s \in 1 .. Len(t)
  PROVE  /\ Find(t, S, s) \in s + 1 .. Len(t) + 1
         /\ \A i \in s + 1 .. Len(t) : t[i] \in S => Find(t, S, s) <= i
         /\ Find(t, S, s) <= Len(t) => t[Find(t, S, s)] \in S
<1> DEFINE C == {i \in s + 1 .. Len(t) : t[i] \in S} \cup {Len(t) + 1}
<1>1. Len(t) \in Nat /\ s \in Nat /\ s <= Len(t)
  BY TextFacts
<1>2. C \in SUBSET Nat /\ C # {} /\ C \subseteq s + 1 .. Len(t) + 1
  BY <1>1
<1>3. \E x \in C : \A y \in C : x =< y
  <2> HIDE DEF C
  <2> QED
    BY <1>2, SmallestNat
<1>4. PICK f : f = Find(t, S, s)
  OBVIOUS
<1>5. f \in C /\ \A y \in C : f =< y
  <2>1. f = Min(C)
    BY <1>4 DEF Find
  <2> HIDE DEF C
  <2> QED
    BY <1>3, <2>1, Zenon DEF Min
<1> QED
  BY <1>1, <1>2, <1>4, <1>5

-----------------------------------------------------------------------------
(* The pieces of a text                                                    *)

(* What ends a piece that c begins, and the state it is read in.           *)
Closing(c) ==
  IF c = "#" THEN LineEnds ELSE IF c \in {"dq", "'"} THEN {c} ELSE Terminators

StateOf(c) == IF c \in DOMAIN Openers THEN Openers[c] ELSE "NORMAL"

LEMMA CharDomains ==
  /\ DOMAIN Marks = {"{", "}", ";"} /\ DOMAIN Openers = {"#", "dq", "'"}
  /\ DOMAIN Quotes = {"DOUBLE_QUOTE", "SINGLE_QUOTE"}
  /\ Marks["{"] = "START_BLOCK" /\ Marks["}"] = "END_BLOCK" /\ Marks[";"] = "STATEMENT_END"
  /\ Openers["#"] = "COMMENT" /\ Openers["dq"] = "DOUBLE_QUOTE"
  /\ Openers["'"] = "SINGLE_QUOTE"
  /\ Quotes["DOUBLE_QUOTE"] = "dq" /\ Quotes["SINGLE_QUOTE"] = "'"
  BY DEF Marks, Openers, Quotes

LEMMA CharKinds ==
  ASSUME NEW c \in Chars
  PROVE  /\ c \in Whitespace \/ c \in DOMAIN Marks \/ c \in DOMAIN Openers \/ c \in Letters
         /\ c \in Letters => c \notin Whitespace /\ c \notin DOMAIN Marks /\ c \notin DOMAIN Openers
         /\ c \in DOMAIN Openers => c \notin Whitespace /\ c \notin DOMAIN Marks
         /\ c \in DOMAIN Marks => c \notin Whitespace
<1>1. c \in Specials \/ c \in Letters
  BY DEF Chars
<1>2. c \in Letters => c \notin Specials
  BY LetterAssumption
<1> QED
  BY <1>1, <1>2, CharDomains DEF Specials, Whitespace

(* A space or a mark is a piece of its own.                                *)
LEMMA ShortPiece ==
  ASSUME NEW t \in Text, NEW s \in 1 .. Len(t)
  PROVE  /\ t[s] \in Whitespace => After(t, s) = s + 1 /\ TokenAt(t, s) = <<>>
         /\ t[s] \in DOMAIN Marks =>
              After(t, s) = s + 1 /\ TokenAt(t, s) = <<Token(Marks[t[s]], <<t[s]>>)>>
<1>1. PICK c : c = t[s]
  OBVIOUS
<1>2. ASSUME c \in Whitespace PROVE After(t, s) = s + 1 /\ TokenAt(t, s) = <<>>
  <2>1. /\ t[s] \in Whitespace \cup DOMAIN Marks /\ t[s] \in Whitespace \cup {"#"}
        /\ t[s] # "#" /\ t[s] \notin {"dq", "'"} /\ t[s] \notin DOMAIN Marks
    BY <1>1, <1>2, CharDomains DEF Whitespace
  <2>2. After(t, s) = s + 1
    BY <2>1 DEF After
  <2>3. TokenAt(t, s) = <<>>
    BY <2>1 DEF TokenAt
  <2> QED
    BY <2>2, <2>3
<1>3. ASSUME c \in DOMAIN Marks
      PROVE  After(t, s) = s + 1 /\ TokenAt(t, s) = <<Token(Marks[c], <<c>>)>>
  <2>1. /\ t[s] \in Whitespace \cup DOMAIN Marks /\ t[s] \notin Whitespace \cup {"#"}
        /\ t[s] \in DOMAIN Marks /\ t[s] # "#" /\ t[s] \notin {"dq", "'"}
    BY <1>1, <1>3, CharDomains DEF Whitespace
  <2>2. After(t, s) = s + 1
    BY <2>1 DEF After
  <2>3. TokenAt(t, s) = <<Token(Marks[t[s]], <<t[s]>>)>>
    BY <2>1 DEF TokenAt
  <2> QED
    BY <1>1, <2>2, <2>3
<1> QED
  BY <1>1, <1>2, <1>3

(* Any other piece ends with, or before, the first closing character.      *)
LEMMA LongPiece ==
  ASSUME NEW t \in Text, NEW s \in 1 .. Len(t), t[s] \in DOMAIN Openers \cup Letters
  PROVE  LET f == Find(t, Closing(t[s]), s) IN
         /\ t[s] \in DOMAIN Openers => After(t, s) = f + 1
         /\ t[s] \in Letters => After(t, s) = f
         /\ t[s] = "#" => TokenAt(t, s) = <<>>
         /\ t[s] \in {"dq", "'"} =>
              TokenAt(t, s) = IF f > Len(t) THEN <<Token("ERROR", <<>>)>>
                              ELSE <<Token("NORMAL", SubSeq(t, s, f))>>
         /\ t[s] \in Letters =>
              TokenAt(t, s) = IF f > Len(t) THEN <<>>
                              ELSE <<Token("NORMAL", SubSeq(t, s, f - 1))>>
<1>1. PICK c : c = t[s]
  OBVIOUS
<1>2. PICK f : f = Find(t, Closing(c), s)
  OBVIOUS
<1>3. f \in Nat /\ Len(t) \in Nat
  BY <1>2, TextFacts, FindFacts
<1>4. CASE c = "#"
  <2>1. c \notin Whitespace /\ c \notin DOMAIN Marks /\ c \notin Letters /\ Closing(c) = LineEnds
    BY <1>4, CharDomains, LetterAssumption DEF Whitespace, Specials, Closing
  <2>2. After(t, s) = f + 1 /\ TokenAt(t, s) = <<>>
    BY <1>1, <1>2, <1>4, <2>1 DEF After, TokenAt
  <2> QED
    BY <1>1, <1>2, <1>4, <2>1, <2>2
<1>5. CASE c \in {"dq", "'"}
  <2>1. /\ c \notin Whitespace /\ c \notin DOMAIN Marks /\ c \notin Letters /\ c # "#"
        /\ Closing(c) = {c}
    BY <1>5, CharDomains, LetterAssumption DEF Whitespace, Specials, Closing
  <2>2. After(t, s) = f + 1
    BY <1>1, <1>2, <1>5, <2>1 DEF After
  <2>3. TokenAt(t, s) = IF f > Len(t) THEN <<Token("ERROR", <<>>)>>
                        ELSE <<Token("NORMAL", SubSeq(t, s, f))>>
    <3>1. /\ t[s] \notin Whitespace \cup {"#"} /\ t[s] \notin DOMAIN Marks
          /\ t[s] \in {"dq", "'"}
      BY <1>1, <1>5, <2>1
    <3>2. PICK a : a = After(t, s)
      OBVIOUS
    <3>3. TokenAt(t, s) = IF a > Len(t) + 1 THEN <<Token("ERROR", <<>>)>>
                          ELSE <<Token("NORMAL", SubSeq(t, s, a - 1))>>
      BY <3>1, <3>2 DEF TokenAt
    <3>4. a - 1 = f /\ (a > Len(t) + 1 <=> f > Len(t))
      BY <1>3, <2>2, <3>2
    <3> QED
      BY <3>3, <3>4
  <2> QED
    BY <1>1, <1>2, <1>5, <2>1, <2>2, <2>3
<1>6. CASE c \in Letters
  <2>1. /\ c \notin Whitespace /\ c \notin DOMAIN Marks /\ c \notin {"dq", "'"} /\ c # "#"
        /\ c \notin DOMAIN Openers /\ Closing(c) = Terminators
    BY <1>6, CharDomains, LetterAssumption DEF Whitespace, Specials, Closing
  <2>2. After(t, s) = f
    BY <1>1, <1>2, <2>1 DEF After
  <2>3. TokenAt(t, s) = IF f > Len(t) THEN <<>> ELSE <<Token("NORMAL", SubSeq(t, s, f - 1))>>
    BY <1>1, <2>1, <2>2 DEF TokenAt
  <2> QED
    BY <1>1, <1>2, <1>6, <2>1, <2>2, <2>3
<1> QED
  BY <1>1, <1>4, <1>5, <1>6, CharDomains

LEMMA TokenTyped ==
  ASSUME NEW type \in TokenTypes, NEW v \in Seq(Chars)
  PROVE  Token(type, v) \in Lexeme /\ <<Token(type, v)>> \in Seq(Lexeme)
<1>1. Token(type, v) \in Lexeme
  BY DEF Token, Lexeme
<1> QED
  BY <1>1

LEMMA Joins ==
  ASSUME NEW u \in Seq(Lexeme), NEW v \in Seq(Lexeme), NEW w \in Seq(Lexeme)
  PROVE  /\ u \o v \in Seq(Lexeme) /\ (u \o v) \o w = u \o (v \o w)
         /\ u \o <<>> = u /\ <<>> \o u = u
  BY ConcatProperties, ConcatAssociative, ConcatEmptySeq

LEMMA PieceTypes ==
  ASSUME NEW t \in Text, NEW s \in 1 .. Len(t)
  PROVE  After(t, s) \in s + 1 .. Len(t) + 2 /\ TokenAt(t, s) \in Seq(Lexeme)
<1>1. Len(t) \in Nat /\ s \in Nat /\ t[s] \in Chars /\ s <= Len(t)
  BY TextFacts
<1>2. /\ "ERROR" \in TokenTypes /\ "NORMAL" \in TokenTypes /\ <<>> \in Seq(Chars)
      /\ <<>> \in Seq(Lexeme) /\ <<t[s]>> \in Seq(Chars)
  BY <1>1 DEF TokenTypes
<1>0. s + 1 \in s + 1 .. Len(t) + 2
  BY <1>1
<1>3. CASE t[s] \in Whitespace
  BY <1>0, <1>2, <1>3, ShortPiece
<1>4. CASE t[s] \in DOMAIN Marks
  <2>1. Marks[t[s]] \in TokenTypes
    BY <1>4, CharTypes
  <2>2. <<Token(Marks[t[s]], <<t[s]>>)>> \in Seq(Lexeme)
    BY <1>2, <2>1, TokenTyped
  <2> QED
    BY <1>0, <1>4, <2>2, ShortPiece
<1>5. CASE t[s] \in DOMAIN Openers \cup Letters
  <2>1. PICK f : f = Find(t, Closing(t[s]), s)
    OBVIOUS
  <2>2. f \in s + 1 .. Len(t) + 1
    BY <2>1, FindFacts
  <2>3. After(t, s) = f + 1 \/ After(t, s) = f
    BY <1>5, <2>1, LongPiece
  <2>4. ASSUME f <= Len(t)
        PROVE  /\ <<Token("NORMAL", SubSeq(t, s, f))>> \in Seq(Lexeme)
               /\ <<Token("NORMAL", SubSeq(t, s, f - 1))>> \in Seq(Lexeme)
    <3>1. (\A i \in s .. f : t[i] \in Chars) /\ (\A i \in s .. f - 1 : t[i] \in Chars)
      BY <1>1, <2>2, <2>4, TextFacts
    <3>2. f \in Int /\ f - 1 \in Int /\ s \in Int
      BY <1>1, <2>2
    <3>3. SubSeq(t, s, f) \in Seq(Chars) /\ SubSeq(t, s, f - 1) \in Seq(Chars)
      BY <3>1, <3>2, SubSeqProperties
    <3> QED
      BY <1>2, <3>3, TokenTyped
  <2>5. <<Token("ERROR", <<>>)>> \in Seq(Lexeme)
    BY <1>2, TokenTyped
  <2>6. f > Len(t) \/ f <= Len(t)
    BY <1>1, <2>2
  <2>7. TokenAt(t, s) \in Seq(Lexeme)
    BY <1>2, <1>5, <2>1, <2>4, <2>5, <2>6, LongPiece, CharDomains
  <2> QED
    BY <1>1, <2>2, <2>3, <2>7
<1> QED
  BY <1>1, <1>3, <1>4, <1>5, CharKinds

-----------------------------------------------------------------------------
(* Cutting a text into pieces                                              *)

NextCut(t, r) ==
  IF r.at > Len(t) THEN r
  ELSE [at |-> After(t, r.at), tokens |-> r.tokens \o TokenAt(t, r.at)]

FirstCut == [at |-> 1, tokens |-> <<>>]

Cuts(t) == [at : 1 .. Len(t) + 2, tokens : Seq(Lexeme)]

CutsFn(t) ==
  CHOOSE upTo : upTo = [n \in 0 .. Len(t) |->
                          IF n = 0 THEN FirstCut ELSE NextCut(t, upTo[n - 1])]

LEMMA TokensIs ==
  ASSUME NEW t
  PROVE  Tokens(t) = CutsFn(t)[Len(t)].tokens
BY DEF Tokens, CutsFn, NextCut, FirstCut

LEMMA CutTyped ==
  ASSUME NEW t \in Text, NEW r \in Cuts(t)
  PROVE  /\ NextCut(t, r) \in Cuts(t)
         /\ r.at <= Len(t) => /\ NextCut(t, r).at = After(t, r.at)
                              /\ NextCut(t, r).tokens = r.tokens \o TokenAt(t, r.at)
                              /\ NextCut(t, r).at > r.at
<1>1. Len(t) \in Nat /\ r.at \in 1 .. Len(t) + 2 /\ r.tokens \in Seq(Lexeme)
  BY TextFacts DEF Cuts
<1>0. r.at > Len(t) <=> ~(r.at <= Len(t))
  BY <1>1
<1>2. CASE r.at > Len(t)
  <2>1. NextCut(t, r) = r
    BY <1>2 DEF NextCut
  <2> QED
    BY <1>0, <1>2, <2>1
<1>3. CASE r.at <= Len(t)
  <2>1. r.at \in 1 .. Len(t) /\ ~(r.at > Len(t))
    BY <1>1, <1>3
  <2>2. PICK a, v : a = After(t, r.at) /\ v = TokenAt(t, r.at)
    OBVIOUS
  <2>3. a \in r.at + 1 .. Len(t) + 2 /\ v \in Seq(Lexeme)
    BY <2>1, <2>2, PieceTypes
  <2>4. a \in 1 .. Len(t) + 2 /\ r.tokens \o v \in Seq(Lexeme) /\ a > r.at
    BY <1>1, <2>3, ConcatProperties
  <2>5. NextCut(t, r) = [at |-> a, tokens |-> r.tokens \o v]
    BY <2>1, <2>2 DEF NextCut
  <2> QED
    BY <2>2, <2>4, <2>5 DEF Cuts
<1> QED
  BY <1>0, <1>2, <1>3

LEMMA CutsFnIs ==
  ASSUME NEW t \in Text
  PROVE  /\ CutsFn(t) \in [0 .. Len(t) -> Cuts(t)] /\ CutsFn(t)[0] = FirstCut
         /\ \A k \in 1 .. Len(t) : CutsFn(t)[k] = NextCut(t, CutsFn(t)[k - 1])
<1>1. PICK n \in Nat : n = Len(t)
  BY TextFacts
<1>2. PICK D : D = Cuts(t)
  OBVIOUS
<1>3. PICK F : F = [p \in (1 .. n) \X D |-> NextCut(t, p[2])]
  OBVIOUS
<1>4. \A r \in D : NextCut(t, r) \in D
  BY <1>2, CutTyped
<1>5. F \in [(1 .. n) \X D -> D] /\ \A k \in 1 .. n : \A r \in D : F[<<k, r>>] = NextCut(t, r)
  BY <1>3, <1>4
<1>6. FirstCut \in D
  <2>1. 1 \in 1 .. Len(t) + 2 /\ <<>> \in Seq(Lexeme)
    BY <1>1
  <2> QED
    BY <1>2, <2>1 DEF FirstCut, Cuts
<1>7. PICK g : IsSolution(D, FirstCut, n, F, g)
  BY <1>5, <1>6, Recursion DEF IsRecursion
<1>8. g \in [0 .. n -> D] /\ g[0] = FirstCut /\ \A k \in 1 .. n : g[k] = F[<<k, g[k - 1]>>]
  BY <1>7 DEF IsSolution
<1>9. ASSUME NEW k \in 1 .. n PROVE g[k] = NextCut(t, g[k - 1])
  <2>1. k - 1 \in 0 .. n
    OBVIOUS
  <2>2. g[k - 1] \in D
    BY <1>8, <2>1
  <2> QED
    BY <1>5, <1>8, <2>2
<1> DEFINE Body(f) == [k \in 0 .. n |-> IF k = 0 THEN FirstCut ELSE NextCut(t, f[k - 1])]
<1>10. g = Body(g)
  <2>1. \A k \in 0 .. n : g[k] = Body(g)[k]
    BY <1>8, <1>9
  <2> QED
    BY <1>8, <2>1
<1>11. CutsFn(t) = Body(CutsFn(t))
  <2>1. CutsFn(t) = CHOOSE f : f = Body(f)
    BY <1>1 DEF CutsFn
  <2> HIDE DEF Body
  <2> QED
    BY <1>10, <2>1, Zenon
<1>12. PICK h : h = CutsFn(t) /\ h = Body(h)
  BY <1>11
<1>13. h[0] = FirstCut /\ \A k \in 1 .. n : h[k] = NextCut(t, h[k - 1])
  <2>1. 0 \in 0 .. n /\ \A k \in 1 .. n : k \in 0 .. n /\ k # 0
    OBVIOUS
  <2> QED
    BY <1>12, <2>1
<1>14. \A k \in 0 .. n : h[k] = g[k]
  <2>1. StepTogether(n, h, g)
    BY <1>8, <1>9, <1>13 DEF StepTogether
  <2> QED
    BY <2>1, SameRecursion
<1>15. h = g
  BY <1>8, <1>12, <1>14
<1> QED
  BY <1>1, <1>2, <1>8, <1>9, <1>12, <1>15

(* The text is cut at s, and u are the tokens before.                      *)
Cut(t, s, u) == \E k \in 0 .. Len(t) : CutsFn(t)[k] = [at |-> s, tokens |-> u]

LEMMA CutStart ==
  ASSUME NEW t \in Text
  PROVE  Cut(t, 1, <<>>)
<1>1. 0 \in 0 .. Len(t)
  BY TextFacts
<1> QED
  BY <1>1, CutsFnIs DEF Cut, FirstCut

LEMMA CutFacts ==
  ASSUME NEW t \in Text, NEW s, NEW u, Cut(t, s, u)
  PROVE  s \in 1 .. Len(t) + 2 /\ u \in Seq(Lexeme)
<1>1. PICK k \in 0 .. Len(t) : CutsFn(t)[k] = [at |-> s, tokens |-> u]
  BY DEF Cut
<1>2. PICK r : r = CutsFn(t)[k]
  OBVIOUS
<1>3. r \in Cuts(t) /\ r.at = s /\ r.tokens = u
  BY <1>1, <1>2, CutsFnIs
<1> QED
  BY <1>3 DEF Cuts

(* Every piece has a character: the pieces end when there are enough.      *)
LEMMA CutsAdvance ==
  ASSUME NEW t \in Text
  PROVE  \A k \in 0 .. Len(t) : CutsFn(t)[k].at > Len(t) \/ CutsFn(t)[k].at > k
<1>1. PICK n \in Nat : n = Len(t)
  BY TextFacts
<1>2. PICK h : h = CutsFn(t)
  OBVIOUS
<1>3. /\ h \in [0 .. n -> Cuts(t)] /\ h[0] = FirstCut
      /\ \A k \in 1 .. n : h[k] = NextCut(t, h[k - 1])
  BY <1>1, <1>2, CutsFnIs
<1>4. \A k \in 0 .. n : h[k].at \in Nat
  BY <1>1, <1>3 DEF Cuts
<1> DEFINE bad == {k \in 0 .. n : ~(h[k].at > n \/ h[k].at > k)}
<1>5. bad = {}
  <2> SUFFICES ASSUME bad # {} PROVE FALSE
    OBVIOUS
  <2>1. PICK k \in bad : \A y \in bad : k =< y
    <3>1. bad \in SUBSET Nat
      OBVIOUS
    <3> HIDE DEF bad
    <3> QED
      BY <3>1, SmallestNat
  <2>2. k # 0
    BY <1>3, <2>1 DEF FirstCut
  <2>3. PICK j : j = k - 1
    OBVIOUS
  <2>4. k \in 1 .. n /\ j \in 0 .. n /\ j + 1 = k /\ ~(k <= j)
    BY <2>1, <2>2, <2>3
  <2>5. h[j].at > n \/ h[j].at > j
    BY <2>1, <2>4
  <2>6. h[j] \in Cuts(t) /\ h[k] = NextCut(t, h[j]) /\ h[j].at \in Nat
    BY <1>3, <1>4, <2>3, <2>4
  <2>7. CASE h[j].at > n
    <3>1. h[k] = h[j]
      BY <1>1, <2>6, <2>7 DEF NextCut
    <3> QED
      BY <2>1, <2>7, <3>1
  <2>8. CASE ~(h[j].at > n)
    <3>1. h[j].at <= n
      BY <2>6, <2>8
    <3>2. h[k].at > h[j].at
      BY <1>1, <2>6, <3>1, CutTyped
    <3>3. h[k].at \in Nat /\ ~(h[k].at > k)
      BY <1>4, <2>1
    <3> QED
      BY <2>4, <2>5, <2>6, <2>8, <3>2, <3>3
  <2> QED
    BY <2>7, <2>8
<1> QED
  BY <1>1, <1>2, <1>5

LEMMA CutNext ==
  ASSUME NEW t \in Text, NEW s, NEW u, Cut(t, s, u), s <= Len(t)
  PROVE  Cut(t, After(t, s), u \o TokenAt(t, s))
<1>1. PICK k \in 0 .. Len(t) : CutsFn(t)[k] = [at |-> s, tokens |-> u]
  BY DEF Cut
<1>2. PICK r : r = CutsFn(t)[k]
  OBVIOUS
<1>3. r \in Cuts(t) /\ r.at = s /\ r.tokens = u
  BY <1>1, <1>2, CutsFnIs
<1>4. PICK n \in Nat : n = Len(t)
  BY TextFacts
<1>5. s \in Nat
  BY <1>3, <1>4 DEF Cuts
<1>6. s > n \/ s > k
  BY <1>2, <1>3, <1>4, CutsAdvance
<1>7. PICK j : j = k + 1
  OBVIOUS
<1>8. j \in 1 .. n /\ j \in 0 .. n /\ j - 1 = k
  BY <1>4, <1>5, <1>6, <1>7
<1>9. CutsFn(t)[j] = NextCut(t, r)
  BY <1>2, <1>4, <1>8, CutsFnIs
<1>10. ~(s > Len(t))
  BY <1>4, <1>5
<1>11. NextCut(t, r) = [at |-> After(t, s), tokens |-> u \o TokenAt(t, s)]
  BY <1>3, <1>10 DEF NextCut
<1> QED
  BY <1>4, <1>8, <1>9, <1>11 DEF Cut

LEMMA NextCutBegins ==
  ASSUME NEW t \in Text, NEW r \in Cuts(t), NEW u \in Seq(Lexeme), NEW v \in Seq(Lexeme),
         r.tokens = u \o v
  PROVE  \E w \in Seq(Lexeme) : NextCut(t, r).tokens = u \o w
<1>1. Len(t) \in Nat /\ r.at \in 1 .. Len(t) + 2
  BY TextFacts DEF Cuts
<1>2. CASE r.at > Len(t)
  BY <1>2 DEF NextCut
<1>3. CASE ~(r.at > Len(t))
  <2>1. r.at <= Len(t) /\ r.at \in 1 .. Len(t)
    BY <1>1, <1>3
  <2>2. PICK x : x = TokenAt(t, r.at)
    OBVIOUS
  <2>3. x \in Seq(Lexeme)
    BY <2>1, <2>2, PieceTypes
  <2>4. NextCut(t, r).tokens = (u \o v) \o x
    BY <2>1, <2>2, CutTyped
  <2>5. (u \o v) \o x = u \o (v \o x) /\ v \o x \in Seq(Lexeme)
    BY <2>3, Joins
  <2> QED
    BY <2>4, <2>5
<1> QED
  BY <1>2, <1>3

(* The tokens before a cut begin all the tokens.                           *)
LEMMA CutPrefix ==
  ASSUME NEW t \in Text, NEW s, NEW u, Cut(t, s, u)
  PROVE  /\ \E v \in Seq(Lexeme) : Tokens(t) = u \o v
         /\ s > Len(t) => Tokens(t) = u
<1>1. PICK k \in 0 .. Len(t) : CutsFn(t)[k] = [at |-> s, tokens |-> u]
  BY DEF Cut
<1>2. PICK n \in Nat : n = Len(t)
  BY TextFacts
<1>3. PICK h : h = CutsFn(t)
  OBVIOUS
<1>4. /\ h \in [0 .. n -> Cuts(t)]
      /\ \A i \in 1 .. n : h[i] = NextCut(t, h[i - 1])
  BY <1>2, <1>3, CutsFnIs
<1>5. h[k].at = s /\ h[k].tokens = u /\ u \in Seq(Lexeme)
  BY <1>1, <1>3, CutFacts
<1> DEFINE Good(i) == /\ \E v \in Seq(Lexeme) : h[i].tokens = u \o v
                      /\ s > n => h[i] = h[k]
           bad == {i \in 0 .. n : i >= k /\ ~Good(i)}
<1>6. bad = {}
  <2> SUFFICES ASSUME bad # {} PROVE FALSE
    OBVIOUS
  <2>1. PICK i \in bad : \A y \in bad : i =< y
    <3>1. bad \in SUBSET Nat
      OBVIOUS
    <3> HIDE DEF bad
    <3> QED
      BY <3>1, SmallestNat
  <2>2. Good(k)
    <3>1. u = u \o <<>> /\ <<>> \in Seq(Lexeme)
      BY <1>5, ConcatEmptySeq
    <3> QED
      BY <1>5, <3>1
  <2>3. i # k /\ i \in 0 .. n /\ i >= k
    BY <2>1, <2>2
  <2>4. PICK j : j = i - 1
    OBVIOUS
  <2>5. i \in 1 .. n /\ j \in 0 .. n /\ j >= k /\ ~(i <= j)
    BY <1>2, <2>3, <2>4
  <2>6. Good(j)
    BY <2>1, <2>5
  <2>7. h[j] \in Cuts(t) /\ h[i] = NextCut(t, h[j])
    BY <1>4, <2>4, <2>5
  <2>8. h[j].at \in 1 .. n + 2 /\ h[j].tokens \in Seq(Lexeme)
    BY <1>2, <2>7 DEF Cuts
  <2>9. CASE h[j].at > n
    <3>1. h[i] = h[j]
      BY <1>2, <2>7, <2>9 DEF NextCut
    <3> QED
      BY <2>1, <2>6, <3>1
  <2>10. CASE ~(h[j].at > n)
    <3>1. h[j].at <= Len(t) /\ h[j].at \in 1 .. Len(t)
      BY <1>2, <2>8, <2>10
    <3>2. PICK v \in Seq(Lexeme) : h[j].tokens = u \o v
      BY <2>6
    <3>3. \E w \in Seq(Lexeme) : NextCut(t, h[j]).tokens = u \o w
      BY <1>5, <2>7, <3>2, NextCutBegins
    <3>4. \E w \in Seq(Lexeme) : h[i].tokens = u \o w
      BY <2>7, <3>3
    <3>6. ~(s > n)
      BY <1>5, <2>6, <2>10
    <3>8. Good(i)
      BY <3>4, <3>6
    <3> QED
      BY <2>1, <3>8
  <2> QED
    BY <2>9, <2>10
<1>7. Good(n)
  <2>1. n \in 0 .. n /\ n >= k
    BY <1>2
  <2> QED
    BY <1>6, <2>1
<1>8. Tokens(t) = h[n].tokens
  BY <1>2, <1>3, TokensIs
<1> QED
  BY <1>2, <1>5, <1>7, <1>8

-----------------------------------------------------------------------------
(* ParseToken reads the piece at s of the text.                            *)

(* Inside a longer piece, up to q.                                         *)
InPiece(s, q) ==
  /\ s \in 1 .. Len(text) /\ text[s] \in DOMAIN Openers \cup Letters
  /\ state = StateOf(text[s])
  /\ q \in s + 1 .. Find(text, Closing(text[s]), s)
  /\ value = SubSeq(text, s, q - 1) /\ input = Rest(text, q)

Between(s) == s \in 1 .. Len(text) + 1 /\ value = <<>> /\ input = Rest(text, s)

(* The token that ParseToken has returned is the one of the piece.         *)
Returned(s) ==
  /\ s \in 1 .. Len(text) /\ After(text, s) \in 1 .. Len(text) + 1
  /\ input = Rest(text, After(text, s))
  /\ TokenAt(text, s) = IF token_type = "COMMENT" THEN <<>> ELSE <<Token(token_type, value)>>

AtEOF(s) ==
  \/ s > Len(text)
  \/ s \in 1 .. Len(text) /\ TokenAt(text, s) = <<>> /\ After(text, s) > Len(text)

AtError(s) == s \in 1 .. Len(text) /\ TokenAt(text, s) = <<Token("ERROR", <<>>)>>

Lexing(s) ==
  /\ token_type = "NONE" /\ state = "INITIAL_WHITESPACE" => Between(s)
  /\ token_type = "NONE" /\ state # "INITIAL_WHITESPACE" => \E q : InPiece(s, q)
  /\ token_type = "EOF" => AtEOF(s)
  /\ token_type = "ERROR" => AtError(s)
  /\ token_type \notin {"NONE", "EOF", "ERROR"} => Returned(s)

LEMMA StateOfIs ==
  ASSUME NEW c \in DOMAIN Openers \cup Letters
  PROVE  /\ c = "#" => StateOf(c) = "COMMENT"
         /\ c = "dq" => StateOf(c) = "DOUBLE_QUOTE"
         /\ c = "'" => StateOf(c) = "SINGLE_QUOTE"
         /\ c \in Letters => StateOf(c) = "NORMAL"
         /\ c \in Letters \/ c = "#" \/ c = "dq" \/ c = "'"
         /\ ~(c \in Letters /\ c \in {"#", "dq", "'"})
  BY CharDomains, LetterAssumption DEF StateOf, Specials

(* The first character of a piece.                                         *)
LEMMA LexFirst ==
  ASSUME TypeOK, NEW s, NEW u, Cut(text, s, u), Lexing(s), initial_whitespace
  PROVE  Lexing(s)' \/ (Cut(text, s + 1, u) /\ Lexing(s + 1)')
<1>1. /\ text \in Text /\ text' = text /\ token_type = "NONE" /\ state = "INITIAL_WHITESPACE"
      /\ input # <<>> /\ input' = Tail(input)
  BY DEF TypeOK, Text, initial_whitespace, In
<1>2. Between(s)
  BY <1>1 DEF Lexing
<1>3. s \in 1 .. Len(text) + 1 /\ value = <<>> /\ input = Rest(text, s)
  BY <1>2 DEF Between
<1>4. /\ s \in 1 .. Len(text) /\ s + 1 \in 1 .. Len(text) + 1
      /\ Head(input) = text[s] /\ input' = Rest(text, s + 1)
  BY <1>1, <1>3, RestFacts
<1>5. PICK c : c = text[s]
  OBVIOUS
<1>6. c \in Chars
  BY <1>1, <1>4, <1>5, TextFacts
<1>7. CASE c \in DOMAIN Marks /\ Return(Marks[c], <<c>>)
  <2>1. /\ After(text, s) = s + 1
        /\ TokenAt(text, s) = <<Token(Marks[c], <<c>>)>>
    BY <1>1, <1>4, <1>5, <1>7, ShortPiece
  <2>2. token_type' = Marks[c] /\ value' = <<c>>
    BY <1>7 DEF Return
  <2>3. Marks[c] \notin {"NONE", "EOF", "ERROR", "COMMENT"}
    BY <1>7, CharDomains
  <2>4. Returned(s)'
    BY <1>1, <1>4, <2>1, <2>2, <2>3 DEF Returned
  <2>5. token_type' \notin {"NONE", "EOF", "ERROR", "COMMENT"}
    BY <2>2, <2>3
  <2> QED
    BY <2>4, <2>5 DEF Lexing
<1>8. ASSUME c \in DOMAIN Openers \cup Letters, state' = StateOf(c), value' = <<c>>,
             token_type' = token_type
      PROVE  Lexing(s)'
  <2>1. Find(text, Closing(c), s) \in s + 1 .. Len(text) + 1
    BY <1>1, <1>4, FindFacts
  <2>2. Len(text) \in Nat
    BY <1>1, TextFacts
  <2>3. s + 1 \in s + 1 .. Find(text, Closing(c), s) /\ s + 1 - 1 = s /\ s \in s .. Len(text)
    BY <1>4, <2>1, <2>2
  <2>4. SubSeq(text, s, s) = <<c>>
    BY <1>1, <1>4, <1>5, <2>3, PieceGrows
  <2>5. PICK q : q = s + 1
    OBVIOUS
  <2>6. q - 1 = s /\ q \in s + 1 .. Find(text, Closing(c), s) /\ input' = Rest(text, q)
    BY <1>4, <2>3, <2>5
  <2>7. InPiece(s, q)'
    BY <1>1, <1>4, <1>5, <1>8, <2>4, <2>6 DEF InPiece
  <2>8. state' # "INITIAL_WHITESPACE" /\ token_type' = "NONE"
    BY <1>1, <1>8, StateOfIs
  <2> QED
    BY <2>7, <2>8 DEF Lexing
<1>9. CASE c \in DOMAIN Openers /\ Continue(Openers[c], <<c>>)
  BY <1>8, <1>9 DEF Continue, StateOf
<1>10. CASE c \in Letters /\ Continue("NORMAL", Append(value, c))
  <2>1. Append(value, c) = <<c>>
    BY <1>3
  <2>2. StateOf(c) = "NORMAL"
    BY <1>10, StateOfIs
  <2> QED
    BY <1>8, <1>10, <2>1, <2>2 DEF Continue
<1>11. CASE c \in Whitespace /\ Continue("INITIAL_WHITESPACE", value)
  <2>1. After(text, s) = s + 1 /\ TokenAt(text, s) = <<>>
    BY <1>1, <1>4, <1>5, <1>11, ShortPiece
  <2>2. s <= Len(text)
    BY <1>1, <1>4, TextFacts
  <2>3. Cut(text, s + 1, u \o <<>>)
    BY <1>1, <2>1, <2>2, CutNext
  <2>4. u \in Seq(Lexeme)
    BY <1>1, CutFacts
  <2>5. u \o <<>> = u
    BY <2>4, Joins
  <2>6. Between(s + 1)'
    BY <1>1, <1>3, <1>4, <1>11 DEF Between, Continue
  <2>7. token_type' = "NONE" /\ state' = "INITIAL_WHITESPACE"
    BY <1>1, <1>11 DEF Continue
  <2> QED
    BY <2>3, <2>5, <2>6, <2>7 DEF Lexing
<1>12. \/ c \in DOMAIN Marks /\ Return(Marks[c], <<c>>)
       \/ c \in DOMAIN Openers /\ Continue(Openers[c], <<c>>)
       \/ c \in Whitespace /\ Continue("INITIAL_WHITESPACE", value)
       \/ c \in Letters /\ Continue("NORMAL", Append(value, c))
  BY <1>4, <1>5 DEF initial_whitespace
<1> QED
  BY <1>7, <1>9, <1>10, <1>11, <1>12

(* A further character: inside the piece, or the one that ends it.         *)
LEMMA InPieceFacts ==
  ASSUME text \in Text, NEW s, NEW q, InPiece(s, q)
  PROVE  /\ s \in 1 .. Len(text) /\ text[s] \in DOMAIN Openers \cup Letters
         /\ state = StateOf(text[s]) /\ value = SubSeq(text, s, q - 1)
         /\ input = <<>> => Find(text, Closing(text[s]), s) = Len(text) + 1
         /\ input # <<>> =>
              /\ q \in s .. Len(text) /\ Head(input) = text[q] /\ Tail(input) = Rest(text, q + 1)
              /\ Append(value, text[q]) = SubSeq(text, s, q)
              /\ text[q] \in Closing(text[s]) => Find(text, Closing(text[s]), s) = q
              /\ text[q] \notin Closing(text[s]) =>
                   q + 1 \in s + 1 .. Find(text, Closing(text[s]), s)
<1>1. /\ s \in 1 .. Len(text) /\ text[s] \in DOMAIN Openers \cup Letters
      /\ state = StateOf(text[s]) /\ value = SubSeq(text, s, q - 1) /\ input = Rest(text, q)
  BY DEF InPiece
<1>2. PICK S : S = Closing(text[s])
  OBVIOUS
<1>3. PICK f : f = Find(text, S, s)
  OBVIOUS
<1>4. PICK n \in Nat : n = Len(text)
  BY TextFacts
<1>5. /\ f \in s + 1 .. n + 1 /\ (\A i \in s + 1 .. n : text[i] \in S => f <= i)
      /\ f <= n => text[f] \in S
  BY <1>1, <1>3, <1>4, FindFacts
<1>6. q \in s + 1 .. f /\ q \in 1 .. Len(text) + 1 /\ q \in Nat /\ s \in Nat
  <2>1. q \in s + 1 .. f
    BY <1>2, <1>3 DEF InPiece
  <2> QED
    BY <1>1, <1>4, <1>5, <2>1
<1>7. ASSUME input = <<>> PROVE f = n + 1
  <2>1. q = Len(text) + 1
    BY <1>1, <1>6, <1>7, RestFacts
  <2> QED
    BY <1>4, <1>5, <1>6, <2>1
<1>8. ASSUME input # <<>>
      PROVE  /\ q \in s .. Len(text) /\ Head(input) = text[q] /\ Tail(input) = Rest(text, q + 1)
             /\ Append(value, text[q]) = SubSeq(text, s, q)
             /\ text[q] \in S => f = q
             /\ text[q] \notin S => q + 1 \in s + 1 .. f
  <2>1. q \in 1 .. Len(text) /\ Head(input) = text[q] /\ Tail(input) = Rest(text, q + 1)
    BY <1>1, <1>6, <1>8, RestFacts
  <2>2. q \in s .. Len(text) /\ q \in s + 1 .. n
    BY <1>4, <1>6, <2>1
  <2>3. Append(value, text[q]) = SubSeq(text, s, q)
    BY <1>1, <2>2, PieceGrows
  <2>4. text[q] \in S => f = q
    <3>1. text[q] \in S => f <= q
      BY <1>5, <2>2
    <3> QED
      BY <1>4, <1>5, <1>6, <3>1
  <2>5. text[q] \notin S => q + 1 \in s + 1 .. f
    <3>1. text[q] \notin S => f # q
      BY <1>4, <1>5, <2>2
    <3> QED
      BY <1>4, <1>5, <1>6, <3>1
  <2> QED
    BY <2>1, <2>2, <2>3, <2>4, <2>5
<1> QED
  BY <1>1, <1>2, <1>3, <1>4, <1>7, <1>8

LEMMA LexInside ==
  ASSUME TypeOK, NEW s, NEW q, InPiece(s, q), token_type = "NONE", input # <<>>,
         Head(input) \notin Closing(text[s]),
         Continue(state, Append(value, Head(input))), input' = Tail(input), text' = text
  PROVE  Lexing(s)'
<1>1. text \in Text
  BY DEF TypeOK, Text
<1>2. /\ s \in 1 .. Len(text) /\ text[s] \in DOMAIN Openers \cup Letters
      /\ state = StateOf(text[s]) /\ Head(input) = text[q] /\ Tail(input) = Rest(text, q + 1)
      /\ Append(value, text[q]) = SubSeq(text, s, q) /\ q \in s .. Len(text)
  BY <1>1, InPieceFacts
<1>3. q + 1 \in s + 1 .. Find(text, Closing(text[s]), s)
  BY <1>1, <1>2, InPieceFacts
<1>4. PICK r : r = q + 1
  OBVIOUS
<1>5. r - 1 = q /\ r \in s + 1 .. Find(text, Closing(text[s]), s) /\ input' = Rest(text, r)
  BY <1>2, <1>3, <1>4
<1>6. value' = SubSeq(text, s, r - 1) /\ state' = state /\ token_type' = "NONE"
  BY <1>2, <1>5 DEF Continue
<1>7. InPiece(s, r)'
  BY <1>2, <1>5, <1>6 DEF InPiece
<1>8. state' # "INITIAL_WHITESPACE"
  BY <1>2, <1>6, StateOfIs
<1> QED
  BY <1>6, <1>7, <1>8 DEF Lexing

LEMMA LexQuote ==
  ASSUME TypeOK, NEW s, Lexing(s), NEW k \in DOMAIN Quotes, quote(k)
  PROVE  Lexing(s)'
<1>1. text \in Text /\ text' = text /\ token_type = "NONE" /\ state = k /\ input # <<>>
      /\ input' = Tail(input)
  BY DEF TypeOK, Text, quote, In
<1>2. k # "INITIAL_WHITESPACE"
  BY CharDomains
<1>3. PICK q : InPiece(s, q)
  BY <1>1, <1>2 DEF Lexing
<1>4. /\ s \in 1 .. Len(text) /\ text[s] \in DOMAIN Openers \cup Letters
      /\ state = StateOf(text[s]) /\ Head(input) = text[q] /\ Tail(input) = Rest(text, q + 1)
      /\ Append(value, text[q]) = SubSeq(text, s, q) /\ q \in s .. Len(text)
      /\ text[q] \in Closing(text[s]) => Find(text, Closing(text[s]), s) = q
  BY <1>1, <1>3, InPieceFacts
<1>5. text[s] \in {"dq", "'"} /\ text[s] = Quotes[k] /\ text[s] \in DOMAIN Openers
  <2>1. PICK c \in DOMAIN Openers \cup Letters : c = text[s] /\ StateOf(c) = k
    BY <1>1, <1>4
  <2>2. k = "DOUBLE_QUOTE" \/ k = "SINGLE_QUOTE"
    BY CharDomains
  <2>4. CASE k = "DOUBLE_QUOTE"
    BY <2>1, <2>4, StateOfIs, CharDomains
  <2>5. CASE k = "SINGLE_QUOTE"
    BY <2>1, <2>5, StateOfIs, CharDomains
  <2> QED
    BY <2>2, <2>4, <2>5
<1>6. Closing(text[s]) = {text[s]}
  BY <1>5 DEF Closing
<1>7. CASE Head(input) = Quotes[k] /\ Return("NORMAL", Append(value, Head(input)))
  <2>1. Find(text, Closing(text[s]), s) = q
    BY <1>4, <1>5, <1>6, <1>7
  <2>2. Len(text) \in Nat /\ q \in Nat /\ ~(q > Len(text)) /\ q + 1 \in 1 .. Len(text) + 1
    BY <1>1, <1>4, TextFacts, SMTT(30)
  <2>3. After(text, s) = q + 1 /\ TokenAt(text, s) = <<Token("NORMAL", SubSeq(text, s, q))>>
    BY <1>1, <1>4, <1>5, <2>1, <2>2, LongPiece
  <2>4. token_type' = "NORMAL" /\ value' = SubSeq(text, s, q) /\ input' = Rest(text, q + 1)
    BY <1>1, <1>4, <1>7 DEF Return
  <2>5. Returned(s)'
    BY <1>1, <1>4, <2>2, <2>3, <2>4 DEF Returned
  <2> QED
    BY <2>4, <2>5 DEF Lexing
<1>8. CASE Head(input) # Quotes[k] /\ Continue(k, Append(value, Head(input)))
  BY <1>1, <1>3, <1>5, <1>6, <1>8, LexInside
<1> QED
  BY <1>7, <1>8 DEF quote

LEMMA LexComment ==
  ASSUME TypeOK, NEW s, Lexing(s), comment
  PROVE  Lexing(s)'
<1>1. text \in Text /\ text' = text /\ token_type = "NONE" /\ state = "COMMENT" /\ input # <<>>
      /\ input' = Tail(input)
  BY DEF TypeOK, Text, comment, In
<1>3. PICK q : InPiece(s, q)
  BY <1>1 DEF Lexing
<1>4. /\ s \in 1 .. Len(text) /\ text[s] \in DOMAIN Openers \cup Letters
      /\ state = StateOf(text[s]) /\ Head(input) = text[q] /\ Tail(input) = Rest(text, q + 1)
      /\ q \in s .. Len(text)
      /\ text[q] \in Closing(text[s]) => Find(text, Closing(text[s]), s) = q
  BY <1>1, <1>3, InPieceFacts
<1>5. text[s] = "#" /\ text[s] \in DOMAIN Openers
  BY <1>1, <1>4, StateOfIs, CharDomains
<1>6. Closing(text[s]) = {"lf", "cr"}
  BY <1>5 DEF Closing, LineEnds
<1>7. CASE Head(input) \in {"lf", "cr"} /\ Return("COMMENT", value)
  <2>1. Find(text, Closing(text[s]), s) = q
    BY <1>4, <1>6, <1>7
  <2>2. Len(text) \in Nat /\ q \in Nat /\ q + 1 \in 1 .. Len(text) + 1
    BY <1>1, <1>4, TextFacts
  <2>3. After(text, s) = q + 1 /\ TokenAt(text, s) = <<>>
    BY <1>1, <1>4, <1>5, <2>1, <2>2, LongPiece
  <2>4. token_type' = "COMMENT" /\ input' = Rest(text, q + 1)
    BY <1>1, <1>4, <1>7 DEF Return
  <2>5. Returned(s)'
    BY <1>1, <1>4, <2>2, <2>3, <2>4 DEF Returned
  <2> QED
    BY <2>4, <2>5 DEF Lexing
<1>8. CASE Head(input) \notin {"lf", "cr"} /\ Continue("COMMENT", Append(value, Head(input)))
  BY <1>1, <1>3, <1>6, <1>8, LexInside
<1> QED
  BY <1>7, <1>8 DEF comment

LEMMA LexNormal ==
  ASSUME TypeOK, NEW s, Lexing(s), normal
  PROVE  Lexing(s)'
<1>1. text \in Text /\ text' = text /\ token_type = "NONE" /\ state = "NORMAL" /\ input # <<>>
  BY DEF TypeOK, Text, normal, In
<1>3. PICK q : InPiece(s, q)
  BY <1>1 DEF Lexing
<1>4. /\ s \in 1 .. Len(text) /\ text[s] \in DOMAIN Openers \cup Letters
      /\ state = StateOf(text[s]) /\ Head(input) = text[q] /\ value = SubSeq(text, s, q - 1)
      /\ q \in s .. Len(text)
      /\ text[q] \in Closing(text[s]) => Find(text, Closing(text[s]), s) = q
  BY <1>1, <1>3, InPieceFacts
<1>5. text[s] \in Letters
  BY <1>1, <1>4, StateOfIs, CharDomains
<1>6. Closing(text[s]) = Terminators
  BY <1>4, <1>5, StateOfIs DEF Closing
<1>7. CASE Head(input) \in Terminators /\ Return("NORMAL", value) /\ UNCHANGED input
  <2>1. Find(text, Closing(text[s]), s) = q
    BY <1>4, <1>6, <1>7
  <2>2. Len(text) \in Nat /\ q \in Nat /\ ~(q > Len(text)) /\ q \in 1 .. Len(text) + 1
    BY <1>1, <1>4, TextFacts
  <2>3. After(text, s) = q /\ TokenAt(text, s) = <<Token("NORMAL", SubSeq(text, s, q - 1))>>
    BY <1>1, <1>4, <1>5, <2>1, <2>2, LongPiece
  <2>4. token_type' = "NORMAL" /\ value' = value /\ input' = Rest(text, q)
    BY <1>3, <1>7 DEF Return, InPiece
  <2>5. Returned(s)'
    BY <1>1, <1>4, <2>2, <2>3, <2>4 DEF Returned
  <2> QED
    BY <2>4, <2>5 DEF Lexing
<1>8. CASE /\ Head(input) \notin Terminators
           /\ Continue("NORMAL", Append(value, Head(input))) /\ input' = Tail(input)
  BY <1>1, <1>3, <1>6, <1>8, LexInside
<1> QED
  BY <1>7, <1>8 DEF normal

(* The end of the file, inside a piece or between two.                     *)
LEMMA LexEnd ==
  ASSUME TypeOK, NEW s, Lexing(s), end_of_file
  PROVE  Lexing(s)'
<1>1. text \in Text /\ text' = text /\ token_type = "NONE" /\ input = <<>>
      /\ token_type' = IF state \in DOMAIN Quotes THEN "ERROR" ELSE "EOF"
  BY DEF TypeOK, Text, end_of_file, In, AtEnd, Return
<1>2. Len(text) \in Nat
  BY <1>1, TextFacts
<1>3. CASE state = "INITIAL_WHITESPACE"
  <2>1. token_type' = "EOF"
    BY <1>1, <1>3, CharDomains
  <2>2. s \in 1 .. Len(text) + 1 /\ Rest(text, s) = <<>>
    BY <1>1, <1>3 DEF Lexing, Between
  <2>3. s = Len(text) + 1
    BY <1>1, <2>2, RestFacts
  <2>4. AtEOF(s)'
    BY <1>1, <1>2, <2>3 DEF AtEOF
  <2> QED
    BY <2>1, <2>4 DEF Lexing
<1>4. CASE state # "INITIAL_WHITESPACE"
  <2>1. PICK q : InPiece(s, q)
    BY <1>1, <1>4 DEF Lexing
  <2>2. PICK f : f = Find(text, Closing(text[s]), s)
    OBVIOUS
  <2>3. /\ s \in 1 .. Len(text) /\ text[s] \in DOMAIN Openers \cup Letters
        /\ state = StateOf(text[s]) /\ f = Len(text) + 1
    BY <1>1, <2>1, <2>2, InPieceFacts
  <2>4. f > Len(text) /\ f + 1 > Len(text)
    BY <1>2, <2>3
  <2>5. CASE text[s] \in {"dq", "'"}
    <3>1. TokenAt(text, s) = <<Token("ERROR", <<>>)>>
      BY <1>1, <2>2, <2>3, <2>4, <2>5, LongPiece
    <3>2. token_type' = "ERROR"
      BY <1>1, <2>3, <2>5, StateOfIs, CharDomains
    <3>3. AtError(s)'
      BY <1>1, <2>3, <3>1 DEF AtError
    <3> QED
      BY <3>2, <3>3 DEF Lexing
  <2>6. CASE text[s] \notin {"dq", "'"}
    <3>1. text[s] = "#" \/ text[s] \in Letters
      BY <2>3, <2>6, StateOfIs
    <3>2. TokenAt(text, s) = <<>> /\ After(text, s) > Len(text)
      BY <1>1, <2>2, <2>3, <2>4, <3>1, LongPiece, CharDomains
    <3>3. token_type' = "EOF"
      BY <1>1, <2>3, <3>1, StateOfIs, CharDomains
    <3>4. AtEOF(s)'
      BY <1>1, <2>3, <3>2 DEF AtEOF
    <3> QED
      BY <3>3, <3>4 DEF Lexing
  <2> QED
    BY <2>5, <2>6
<1> QED
  BY <1>3, <1>4

LEMMA LexCut ==
  ASSUME TypeOK, NEW s, NEW u, Cut(text, s, u), Lexing(s), ParseToken
  PROVE  \E r : (Cut(text, r, u) /\ Lexing(r))'
<1>1. text' = text
  BY LexStep
<1>2. Lexing(s)' \/ (Cut(text, s + 1, u) /\ Lexing(s + 1)')
  BY LexFirst, LexQuote, LexComment, LexNormal, LexEnd DEF ParseToken
<1>3. Cut(text, s, u) => Cut(text, s, u)'
  BY <1>1
<1>4. Cut(text, s + 1, u) => Cut(text, s + 1, u)'
  BY <1>1
<1> QED
  BY <1>2, <1>3, <1>4

-----------------------------------------------------------------------------
(* The grammar.  Which token may come after which, and how deep in blocks  *)
(* each one is: ty has the types of n tokens, dp the depth after each.     *)

Follows(a, b) ==
  \/ b = "NORMAL"
  \/ b \in {"STATEMENT_END", "START_BLOCK"} /\ a = "NORMAL"
  \/ b = "END_BLOCK" /\ a \in {"STATEMENT_END", "END_BLOCK"}

Delta(type) == IF type = "START_BLOCK" THEN 1 ELSE IF type = "END_BLOCK" THEN -1 ELSE 0

Profile(n, ty, dp) ==
  /\ n \in Nat /\ dp \in [0 .. n -> Int]
  /\ \A k \in 1 .. n : dp[k] = dp[k - 1] + Delta(ty[k])

(* One or more statements from i to j.                                     *)
Run(ty, dp, i, j) ==
  /\ ty[i] = "NORMAL" /\ ty[j] \in {"STATEMENT_END", "END_BLOCK"}
  /\ \A k \in i + 1 .. j : Follows(ty[k - 1], ty[k])
  /\ dp[j] = dp[i - 1]
  /\ \A k \in i .. j : dp[k] >= dp[i - 1]

LEMMA DepthAt ==
  ASSUME NEW n, NEW ty, NEW dp, Profile(n, ty, dp), NEW k \in 1 .. n
  PROVE  /\ dp[k] \in Int /\ dp[k - 1] \in Int /\ n \in Nat /\ k \in Nat
         /\ ty[k] = "START_BLOCK" => dp[k] = dp[k - 1] + 1
         /\ ty[k] = "END_BLOCK" => dp[k] = dp[k - 1] - 1
         /\ ty[k] \notin {"START_BLOCK", "END_BLOCK"} => dp[k] = dp[k - 1]
<1>1. n \in Nat /\ dp \in [0 .. n -> Int] /\ k \in 0 .. n /\ k - 1 \in 0 .. n
  BY DEF Profile
<1>2. dp[k] = dp[k - 1] + Delta(ty[k])
  BY DEF Profile
<1> QED
  BY <1>1, <1>2 DEF Delta

(* Words leave the depth as it is.                                         *)
LEMMA WordsFlat ==
  ASSUME NEW n, NEW ty, NEW dp, Profile(n, ty, dp), NEW i \in 1 .. n, NEW m \in i .. n,
         \A k \in i .. m : ty[k] = "NORMAL"
  PROVE  \A k \in i .. m : dp[k] = dp[i - 1]
<1>1. n \in Nat /\ i \in Nat /\ m \in Nat
  BY DEF Profile
<1> DEFINE bad == {k \in i .. m : dp[k] # dp[i - 1]}
<1> SUFFICES ASSUME bad # {} PROVE FALSE
  OBVIOUS
<1>2. PICK k \in bad : \A y \in bad : k =< y
  <2>1. bad \in SUBSET Nat
    BY <1>1
  <2> HIDE DEF bad
  <2> QED
    BY <2>1, SmallestNat
<1>3. k \in 1 .. n /\ ty[k] = "NORMAL"
  BY <1>1, <1>2
<1>4. dp[k] = dp[k - 1]
  BY <1>3, DepthAt
<1>5. CASE k = i
  BY <1>2, <1>4, <1>5
<1>6. CASE k # i
  <2>1. k - 1 \in i .. m /\ ~(k <= k - 1)
    BY <1>1, <1>2, <1>6
  <2>2. dp[k - 1] = dp[i - 1]
    BY <1>2, <2>1
  <2> QED
    BY <1>2, <1>4, <2>2
<1> QED
  BY <1>5, <1>6

LEMMA RunJoin ==
  ASSUME NEW n, NEW ty, NEW dp, Profile(n, ty, dp), NEW i \in 1 .. n, NEW j \in 1 .. n,
         NEW p \in 1 .. n, i <= p, p < j, Run(ty, dp, i, p), Run(ty, dp, p + 1, j)
  PROVE  Run(ty, dp, i, j)
<1>1. n \in Nat
  BY DEF Profile
<1>2. p + 1 - 1 = p
  OBVIOUS
<1>3. /\ ty[p + 1] = "NORMAL" /\ ty[j] \in {"STATEMENT_END", "END_BLOCK"}
      /\ dp[j] = dp[p] /\ \A k \in p + 1 .. j : dp[k] >= dp[p]
  BY <1>2 DEF Run
<1>4. ty[i] = "NORMAL" /\ dp[p] = dp[i - 1] /\ \A k \in i .. p : dp[k] >= dp[i - 1]
  BY DEF Run
<1>5. ASSUME NEW k \in i + 1 .. j PROVE Follows(ty[k - 1], ty[k])
  <2>1. CASE k \in i + 1 .. p
    BY <2>1 DEF Run
  <2>2. CASE k = p + 1
    BY <1>3, <2>2 DEF Follows
  <2>3. CASE k \in p + 1 + 1 .. j
    BY <2>3 DEF Run
  <2> QED
    BY <1>1, <2>1, <2>2, <2>3
<1>6. ASSUME NEW k \in i .. j PROVE dp[k] >= dp[i - 1]
  <2>1. k \in i .. p \/ k \in p + 1 .. j
    BY <1>1
  <2> QED
    BY <1>3, <1>4, <2>1
<1> QED
  BY <1>3, <1>4, <1>5, <1>6 DEF Run

(* A statement without a block.                                            *)
LEMMA RunSimple ==
  ASSUME NEW n, NEW ty, NEW dp, Profile(n, ty, dp), NEW i \in 1 .. n, NEW m \in i + 1 .. n,
         \A k \in i .. m - 1 : ty[k] = "NORMAL", ty[m] = "STATEMENT_END"
  PROVE  Run(ty, dp, i, m)
<1>1. n \in Nat /\ m - 1 \in i .. n /\ m \in 1 .. n
  BY DEF Profile
<1>2. \A k \in i .. m - 1 : dp[k] = dp[i - 1]
  <2>1. PICK l : l = m - 1
    OBVIOUS
  <2>2. l \in i .. n /\ \A k \in i .. l : ty[k] = "NORMAL"
    BY <1>1, <2>1
  <2>3. \A k \in i .. l : dp[k] = dp[i - 1]
    BY <2>2, WordsFlat
  <2> QED
    BY <2>1, <2>3
<1>3. dp[m] = dp[m - 1] /\ dp[i - 1] \in Int
  BY <1>1, DepthAt
<1>4. dp[m] = dp[i - 1]
  BY <1>1, <1>2, <1>3
<1>5. ASSUME NEW k \in i .. m PROVE dp[k] >= dp[i - 1]
  <2>1. k \in i .. m - 1 \/ k = m
    BY <1>1
  <2> QED
    BY <1>2, <1>3, <1>4, <2>1
<1>6. ASSUME NEW k \in i + 1 .. m PROVE Follows(ty[k - 1], ty[k])
  <2>1. k - 1 \in i .. m - 1 /\ (k \in i .. m - 1 \/ k = m)
    BY <1>1
  <2>2. ty[k - 1] = "NORMAL" /\ ty[k] \in {"NORMAL", "STATEMENT_END"}
    BY <2>1
  <2> QED
    BY <2>2 DEF Follows
<1>7. ty[i] = "NORMAL"
  BY <1>1
<1> QED
  BY <1>4, <1>5, <1>6, <1>7 DEF Run

(* A statement with a block.                                               *)
LEMMA RunBlock ==
  ASSUME NEW n, NEW ty, NEW dp, Profile(n, ty, dp), NEW i \in 1 .. n, NEW m \in i + 1 .. n,
         \A k \in i .. m - 1 : ty[k] = "NORMAL", ty[m] = "START_BLOCK",
         NEW p \in m + 2 .. n, ty[p] = "END_BLOCK", Run(ty, dp, m + 1, p - 1)
  PROVE  Run(ty, dp, i, p)
<1>1. n \in Nat /\ m - 1 \in i .. n /\ m \in 1 .. n /\ p \in 1 .. n
  BY DEF Profile
<1>2. \A k \in i .. m - 1 : dp[k] = dp[i - 1]
  <2>1. PICK l : l = m - 1
    OBVIOUS
  <2>2. l \in i .. n /\ \A k \in i .. l : ty[k] = "NORMAL"
    BY <1>1, <2>1
  <2>3. \A k \in i .. l : dp[k] = dp[i - 1]
    BY <2>2, WordsFlat
  <2> QED
    BY <2>1, <2>3
<1>3. dp[m] = dp[m - 1] + 1 /\ dp[i - 1] \in Int
  BY <1>1, DepthAt
<1>4. dp[m] = dp[i - 1] + 1
  BY <1>1, <1>2, <1>3
<1>5. /\ ty[m + 1] = "NORMAL" /\ ty[p - 1] \in {"STATEMENT_END", "END_BLOCK"}
      /\ \A k \in m + 1 + 1 .. p - 1 : Follows(ty[k - 1], ty[k])
      /\ dp[p - 1] = dp[m] /\ \A k \in m + 1 .. p - 1 : dp[k] >= dp[m]
  <2>1. m + 1 - 1 = m
    BY <1>1
  <2> QED
    BY <2>1 DEF Run
<1>6. dp[p] = dp[i - 1]
  <2>1. dp[p] = dp[p - 1] - 1
    BY <1>1, DepthAt
  <2> QED
    BY <1>3, <1>4, <1>5, <2>1
<1>7. ASSUME NEW k \in i .. p PROVE dp[k] >= dp[i - 1]
  <2>1. k \in i .. m - 1 \/ k = m \/ k \in m + 1 .. p - 1 \/ k = p
    BY <1>1
  <2>2. k \in 1 .. n
    BY <1>1
  <2>3. dp[k] \in Int
    BY <2>2, DepthAt
  <2> QED
    BY <1>2, <1>3, <1>4, <1>5, <1>6, <2>1, <2>3
<1>8. ASSUME NEW k \in i + 1 .. p PROVE Follows(ty[k - 1], ty[k])
  <2>1. k \in i + 1 .. m - 1 \/ k = m \/ k = m + 1 \/ k \in m + 1 + 1 .. p - 1 \/ k = p
    BY <1>1
  <2>2. CASE k \in i + 1 .. m - 1
    BY <1>1, <2>2 DEF Follows
  <2>3. CASE k = m
    <3>1. ty[k - 1] = "NORMAL"
      BY <1>1, <2>3
    <3> QED
      BY <2>3, <3>1 DEF Follows
  <2>4. CASE k = m + 1
    BY <1>5, <2>4 DEF Follows
  <2>5. CASE k \in m + 1 + 1 .. p - 1
    BY <1>5, <2>5
  <2>6. CASE k = p
    BY <1>5, <2>6 DEF Follows
  <2> QED
    BY <2>1, <2>2, <2>3, <2>4, <2>5, <2>6
<1>9. ty[i] = "NORMAL"
  BY <1>1
<1> QED
  BY <1>6, <1>7, <1>8, <1>9 DEF Run

(* The first statement has its words before m and its last token at p.     *)
SplitAt(ty, dp, i, j, m, p) ==
  /\ \A k \in i .. m - 1 : ty[k] = "NORMAL"
  /\ \/ p = m /\ ty[m] = "STATEMENT_END"
     \/ /\ p > m + 1 /\ ty[m] = "START_BLOCK" /\ ty[p] = "END_BLOCK"
        /\ Run(ty, dp, m + 1, p - 1)
  /\ p = j \/ Run(ty, dp, p + 1, j)

LEMMA RunSplit ==
  ASSUME NEW n, NEW ty, NEW dp, Profile(n, ty, dp), NEW i \in 1 .. n, NEW j \in i .. n,
         Run(ty, dp, i, j)
  PROVE  \E m \in i + 1 .. j : \E p \in m .. j : SplitAt(ty, dp, i, j, m, p)
<1>1. n \in Nat /\ i \in Nat /\ j \in Nat /\ i <= j /\ j <= n
  BY DEF Profile
<1>2. PICK d : d = dp[i - 1]
  OBVIOUS
<1>3. /\ ty[i] = "NORMAL" /\ ty[j] \in {"STATEMENT_END", "END_BLOCK"} /\ dp[j] = d
      /\ \A k \in i .. j : dp[k] >= d
  BY <1>2 DEF Run
<1>4. \A k \in i + 1 .. j : Follows(ty[k - 1], ty[k])
  BY DEF Run
<1>5. ASSUME NEW k \in i .. j
      PROVE  k \in 1 .. n /\ dp[k] \in Int /\ d \in Int
  <2>1. k \in 1 .. n
    BY <1>1
  <2> QED
    BY <1>2, <2>1, DepthAt
<1> DEFINE Ends == {k \in i .. j : ty[k] # "NORMAL"}
<1>6. PICK m \in Ends : \A y \in Ends : m =< y
  <2>1. j \in Ends /\ Ends \in SUBSET Nat
    BY <1>1, <1>3
  <2> HIDE DEF Ends
  <2> QED
    BY <2>1, SmallestNat
<1>7. m \in i + 1 .. j /\ m \in Nat /\ m - 1 \in i .. j
  <2>1. m # i
    BY <1>3, <1>6
  <2> QED
    BY <1>1, <1>6, <2>1
<1>8. ASSUME NEW k \in i .. m - 1 PROVE ty[k] = "NORMAL"
  <2>1. k \in i .. j /\ ~(m <= k)
    BY <1>7
  <2> QED
    BY <1>6, <2>1
<1>9. ty[m] \in {"STATEMENT_END", "START_BLOCK"}
  <2>1. ty[m - 1] = "NORMAL" /\ ty[m] # "NORMAL" /\ Follows(ty[m - 1], ty[m])
    BY <1>4, <1>6, <1>7, <1>8
  <2> QED
    BY <2>1 DEF Follows
<1>10. dp[m - 1] = d
  <2>1. PICK l : l = m - 1
    OBVIOUS
  <2>2. l \in i .. n /\ l \in i .. l /\ \A k \in i .. l : ty[k] = "NORMAL"
    BY <1>1, <1>7, <1>8, <2>1
  <2>3. dp[l] = dp[i - 1]
    BY <2>2, WordsFlat
  <2> QED
    BY <1>2, <2>1, <2>3
<1> HIDE DEF Ends
(* Behind a complete statement comes a word: a brace would go too deep.    *)
<1>11. ASSUME NEW p \in i + 1 .. j, dp[p] = d, ty[p] \in {"STATEMENT_END", "END_BLOCK"}
       PROVE  p = j \/ Run(ty, dp, p + 1, j)
  <2> SUFFICES ASSUME p # j PROVE Run(ty, dp, p + 1, j)
    OBVIOUS
  <2>1. PICK l : l = p + 1
    OBVIOUS
  <2>2. l \in i .. j /\ l \in i + 1 .. j /\ l - 1 = p /\ l \in 1 .. n
    BY <1>1, <2>1
  <2>3. Follows(ty[p], ty[l])
    BY <1>4, <2>2
  <2>4. ty[l] # "END_BLOCK"
    <3> SUFFICES ASSUME ty[l] = "END_BLOCK" PROVE FALSE
      OBVIOUS
    <3>1. dp[l] = dp[p] - 1
      BY <2>2, DepthAt
    <3>2. dp[l] >= d /\ d \in Int
      BY <1>3, <1>5, <2>2
    <3> QED
      BY <1>11, <3>1, <3>2
  <2>5. ty[l] = "NORMAL"
    BY <1>11, <2>3, <2>4 DEF Follows
  <2>6. \A k \in l + 1 .. j : k \in i + 1 .. j
    BY <1>1, <2>2
  <2>7. \A k \in l .. j : k \in i .. j
    BY <1>1, <2>2
  <2>8. Run(ty, dp, l, j)
    BY <1>3, <1>4, <1>11, <2>2, <2>5, <2>6, <2>7 DEF Run
  <2> QED
    BY <2>1, <2>8
<1>12. CASE ty[m] = "STATEMENT_END"
  <2>1. dp[m] = d
    BY <1>5, <1>6, <1>7, <1>10, <1>12, DepthAt
  <2>2. m = j \/ Run(ty, dp, m + 1, j)
    BY <1>7, <1>11, <1>12, <2>1
  <2>3. m \in m .. j
    BY <1>1, <1>7
  <2>4. SplitAt(ty, dp, i, j, m, m)
    BY <1>8, <1>12, <2>2 DEF SplitAt
  <2> QED
    BY <1>7, <2>3, <2>4
<1>13. CASE ty[m] = "START_BLOCK"
  <2>1. dp[m] = d + 1 /\ d \in Int /\ m \in i .. j
    <3>1. m \in i .. j /\ m \in 1 .. n
      BY <1>1, <1>7
    <3> QED
      BY <1>5, <1>10, <1>13, <3>1, DepthAt
  <2>2. m # j
    BY <1>3, <1>13
  <2> DEFINE Back2 == {k \in m + 1 .. j : dp[k] = d}
  <2>3. PICK p \in Back2 : \A y \in Back2 : p =< y
    <3>1. j \in Back2 /\ Back2 \in SUBSET Nat
      BY <1>1, <1>3, <1>7, <2>2
    <3> HIDE DEF Back2
    <3> QED
      BY <3>1, SmallestNat
  <2>4. p \in m + 1 .. j /\ dp[p] = d /\ p \in Nat /\ p \in i .. j
    BY <1>1, <1>7, <2>3
  <2>5. ASSUME NEW k \in m .. p - 1 PROVE k \in i .. j /\ dp[k] >= dp[m]
    <3>1. k \in i .. j /\ (k = m \/ (k \in m + 1 .. j /\ ~(p <= k)))
      BY <1>1, <1>7, <2>4
    <3>2. k # m => dp[k] # d
      BY <2>3, <3>1
    <3>3. dp[k] >= d /\ dp[k] \in Int
      BY <1>3, <1>5, <3>1
    <3> QED
      BY <2>1, <3>1, <3>2, <3>3
  <2> HIDE DEF Back2
  <2>6. PICK l : l = p - 1
    OBVIOUS
  <2>7. l \in m .. p - 1 /\ l \in i .. j /\ p \in 1 .. n /\ p \in i + 1 .. j
    BY <1>1, <1>7, <2>4, <2>6
  <2>8. dp[l] >= d + 1 /\ dp[l] \in Int
    BY <1>5, <2>1, <2>5, <2>7
  <2>9. ty[p] = "END_BLOCK" /\ dp[l] = d + 1
    <3>1. /\ ty[p] = "START_BLOCK" => dp[p] = dp[l] + 1
          /\ ty[p] = "END_BLOCK" => dp[p] = dp[l] - 1
          /\ ty[p] \notin {"START_BLOCK", "END_BLOCK"} => dp[p] = dp[l]
      BY <2>6, <2>7, DepthAt
    <3> QED
      BY <2>1, <2>4, <2>8, <3>1
  <2>10. ty[l] \in {"STATEMENT_END", "END_BLOCK"}
    <3>1. Follows(ty[l], ty[p])
      BY <1>4, <2>6, <2>7
    <3> QED
      BY <2>9, <3>1 DEF Follows
  <2>11. l # m /\ p > m + 1
    <3>1. l # m
      BY <1>13, <2>10
    <3> QED
      BY <1>7, <2>4, <2>6, <3>1
  <2>12. PICK a : a = m + 1
    OBVIOUS
  <2>13. a \in i + 1 .. j /\ a - 1 = m /\ a <= l
    BY <1>1, <1>7, <2>4, <2>6, <2>11, <2>12
  <2>14. ty[a] = "NORMAL"
    <3>1. Follows(ty[m], ty[a])
      BY <1>4, <2>13
    <3> QED
      BY <1>13, <3>1 DEF Follows
  <2>15. \A k \in a .. l : k \in m .. p - 1
    BY <1>7, <2>4, <2>6, <2>12
  <2>16. \A k \in a + 1 .. l : k \in i + 1 .. j
    BY <1>1, <1>7, <2>7, <2>12
  <2>17. Run(ty, dp, a, l)
    BY <1>4, <2>1, <2>5, <2>9, <2>10, <2>13, <2>14, <2>15, <2>16 DEF Run
  <2>18. p = j \/ Run(ty, dp, p + 1, j)
    BY <1>11, <2>4, <2>7, <2>9
  <2>19. p \in m .. j
    BY <1>7, <2>4
  <2>20. SplitAt(ty, dp, i, j, m, p)
    BY <1>8, <1>13, <2>6, <2>9, <2>11, <2>12, <2>17, <2>18 DEF SplitAt
  <2> QED
    BY <1>7, <2>19, <2>20
<1> QED
  BY <1>9, <1>12, <1>13

(* Where the configs of d tokens begin.                                    *)
Places(n, ty, dp, d) == {i \in 1 .. n - d + 1 : d = 0 \/ Run(ty, dp, i, i + d - 1)}

FirstEnds(ts, g, i, j, m, p) ==
  /\ \A k \in i .. m - 1 : ts[k].type = "NORMAL"
  /\ \/ p = m /\ ts[m].type = "STATEMENT_END"
     \/ /\ p > m + 1 /\ ts[m].type = "START_BLOCK" /\ ts[p].type = "END_BLOCK"
        /\ m + 1 \in g[p - m - 1]
  /\ p + 1 \in g[j - p]

LEMMA ConfigsOfIs ==
  ASSUME NEW ts, NEW g, NEW d \in Nat, d # 0, NEW i \in 1 .. Len(ts) - d + 1,
         NEW j, j = i + d - 1
  PROVE  i \in ConfigsOf(ts, g, d) <=>
           \E m \in i + 1 .. j : \E p \in m .. j : FirstEnds(ts, g, i, j, m, p)
<1>1. ConfigsOf(ts, g, d) =
        {x \in 1 .. Len(ts) - d + 1 : d # 0 =>
           \E m \in x + 1 .. x + d - 1 : \E p \in m .. x + d - 1 :
             FirstEnds(ts, g, x, x + d - 1, m, p)}
  BY DEF ConfigsOf, FirstEnds
<1> QED
  BY <1>1

LEMMA PlaceIs ==
  ASSUME NEW n \in Nat, NEW ty, NEW dp, NEW a \in 1 .. n + 1, NEW b \in a - 1 .. n,
         NEW e, e = b - a + 1
  PROVE  a \in Places(n, ty, dp, e) <=> (b = a - 1 \/ Run(ty, dp, a, b))
<1>1. e \in Nat /\ a \in 1 .. n - e + 1 /\ a + e - 1 = b /\ (e = 0 <=> b = a - 1)
  OBVIOUS
<1>2. PICK c : c = a + e - 1
  OBVIOUS
<1>3. c = b
  BY <1>1, <1>2
<1>4. a \in Places(n, ty, dp, e) <=> (e = 0 \/ Run(ty, dp, a, c))
  BY <1>1, <1>2 DEF Places
<1> QED
  BY <1>1, <1>3, <1>4

Types(ts) == [k \in 1 .. Len(ts) |-> ts[k].type]

LEMMA ConfigsStep ==
  ASSUME NEW ts \in Seq(Lexeme), NEW n, n = Len(ts), NEW ty, ty = Types(ts), NEW dp,
         Profile(n, ty, dp), NEW d \in 0 .. n, NEW g,
         \A e \in 0 .. n : e < d => g[e] = Places(n, ty, dp, e)
  PROVE  ConfigsOf(ts, g, d) = Places(n, ty, dp, d)
<1>1. n \in Nat /\ \A k \in 1 .. n : ty[k] = ts[k].type
  BY DEF Types
<1>2. CASE d = 0
  BY <1>2 DEF ConfigsOf, Places
<1>3. CASE d # 0
  <2>1. ASSUME NEW i \in 1 .. n - d + 1
        PROVE  i \in ConfigsOf(ts, g, d) <=> i \in Places(n, ty, dp, d)
    <3>1. PICK j : j = i + d - 1
      OBVIOUS
    <3>2. j \in i .. n /\ i \in 1 .. n /\ j \in Nat /\ i \in Nat /\ j # i - 1 /\ d = j - i + 1
          /\ i \in 1 .. n + 1 /\ j \in i - 1 .. n
      BY <1>1, <1>3, <3>1
    <3>3. i \in Places(n, ty, dp, d) <=> Run(ty, dp, i, j)
      BY <1>1, <3>2, PlaceIs
    <3>4. i \in ConfigsOf(ts, g, d) <=>
            \E m \in i + 1 .. j : \E p \in m .. j : FirstEnds(ts, g, i, j, m, p)
      BY <1>3, <3>1, ConfigsOfIs
    <3>5. ASSUME NEW m \in i + 1 .. j, NEW p \in m .. j
          PROVE  FirstEnds(ts, g, i, j, m, p) <=> SplitAt(ty, dp, i, j, m, p)
      <4>1. m \in 1 .. n /\ p \in 1 .. n /\ m \in Nat /\ p \in Nat
            /\ \A k \in i .. m - 1 : k \in 1 .. n
        BY <1>1, <3>2
      <4>2. ty[m] = ts[m].type /\ ty[p] = ts[p].type
            /\ \A k \in i .. m - 1 : ty[k] = ts[k].type
        BY <1>1, <4>1
      <4>3. p + 1 \in g[j - p] <=> (p = j \/ Run(ty, dp, p + 1, j))
        <5>1. PICK a, e : a = p + 1 /\ e = j - p
          OBVIOUS
        <5>2. /\ a \in 1 .. n + 1 /\ j \in a - 1 .. n /\ e = j - a + 1 /\ e \in 0 .. n /\ e < d
              /\ (j = a - 1 <=> p = j)
          BY <1>1, <3>2, <4>1, <5>1
        <5>3. a \in Places(n, ty, dp, e) <=> (j = a - 1 \/ Run(ty, dp, a, j))
          BY <1>1, <5>2, PlaceIs
        <5>4. g[e] = Places(n, ty, dp, e)
          BY <5>2
        <5> QED
          BY <5>1, <5>2, <5>3, <5>4
      <4>4. ASSUME p > m + 1
            PROVE  m + 1 \in g[p - m - 1] <=> Run(ty, dp, m + 1, p - 1)
        <5>1. PICK a, b, e : a = m + 1 /\ b = p - 1 /\ e = p - m - 1
          OBVIOUS
        <5>2. /\ a \in 1 .. n + 1 /\ b \in a - 1 .. n /\ e = b - a + 1 /\ e \in 0 .. n /\ e < d
              /\ b # a - 1
          BY <1>1, <3>2, <4>1, <4>4, <5>1
        <5>3. a \in Places(n, ty, dp, e) <=> Run(ty, dp, a, b)
          BY <1>1, <5>2, PlaceIs
        <5>4. g[e] = Places(n, ty, dp, e)
          BY <5>2
        <5> QED
          BY <5>1, <5>3, <5>4
      <4> QED
        BY <4>2, <4>3, <4>4 DEF FirstEnds, SplitAt
    <3>6. ASSUME Run(ty, dp, i, j)
          PROVE  \E m \in i + 1 .. j : \E p \in m .. j : FirstEnds(ts, g, i, j, m, p)
      BY <3>2, <3>5, <3>6, RunSplit
    <3>7. ASSUME NEW m \in i + 1 .. j, NEW p \in m .. j, FirstEnds(ts, g, i, j, m, p)
          PROVE  Run(ty, dp, i, j)
      <4>1. m \in i + 1 .. n /\ p \in 1 .. n /\ j \in 1 .. n /\ i <= p /\ p \in Nat
        BY <1>1, <3>2
      <4>0. SplitAt(ty, dp, i, j, m, p)
        BY <3>5, <3>7
      <4>2. Run(ty, dp, i, p)
        <5>1. CASE p = m /\ ty[m] = "STATEMENT_END"
          BY <3>2, <4>0, <4>1, <5>1, RunSimple DEF SplitAt
        <5>2. CASE p > m + 1 /\ ty[m] = "START_BLOCK" /\ ty[p] = "END_BLOCK"
                   /\ Run(ty, dp, m + 1, p - 1)
          <6>1. p \in m + 2 .. n
            BY <1>1, <4>1, <5>2
          <6> QED
            BY <3>2, <4>0, <4>1, <5>2, <6>1, RunBlock DEF SplitAt
        <5> QED
          BY <4>0, <5>1, <5>2 DEF SplitAt
      <4>3. CASE p = j
        BY <4>2, <4>3
      <4>4. CASE p # j
        <5>1. p < j /\ Run(ty, dp, p + 1, j)
          BY <3>2, <4>0, <4>1, <4>4 DEF SplitAt
        <5> QED
          BY <3>2, <4>1, <4>2, <5>1, RunJoin
      <4> QED
        BY <4>3, <4>4
    <3> QED
      BY <3>3, <3>4, <3>6, <3>7
  <2>2. /\ ConfigsOf(ts, g, d) \subseteq 1 .. n - d + 1
        /\ Places(n, ty, dp, d) \subseteq 1 .. n - d + 1
    BY DEF ConfigsOf, Places
  <2> QED
    BY <2>1, <2>2
<1> QED
  BY <1>2, <1>3

ConfigsFn(ts) == CHOOSE configs : configs = [d \in 0 .. Len(ts) |-> ConfigsOf(ts, configs, d)]

LEMMA IsConfigIs ==
  ASSUME NEW ts
  PROVE  IsConfig(ts) <=> 1 \in ConfigsFn(ts)[Len(ts)]
BY DEF IsConfig, ConfigsFn

(* A configuration is a run of statements, or empty.                       *)
LEMMA GrammarIsRun ==
  ASSUME NEW ts \in Seq(Lexeme), NEW n, n = Len(ts), NEW ty, ty = Types(ts), NEW dp,
         Profile(n, ty, dp)
  PROVE  IsConfig(ts) <=> (n = 0 \/ Run(ty, dp, 1, n))
<1>1. n \in Nat
  BY DEF Profile
<1>2. PICK w : w = [d \in 0 .. n |-> Places(n, ty, dp, d)]
  OBVIOUS
<1>3. \A d \in 0 .. n : ConfigsOf(ts, w, d) = Places(n, ty, dp, d)
  <2>1. \A e \in 0 .. n : w[e] = Places(n, ty, dp, e)
    BY <1>2
  <2> QED
    BY <2>1, ConfigsStep
<1> DEFINE Body(f) == [d \in 0 .. n |-> ConfigsOf(ts, f, d)]
<1>4. w = Body(w)
  BY <1>2, <1>3
<1>5. ConfigsFn(ts) = Body(ConfigsFn(ts))
  <2>1. ConfigsFn(ts) = CHOOSE f : f = Body(f)
    BY DEF ConfigsFn
  <2> HIDE DEF Body
  <2> QED
    BY <1>4, <2>1, Zenon
<1>6. PICK h : h = ConfigsFn(ts) /\ h = Body(h)
  BY <1>5
<1>7. \A d \in 0 .. n : h[d] = ConfigsOf(ts, h, d)
  BY <1>6
<1> HIDE DEF Body
<1> DEFINE bad == {d \in 0 .. n : h[d] # Places(n, ty, dp, d)}
<1>8. bad = {}
  <2> SUFFICES ASSUME bad # {} PROVE FALSE
    OBVIOUS
  <2>1. PICK d \in bad : \A y \in bad : d =< y
    <3>1. bad \in SUBSET Nat
      OBVIOUS
    <3> HIDE DEF bad
    <3> QED
      BY <3>1, SmallestNat
  <2>2. ASSUME NEW e \in 0 .. n, e < d PROVE h[e] = Places(n, ty, dp, e)
    <3>1. ~(d =< e)
      BY <1>1, <2>1, <2>2
    <3> QED
      BY <2>1, <3>1
  <2>3. d \in 0 .. n /\ h[d] # Places(n, ty, dp, d)
    BY <2>1
  <2> HIDE DEF bad
  <2>4. ConfigsOf(ts, h, d) = Places(n, ty, dp, d)
    BY <2>2, <2>3, ConfigsStep
  <2> QED
    BY <1>7, <2>3, <2>4
<1>9. h[n] = Places(n, ty, dp, n)
  BY <1>1, <1>8
<1>10. 1 \in 1 .. n + 1 /\ n \in 1 - 1 .. n /\ n = n - 1 + 1 /\ (n = 1 - 1 <=> n = 0)
  BY <1>1
<1>11. 1 \in Places(n, ty, dp, n) <=> (n = 1 - 1 \/ Run(ty, dp, 1, n))
  BY <1>1, <1>10, PlaceIs
<1> QED
  BY <1>6, <1>9, <1>10, <1>11, IsConfigIs

-----------------------------------------------------------------------------
(* Tokens that may begin a configuration                                   *)

Of(ts, k, type) == {i \in 1 .. k : ts[i].type = type}

Depth(ts, k) == Cardinality(Of(ts, k, "START_BLOCK")) - Cardinality(Of(ts, k, "END_BLOCK"))

Depths(ts) == [k \in 0 .. Len(ts) |-> Depth(ts, k)]

TypeBefore(ts, k) == IF k = 1 THEN "START" ELSE ts[k - 1].type

LastType(ts) == IF ts = <<>> THEN "START" ELSE ts[Len(ts)].type

Good(ts) ==
  \A k \in 1 .. Len(ts) : Follows(TypeBefore(ts, k), ts[k].type) /\ Depth(ts, k) >= 0

LEMMA CountStep ==
  ASSUME NEW ts, NEW k \in Nat, k > 0, NEW type
  PROVE  /\ Cardinality(Of(ts, k, type)) \in Nat /\ Cardinality(Of(ts, k - 1, type)) \in Nat
         /\ Cardinality(Of(ts, k, type)) =
              Cardinality(Of(ts, k - 1, type)) + IF ts[k].type = type THEN 1 ELSE 0
<1>1. PICK j \in Nat : j = k - 1
  OBVIOUS
<1>2. IsFiniteSet(Of(ts, j, type)) /\ k \notin Of(ts, j, type)
  <2>1. IsFiniteSet(1 .. j) /\ Of(ts, j, type) \subseteq 1 .. j
    BY <1>1, FS_Interval DEF Of
  <2> QED
    BY <1>1, <2>1, FS_Subset
<1>3. Cardinality(Of(ts, j, type)) \in Nat
  BY <1>2, FS_CardinalityType
<1>4. CASE ts[k].type = type
  <2>1. Of(ts, k, type) = Of(ts, j, type) \cup {k}
    BY <1>1, <1>4 DEF Of
  <2>2. Cardinality(Of(ts, k, type)) = Cardinality(Of(ts, j, type)) + 1
    BY <1>2, <2>1, FS_AddElement
  <2> QED
    BY <1>1, <1>3, <1>4, <2>2
<1>5. CASE ts[k].type # type
  <2>1. Of(ts, k, type) = Of(ts, j, type)
    BY <1>1, <1>5 DEF Of
  <2> QED
    BY <1>1, <1>3, <1>5, <2>1
<1> QED
  BY <1>4, <1>5

LEMMA DepthStep ==
  ASSUME NEW ts, NEW k \in Nat, k > 0
  PROVE  /\ Depth(ts, k) \in Int /\ Depth(ts, k - 1) \in Int
         /\ Depth(ts, k) = Depth(ts, k - 1) + Delta(ts[k].type)
<1>1. PICK a, b, c, d : /\ a = Cardinality(Of(ts, k, "START_BLOCK"))
                        /\ b = Cardinality(Of(ts, k, "END_BLOCK"))
                        /\ c = Cardinality(Of(ts, k - 1, "START_BLOCK"))
                        /\ d = Cardinality(Of(ts, k - 1, "END_BLOCK"))
  OBVIOUS
<1>2. a \in Nat /\ c \in Nat /\ a = c + IF ts[k].type = "START_BLOCK" THEN 1 ELSE 0
  BY <1>1, CountStep
<1>3. b \in Nat /\ d \in Nat /\ b = d + IF ts[k].type = "END_BLOCK" THEN 1 ELSE 0
  BY <1>1, CountStep
<1>4. Depth(ts, k) = a - b /\ Depth(ts, k - 1) = c - d
  BY <1>1 DEF Depth
<1> QED
  BY <1>2, <1>3, <1>4 DEF Delta

LEMMA DepthStart ==
  ASSUME NEW ts
  PROVE  Depth(ts, 0) = 0
<1>1. \A type : Of(ts, 0, type) = {}
  BY DEF Of
<1>2. Cardinality({}) = 0
  BY FS_EmptySet
<1>3. Cardinality(Of(ts, 0, "START_BLOCK")) = 0 /\ Cardinality(Of(ts, 0, "END_BLOCK")) = 0
  BY <1>1, <1>2
<1> QED
  BY <1>3 DEF Depth

LEMMA DepthTyped ==
  ASSUME NEW ts, NEW k \in Nat
  PROVE  Depth(ts, k) \in Int
<1>1. CASE k = 0
  BY <1>1, DepthStart
<1>2. CASE k # 0
  <2>1. k > 0
    BY <1>2
  <2> QED
    BY <2>1, DepthStep
<1> QED
  BY <1>1, <1>2

LEMMA DepthProfile ==
  ASSUME NEW ts \in Seq(Lexeme)
  PROVE  Profile(Len(ts), Types(ts), Depths(ts))
<1>1. PICK n \in Nat : n = Len(ts)
  OBVIOUS
<1>2. PICK ty, dp : ty = Types(ts) /\ dp = Depths(ts)
  OBVIOUS
<1>3. \A k \in 0 .. n : dp[k] = Depth(ts, k) /\ Depth(ts, k) \in Int
  BY <1>1, <1>2, DepthTyped DEF Depths
<1>4. dp \in [0 .. n -> Int]
  <2>1. dp = [k \in 0 .. n |-> Depth(ts, k)]
    BY <1>1, <1>2 DEF Depths
  <2> QED
    BY <1>3, <2>1
<1>5. ASSUME NEW k \in 1 .. n PROVE dp[k] = dp[k - 1] + Delta(ty[k])
  <2>1. k \in 0 .. n /\ k - 1 \in 0 .. n /\ k \in Nat /\ k > 0
    BY <1>1
  <2>2. ty[k] = ts[k].type
    BY <1>1, <1>2 DEF Types
  <2> QED
    BY <1>3, <2>1, <2>2, DepthStep
<1> QED
  BY <1>1, <1>2, <1>4, <1>5 DEF Profile

(* A configuration: good to its end, and complete there.                   *)
LEMMA ConfigIsGood ==
  ASSUME NEW ts \in Seq(Lexeme)
  PROVE  IsConfig(ts) <=> /\ Good(ts) /\ LastType(ts) \in {"START", "STATEMENT_END", "END_BLOCK"}
                          /\ Depth(ts, Len(ts)) = 0
<1>1. PICK n \in Nat : n = Len(ts)
  OBVIOUS
<1>2. PICK ty, dp : ty = Types(ts) /\ dp = Depths(ts)
  OBVIOUS
<1>3. /\ \A k \in 1 .. n : ty[k] = ts[k].type
      /\ \A k \in 0 .. n : dp[k] = Depth(ts, k)
  BY <1>1, <1>2 DEF Types, Depths
<1>4. IsConfig(ts) <=> (n = 0 \/ Run(ty, dp, 1, n))
  <2>1. Profile(n, ty, dp)
    BY <1>1, <1>2, DepthProfile
  <2> QED
    BY <1>1, <1>2, <2>1, GrammarIsRun
<1>5. CASE n = 0
  <2>1. ts = <<>> /\ Good(ts) /\ Depth(ts, Len(ts)) = 0
    <3>1. ts = <<>> /\ Len(ts) = 0
      BY <1>1, <1>5, EmptySeq
    <3>2. Good(ts)
      BY <3>1 DEF Good
    <3>3. Depth(ts, Len(ts)) = 0
      BY <3>1, DepthStart
    <3> QED
      BY <3>1, <3>2, <3>3
  <2> QED
    BY <1>4, <1>5, <2>1 DEF LastType
<1>6. CASE n # 0
  <2>1. /\ 1 \in 1 .. n /\ n \in 1 .. n /\ n \in 0 .. n /\ 0 \in 0 .. n /\ ts # <<>>
        /\ dp[0] = 0 /\ 1 - 1 = 0
    BY <1>1, <1>3, <1>6, DepthStart
  <2>2. LastType(ts) = ty[n] /\ Depth(ts, Len(ts)) = dp[n]
    BY <1>1, <1>3, <2>1 DEF LastType
  <2>3. ASSUME Run(ty, dp, 1, n)
        PROVE  Good(ts) /\ ty[n] \in {"START", "STATEMENT_END", "END_BLOCK"} /\ dp[n] = 0
    <3>1. /\ ty[1] = "NORMAL" /\ ty[n] \in {"STATEMENT_END", "END_BLOCK"} /\ dp[n] = 0
          /\ \A k \in 1 + 1 .. n : Follows(ty[k - 1], ty[k])
          /\ \A k \in 1 .. n : dp[k] >= 0
      BY <2>1, <2>3 DEF Run
    <3>2. ASSUME NEW k \in 1 .. n
          PROVE  Follows(TypeBefore(ts, k), ts[k].type) /\ Depth(ts, k) >= 0
      <4>1. k \in 0 .. n /\ ts[k].type = ty[k]
        BY <1>3
      <4>2. CASE k = 1
        BY <1>3, <3>1, <4>1, <4>2 DEF Follows
      <4>3. CASE k # 1
        <5>1. k \in 1 + 1 .. n /\ k - 1 \in 1 .. n
          BY <4>3
        <5>2. TypeBefore(ts, k) = ty[k - 1]
          BY <1>3, <4>3, <5>1 DEF TypeBefore
        <5> QED
          BY <1>3, <3>1, <4>1, <5>1, <5>2
      <4> QED
        BY <4>2, <4>3
    <3> QED
      BY <1>1, <3>1, <3>2 DEF Good
  <2>4. ASSUME Good(ts), ty[n] \in {"START", "STATEMENT_END", "END_BLOCK"}, dp[n] = 0
        PROVE  Run(ty, dp, 1, n)
    <3>1. \A k \in 1 .. n : Follows(TypeBefore(ts, k), ty[k]) /\ dp[k] >= 0
      <4>1. \A k \in 1 .. n : k \in 0 .. n
        OBVIOUS
      <4> QED
        BY <1>1, <1>3, <2>4, <4>1 DEF Good
    <3>2. ty[1] = "NORMAL"
      BY <2>1, <3>1 DEF Follows, TypeBefore
    <3>3. ASSUME NEW k \in 1 + 1 .. n PROVE Follows(ty[k - 1], ty[k])
      <4>1. k \in 1 .. n /\ k - 1 \in 1 .. n /\ k # 1
        OBVIOUS
      <4>2. TypeBefore(ts, k) = ty[k - 1]
        BY <1>3, <4>1 DEF TypeBefore
      <4> QED
        BY <3>1, <4>1, <4>2
    <3>4. ty[n] # "START"
      BY <2>1, <3>1 DEF Follows
    <3> QED
      BY <2>1, <2>4, <3>1, <3>2, <3>3, <3>4 DEF Run
  <2> QED
    BY <1>4, <1>6, <2>2, <2>3, <2>4
<1> QED
  BY <1>5, <1>6

(* Of tokens that go on with v, those of u are as they were.               *)
Begins(u, v, w, n, j) ==
  /\ u \in Seq(Lexeme) /\ v \in Seq(Lexeme) /\ w = u \o v
  /\ n = Len(u) /\ j = n + 1

LEMMA BeginSame ==
  ASSUME NEW u, NEW v, NEW w, NEW n, NEW j, Begins(u, v, w, n, j)
  PROVE  /\ w \in Seq(Lexeme) /\ Len(w) = n + Len(v)
         /\ \A k \in 1 .. n : w[k] = u[k] /\ TypeBefore(w, k) = TypeBefore(u, k)
         /\ \A k \in 0 .. n : Depth(w, k) = Depth(u, k)
         /\ v # <<>> => TypeBefore(w, j) = LastType(u) /\ w[j] = v[1]
<1> USE DEF Begins
<1>1. n \in Nat /\ \E m \in Nat : m = Len(v)
  OBVIOUS
<1>7. PICK m \in Nat : m = Len(v)
  BY <1>1
<1>2. /\ w \in Seq(Lexeme) /\ Len(w) = n + m
      /\ \A i \in 1 .. n + m : w[i] = IF i <= n THEN u[i] ELSE v[i - n]
  BY <1>7, ConcatProperties
<1>3. \A k \in 1 .. n : w[k] = u[k]
  BY <1>1, <1>2
<1>4. ASSUME NEW k \in 1 .. n PROVE TypeBefore(w, k) = TypeBefore(u, k)
  <2>1. k # 1 => k - 1 \in 1 .. n
    BY <1>1
  <2> QED
    BY <1>3, <2>1 DEF TypeBefore
<1>5. ASSUME NEW k \in 0 .. n PROVE Depth(w, k) = Depth(u, k)
  <2>1. \A i \in 1 .. k : i \in 1 .. n
    BY <1>1
  <2>2. \A type : Of(w, k, type) = Of(u, k, type)
    BY <1>3, <2>1 DEF Of
  <2> QED
    BY <2>2 DEF Depth
<1>6. ASSUME v # <<>> PROVE TypeBefore(w, j) = LastType(u) /\ w[j] = v[1]
  <2>1. m > 0
    BY <1>6, <1>7
  <2>2. j \in 1 .. n + m /\ ~(j <= n) /\ j - n = 1
    BY <1>1, <2>1
  <2>3. w[j] = v[1]
    BY <1>2, <2>2
  <2>4. CASE u = <<>>
    <3>1. j = 1
      BY <1>1, <2>4
    <3> QED
      BY <2>3, <2>4, <3>1 DEF TypeBefore, LastType
  <2>5. CASE u # <<>>
    <3>1. n # 0
      BY <2>5, EmptySeq
    <3>2. n \in 1 .. n /\ j # 1 /\ j - 1 = n
      BY <1>1, <3>1
    <3>3. TypeBefore(w, j) = w[n].type
      BY <3>2 DEF TypeBefore
    <3>4. LastType(u) = u[n].type
      BY <2>5 DEF LastType
    <3> QED
      BY <1>3, <2>3, <3>2, <3>3, <3>4
  <2> QED
    BY <2>4, <2>5
<1> QED
  BY <1>2, <1>3, <1>4, <1>5, <1>6, <1>7

(* The next token x fits behind u.                                         *)
Fits(u, x) == Follows(LastType(u), x.type) /\ Depth(u, Len(u)) + Delta(x.type) >= 0

LEMMA GoodNext ==
  ASSUME NEW u \in Seq(Lexeme), NEW x \in Lexeme, NEW w, w = u \o <<x>>
  PROVE  /\ w \in Seq(Lexeme) /\ Len(w) = Len(u) + 1 /\ LastType(w) = x.type
         /\ Depth(w, Len(w)) = Depth(u, Len(u)) + Delta(x.type)
         /\ Good(u) /\ Fits(u, x) => Good(w)
<1>1. PICK n \in Nat : n = Len(u)
  OBVIOUS
<1>2. PICK v : v = <<x>>
  OBVIOUS
<1>3. v \in Seq(Lexeme) /\ Len(v) = 1 /\ v # <<>> /\ v[1] = x
  BY <1>2
<1>4. PICK m : m = n + 1
  OBVIOUS
<1>0. Begins(u, v, w, n, m)
  BY <1>1, <1>2, <1>3, <1>4 DEF Begins
<1>5. /\ w \in Seq(Lexeme) /\ Len(w) = m
      /\ \A k \in 1 .. n : w[k] = u[k] /\ TypeBefore(w, k) = TypeBefore(u, k)
      /\ \A k \in 0 .. n : Depth(w, k) = Depth(u, k)
      /\ TypeBefore(w, m) = LastType(u) /\ w[m] = x
  BY <1>0, <1>1, <1>3, <1>4, BeginSame
<1>6. m \in Nat /\ m > 0 /\ m - 1 = n /\ n \in 0 .. n
  BY <1>1, <1>4
<1>7. LastType(w) = x.type
  <2>1. w # <<>>
    BY <1>5, <1>6
  <2> QED
    BY <1>5, <2>1 DEF LastType
<1>8. Depth(w, m) = Depth(u, n) + Delta(x.type)
  <2>1. Depth(w, m) = Depth(w, m - 1) + Delta(x.type)
    <3>1. Depth(w, m) = Depth(w, m - 1) + Delta(w[m].type)
      BY <1>6, DepthStep
    <3> QED
      BY <1>5, <3>1
  <2> QED
    BY <1>5, <1>6, <2>1
<1>9. ASSUME Good(u), Fits(u, x) PROVE Good(w)
  <2>1. ASSUME NEW k \in 1 .. m
        PROVE  Follows(TypeBefore(w, k), w[k].type) /\ Depth(w, k) >= 0
    <3>1. CASE k = m
      BY <1>1, <1>5, <1>8, <1>9, <3>1 DEF Fits
    <3>2. CASE k # m
      <4>1. k \in 1 .. n /\ k \in 0 .. n
        BY <1>1, <1>4, <3>2
      <4> QED
        BY <1>1, <1>5, <1>9, <4>1 DEF Good
    <3> QED
      BY <3>1, <3>2
  <2> QED
    BY <1>5, <2>1 DEF Good
<1> QED
  BY <1>1, <1>4, <1>5, <1>7, <1>8, <1>9

(* Nothing behind it makes a configuration of tokens that do not fit.      *)
LEMMA BadStays ==
  ASSUME NEW u \in Seq(Lexeme), NEW x \in Lexeme, NEW v \in Seq(Lexeme), ~Fits(u, x)
  PROVE  ~IsConfig((u \o <<x>>) \o v)
<1>1. PICK y, w : y = u \o <<x>> /\ w = y \o v
  OBVIOUS
<1>2. PICK n \in Nat : n = Len(u)
  OBVIOUS
<1>3. PICK z : z = <<x>>
  OBVIOUS
<1>4. z \in Seq(Lexeme) /\ Len(z) = 1 /\ z # <<>> /\ z[1] = x
  BY <1>3
<1>5. PICK m : m = n + 1
  OBVIOUS
<1>6. y \in Seq(Lexeme) /\ Len(y) = m /\ TypeBefore(y, m) = LastType(u) /\ y[m] = x
  <2>1. Begins(u, z, y, n, m)
    BY <1>1, <1>2, <1>3, <1>4, <1>5 DEF Begins
  <2>2. y \in Seq(Lexeme) /\ Len(y) = n + Len(z)
    BY <2>1, BeginSame
  <2>3. TypeBefore(y, m) = LastType(u) /\ y[m] = z[1]
    BY <1>4, <2>1, BeginSame
  <2> QED
    BY <1>2, <1>4, <1>5, <2>2, <2>3
<1>7. Depth(y, m) = Depth(u, n) + Delta(x.type)
  BY <1>1, <1>2, <1>6, GoodNext
<1>8. m \in 1 .. m /\ m \in 0 .. m /\ m \in Nat
  BY <1>2, <1>5
<1>9. /\ w \in Seq(Lexeme) /\ Len(w) = m + Len(v) /\ w[m] = x
      /\ TypeBefore(w, m) = LastType(u) /\ Depth(w, m) = Depth(u, n) + Delta(x.type)
  <2>1. Begins(y, v, w, m, m + 1)
    BY <1>1, <1>6 DEF Begins
  <2>2. /\ w \in Seq(Lexeme) /\ Len(w) = m + Len(v)
        /\ \A k \in 1 .. m : w[k] = y[k] /\ TypeBefore(w, k) = TypeBefore(y, k)
        /\ \A k \in 0 .. m : Depth(w, k) = Depth(y, k)
    BY <2>1, BeginSame
  <2> QED
    BY <1>6, <1>7, <1>8, <2>2
<1>10. m \in 1 .. Len(w)
  <2>1. Len(v) \in Nat
    OBVIOUS
  <2> QED
    BY <1>8, <1>9, <2>1
<1>11. ~Good(w)
  BY <1>2, <1>9, <1>10 DEF Good, Fits
<1> QED
  BY <1>1, <1>9, <1>11, ConfigIsGood

-----------------------------------------------------------------------------
(* Parse has taken the tokens u.                                           *)

Parsed(u) ==
  /\ Good(u) /\ last_token_type = LastType(u)
  /\ num_start_block - num_end_block = Depth(u, Len(u))

(* The token that ParseToken has returned is the next one of the file.     *)
LEMMA TokenNext ==
  ASSUME TypeOK, NEW s, NEW u, Cut(text, s, u), Lexing(s), NEW x,
         \/ /\ token_type \in {"NORMAL", "STATEMENT_END", "START_BLOCK", "END_BLOCK"}
            /\ x = Token(token_type, value)
         \/ token_type = "ERROR" /\ x = Token("ERROR", <<>>)
  PROVE  /\ x \in Lexeme /\ u \in Seq(Lexeme) /\ x.type = token_type
         /\ Cut(text, After(text, s), u \o <<x>>)
         /\ \E v \in Seq(Lexeme) : Tokens(text) = (u \o <<x>>) \o v
<1>1. text \in Text /\ value \in Seq(Chars) /\ token_type \in TokenTypes /\ <<>> \in Seq(Chars)
      /\ "ERROR" \in TokenTypes
  BY DEF TypeOK, Text, TokenTypes
<1>2. x \in Lexeme /\ x.type = token_type
  <2>1. x \in Lexeme
    BY <1>1, TokenTyped
  <2> QED
    BY <2>1 DEF Token
<1>3. s \in 1 .. Len(text) /\ TokenAt(text, s) = <<x>>
  <2>1. CASE token_type = "ERROR"
    BY <2>1 DEF Lexing, AtError
  <2>2. CASE token_type \in {"NORMAL", "STATEMENT_END", "START_BLOCK", "END_BLOCK"}
    <3>1. Returned(s) /\ token_type # "COMMENT" /\ x = Token(token_type, value)
      BY <2>2 DEF Lexing
    <3> QED
      BY <3>1 DEF Returned
  <2> QED
    BY <2>1, <2>2
<1>4. s <= Len(text)
  BY <1>1, <1>3, TextFacts
<1>5. Cut(text, After(text, s), u \o <<x>>)
  BY <1>1, <1>3, <1>4, CutNext
<1>6. u \in Seq(Lexeme)
  BY <1>1, CutFacts
<1>7. \E v \in Seq(Lexeme) : Tokens(text) = (u \o <<x>>) \o v
  BY <1>1, <1>5, CutPrefix
<1> QED
  BY <1>2, <1>5, <1>6, <1>7

(* The next call of ParseToken begins behind the piece.                    *)
LEMMA LexNext ==
  ASSUME TypeOK, NEW s, NEW u, Cut(text, s, u), Lexing(s), NextToken,
         token_type \notin {"NONE", "EOF", "ERROR"}
  PROVE  /\ Lexing(After(text, s))' /\ text' = text
         /\ token_type = "COMMENT" => Cut(text, After(text, s), u)
<1>1. text \in Text /\ text' = text /\ input' = input /\ value' = <<>> /\ token_type' = "NONE"
      /\ state' = "INITIAL_WHITESPACE"
  BY DEF TypeOK, Text, NextToken
<1>2. Returned(s)
  BY DEF Lexing
<1>3. PICK a : a = After(text, s)
  OBVIOUS
<1>4. /\ s \in 1 .. Len(text) /\ a \in 1 .. Len(text) + 1 /\ input = Rest(text, a)
      /\ token_type = "COMMENT" => TokenAt(text, s) = <<>>
  BY <1>2, <1>3 DEF Returned
<1>5. Between(a)'
  BY <1>1, <1>4 DEF Between
<1>6. Lexing(a)'
  BY <1>1, <1>5 DEF Lexing
<1>7. ASSUME token_type = "COMMENT" PROVE Cut(text, a, u)
  <2>1. s <= Len(text)
    BY <1>1, <1>4, TextFacts
  <2>2. Cut(text, a, u \o <<>>)
    BY <1>1, <1>3, <1>4, <1>7, <2>1, CutNext
  <2>3. u \in Seq(Lexeme)
    BY <1>1, CutFacts
  <2> QED
    BY <2>2, <2>3, Joins
<1>8. After(text, s)' = a
  BY <1>1, <1>3
<1> QED
  BY <1>1, <1>3, <1>6, <1>7, <1>8

(* At the end of the file all the tokens were taken.                       *)
LEMMA TokensTaken ==
  ASSUME TypeOK, NEW s, NEW u, Cut(text, s, u), Lexing(s), token_type = "EOF"
  PROVE  Tokens(text) = u /\ u \in Seq(Lexeme)
<1>1. text \in Text /\ AtEOF(s)
  BY DEF TypeOK, Text, Lexing
<1>2. u \in Seq(Lexeme)
  BY <1>1, CutFacts
<1>3. CASE s > Len(text)
  BY <1>1, <1>2, <1>3, CutPrefix
<1>4. CASE s \in 1 .. Len(text) /\ TokenAt(text, s) = <<>> /\ After(text, s) > Len(text)
  <2>1. s <= Len(text)
    BY <1>1, <1>4, TextFacts
  <2>2. Cut(text, After(text, s), u \o <<>>)
    BY <1>1, <1>4, <2>1, CutNext
  <2>3. Tokens(text) = u \o <<>>
    BY <1>1, <1>4, <2>2, CutPrefix
  <2> QED
    BY <1>2, <2>3, Joins
<1> QED
  BY <1>1, <1>3, <1>4 DEF AtEOF

(* Parse takes a token when it fits and rejects it when it does not.       *)
LEMMA FitsIs ==
  ASSUME TypeOK, NEW u \in Seq(Lexeme), Parsed(u), NEW x, x.type = token_type
  PROVE  /\ token_type = "NORMAL" => Fits(u, x)
         /\ token_type \in {"STATEMENT_END", "START_BLOCK"} =>
              (Fits(u, x) <=> last_token_type = "NORMAL")
         /\ token_type = "END_BLOCK" => (Fits(u, x) <=> ~Misplaced)
         /\ token_type = "ERROR" => ~Fits(u, x)
<1>1. PICK d : d = Depth(u, Len(u))
  OBVIOUS
<1>2. num_start_block \in Nat /\ num_end_block \in Nat /\ d = num_start_block - num_end_block
  BY <1>1 DEF TypeOK, Parsed
<1>3. d >= 0
  <2>1. PICK n \in Nat : n = Len(u)
    OBVIOUS
  <2>2. CASE n = 0
    BY <1>1, <2>1, <2>2, DepthStart
  <2>3. CASE n # 0
    <3>1. n \in 1 .. n
      BY <2>3
    <3> QED
      BY <1>1, <2>1, <3>1 DEF Parsed, Good
  <2> QED
    BY <2>2, <2>3
<1>4. last_token_type = LastType(u)
  BY DEF Parsed
<1>5. Fits(u, x) <=> Follows(last_token_type, token_type) /\ d + Delta(token_type) >= 0
  BY <1>1, <1>4 DEF Fits
<1>6. CASE token_type = "NORMAL"
  BY <1>2, <1>3, <1>5, <1>6 DEF Follows, Delta
<1>7. CASE token_type \in {"STATEMENT_END", "START_BLOCK"}
  BY <1>2, <1>3, <1>5, <1>7 DEF Follows, Delta
<1>8. CASE token_type = "END_BLOCK"
  BY <1>2, <1>3, <1>5, <1>8 DEF Follows, Delta, Misplaced
<1>9. CASE token_type = "ERROR"
  BY <1>5, <1>9 DEF Follows
<1> QED
  BY <1>6, <1>7, <1>8, <1>9

LEMMA ParsedNext ==
  ASSUME TypeOK, NEW u \in Seq(Lexeme), NEW x \in Lexeme, Parsed(u), Fits(u, x),
         last_token_type' = x.type, NEW w, w = u \o <<x>>,
         num_start_block' = IF x.type = "START_BLOCK" THEN num_start_block + 1
                            ELSE num_start_block,
         num_end_block' = IF x.type = "END_BLOCK" THEN num_end_block + 1 ELSE num_end_block
  PROVE  Parsed(w)'
<1>1. /\ LastType(w) = x.type /\ Depth(w, Len(w)) = Depth(u, Len(u)) + Delta(x.type)
      /\ Good(w)
  BY GoodNext DEF Parsed
<1>2. num_start_block - num_end_block = Depth(u, Len(u))
      /\ num_start_block \in Nat /\ num_end_block \in Nat
  BY DEF Parsed, TypeOK
<1>3. num_start_block' - num_end_block' = Depth(u, Len(u)) + Delta(x.type)
  BY <1>2 DEF Delta
<1> QED
  BY <1>1, <1>3 DEF Parsed

(* The verdict at the end of the file.                                     *)
LEMMA Verdict ==
  ASSUME TypeOK, NEW u \in Seq(Lexeme), Parsed(u)
  PROVE  IsConfig(u) <=> ~Unfinished
<1>1. num_start_block \in Nat /\ num_end_block \in Nat
  BY DEF TypeOK
<1>2. /\ Good(u) /\ last_token_type = LastType(u)
      /\ num_start_block - num_end_block = Depth(u, Len(u))
  BY DEF Parsed
<1>3. (Depth(u, Len(u)) = 0) <=> (num_start_block = num_end_block)
  BY <1>1, <1>2
<1> QED
  BY <1>2, <1>3, ConfigIsGood DEF Unfinished

-----------------------------------------------------------------------------
(* What ToString writes                                                    *)

FlattenFn(seqs) ==
  CHOOSE flatten : flatten = [i \in 1 .. Len(seqs) |->
                                IF i = 1 THEN seqs[i] ELSE flatten[i - 1] \o seqs[i]]

LEMMA FlattenIs ==
  ASSUME NEW seqs
  PROVE  FlattenSeq(seqs) = IF Len(seqs) = 0 THEN seqs ELSE FlattenFn(seqs)[Len(seqs)]
BY DEF FlattenSeq, FlattenFn

(* g has what the first sequences make together.                           *)
Joining(seqs, n, g) ==
  /\ g \in [0 .. n -> Seq(Lexeme)] /\ g[0] = <<>>
  /\ \A k \in 1 .. n : g[k] = g[k - 1] \o seqs[k]

LEMMA JoiningExists ==
  ASSUME NEW seqs \in Seq(Seq(Lexeme)), NEW n, n = Len(seqs)
  PROVE  \E g : Joining(seqs, n, g)
<1>1. n \in Nat /\ \A k \in 1 .. n : seqs[k] \in Seq(Lexeme)
  OBVIOUS
<1>2. PICK D : D = Seq(Lexeme)
  OBVIOUS
<1>3. PICK F : F = [p \in (1 .. n) \X D |-> p[2] \o seqs[p[1]]]
  OBVIOUS
<1>4. ASSUME NEW k \in 1 .. n, NEW r \in D PROVE r \o seqs[k] \in D
  BY <1>1, <1>2, Joins
<1>5. F \in [(1 .. n) \X D -> D] /\ \A k \in 1 .. n : \A r \in D : F[<<k, r>>] = r \o seqs[k]
  BY <1>3, <1>4
<1>6. <<>> \in D
  BY <1>2
<1>7. PICK g : IsSolution(D, <<>>, n, F, g)
  BY <1>1, <1>5, <1>6, Recursion DEF IsRecursion
<1>8. g \in [0 .. n -> D] /\ g[0] = <<>> /\ \A k \in 1 .. n : g[k] = F[<<k, g[k - 1]>>]
  BY <1>7 DEF IsSolution
<1>9. ASSUME NEW k \in 1 .. n PROVE g[k] = g[k - 1] \o seqs[k]
  <2>1. k - 1 \in 0 .. n
    BY <1>1
  <2>2. g[k - 1] \in D
    BY <1>8, <2>1
  <2> QED
    BY <1>5, <1>8, <2>2
<1> QED
  BY <1>2, <1>8, <1>9 DEF Joining

LEMMA FlattenJoins ==
  ASSUME NEW seqs \in Seq(Seq(Lexeme)), NEW n, n = Len(seqs), NEW g, Joining(seqs, n, g)
  PROVE  FlattenSeq(seqs) = g[n] /\ FlattenSeq(seqs) \in Seq(Lexeme)
<1>1. n \in Nat /\ \A k \in 1 .. n : seqs[k] \in Seq(Lexeme)
  OBVIOUS
<1>2. /\ g \in [0 .. n -> Seq(Lexeme)] /\ g[0] = <<>>
      /\ \A k \in 1 .. n : g[k] = g[k - 1] \o seqs[k]
  BY DEF Joining
<1>3. g[n] \in Seq(Lexeme)
  BY <1>1, <1>2
<1>4. CASE n = 0
  <2>1. FlattenSeq(seqs) = seqs
    BY <1>4, FlattenIs
  <2>2. seqs = <<>>
    BY <1>4, EmptySeq
  <2> QED
    BY <1>2, <1>3, <1>4, <2>1, <2>2
<1>5. CASE n # 0
  <2> DEFINE Body(f) == [i \in 1 .. n |-> IF i = 1 THEN seqs[i] ELSE f[i - 1] \o seqs[i]]
  <2>1. PICK f : f = [k \in 1 .. n |-> g[k]]
    OBVIOUS
  <2>2. \A k \in 1 .. n : f[k] = g[k]
    BY <2>1
  <2>3. ASSUME NEW k \in 1 .. n PROVE f[k] = Body(f)[k]
    <3>1. CASE k = 1
      <4>1. g[1] = g[1 - 1] \o seqs[1]
        BY <1>2, <3>1
      <4>2. 1 - 1 = 0 /\ <<>> \o seqs[1] = seqs[1]
        BY <1>1, <3>1, ConcatEmptySeq
      <4>3. g[1] = seqs[1]
        BY <1>2, <4>1, <4>2
      <4> QED
        BY <2>2, <3>1, <4>3
    <3>2. CASE k # 1
      <4>1. k - 1 \in 1 .. n
        BY <1>1, <3>2
      <4>2. f[k - 1] = g[k - 1]
        BY <2>2, <4>1
      <4>3. f[k] = f[k - 1] \o seqs[k]
        BY <1>2, <2>2, <4>2
      <4> QED
        BY <3>2, <4>3
    <3> QED
      BY <3>1, <3>2
  <2>4. f = Body(f)
    BY <2>1, <2>3
  <2>5. FlattenFn(seqs) = Body(FlattenFn(seqs))
    <3>1. FlattenFn(seqs) = CHOOSE x : x = Body(x)
      BY DEF FlattenFn
    <3> HIDE DEF Body
    <3> QED
      BY <2>4, <3>1, Zenon
  <2>6. PICK h : h = FlattenFn(seqs) /\ h = Body(h)
    BY <2>5
  <2>7. \A k \in 1 .. n : h[k] = IF k = 1 THEN seqs[k] ELSE h[k - 1] \o seqs[k]
    BY <2>6
  <2>8. \A k \in 1 .. n : f[k] = IF k = 1 THEN seqs[k] ELSE f[k - 1] \o seqs[k]
    BY <2>4
  <2> HIDE DEF Body
  <2> DEFINE H == [k \in 0 .. n |-> IF k = 0 THEN <<>> ELSE h[k]]
             K == [k \in 0 .. n |-> IF k = 0 THEN <<>> ELSE f[k]]
  <2>9. StepTogether(n, H, K)
    <3>1. H[0] = K[0]
      BY <1>1
    <3>2. ASSUME NEW k \in 1 .. n, H[k - 1] = K[k - 1] PROVE H[k] = K[k]
      <4>1. k \in 0 .. n /\ k # 0 /\ k - 1 \in 0 .. n /\ H[k] = h[k] /\ K[k] = f[k]
        BY <1>1
      <4>2. CASE k = 1
        BY <2>7, <2>8, <4>1, <4>2
      <4>3. CASE k # 1
        <5>1. k - 1 # 0
          BY <4>1, <4>3
        <5>2. h[k - 1] = f[k - 1]
          BY <3>2, <4>1, <5>1
        <5>3. h[k] = h[k - 1] \o seqs[k] /\ f[k] = f[k - 1] \o seqs[k]
          BY <2>7, <2>8, <4>3
        <5> QED
          BY <4>1, <5>2, <5>3
      <4> QED
        BY <4>2, <4>3
    <3> HIDE DEF H, K
    <3> QED
      BY <3>1, <3>2 DEF StepTogether
  <2>10. H[n] = K[n]
    <3>1. n \in 0 .. n
      BY <1>1
    <3> HIDE DEF H, K
    <3> QED
      BY <1>1, <2>9, <3>1, SameRecursion
  <2>11. n \in 0 .. n /\ n \in 1 .. n
    BY <1>1, <1>5
  <2>12. h[n] = g[n]
    BY <1>5, <2>2, <2>10, <2>11
  <2>13. FlattenSeq(seqs) = h[n]
    BY <1>5, <2>6, FlattenIs
  <2> QED
    BY <1>3, <2>12, <2>13
<1> QED
  BY <1>4, <1>5

LEMMA FlattenAppend ==
  ASSUME NEW seqs \in Seq(Seq(Lexeme)), NEW x \in Seq(Lexeme)
  PROVE  /\ FlattenSeq(seqs) \in Seq(Lexeme)
         /\ FlattenSeq(Append(seqs, x)) = FlattenSeq(seqs) \o x
<1>1. PICK n \in Nat : n = Len(seqs)
  OBVIOUS
<1>2. PICK more : more = Append(seqs, x)
  OBVIOUS
<1>3. PICK m : m = n + 1
  OBVIOUS
<1>4. more \in Seq(Seq(Lexeme)) /\ Len(more) = m /\ more[m] = x /\ \A k \in 1 .. n : more[k] = seqs[k]
  BY <1>1, <1>2, <1>3, AppendProperties
<1>5. PICK g : Joining(seqs, n, g)
  BY <1>1, JoiningExists
<1>6. PICK h : Joining(more, m, h)
  BY <1>4, JoiningExists
<1>7. /\ g[0] = <<>> /\ \A k \in 1 .. n : g[k] = g[k - 1] \o seqs[k]
  BY <1>5 DEF Joining
<1>8. /\ h[0] = <<>> /\ \A k \in 1 .. m : h[k] = h[k - 1] \o more[k]
  BY <1>6 DEF Joining
<1>9. StepTogether(n, g, h)
  <2>1. \A k \in 1 .. n : k \in 1 .. m
    BY <1>1, <1>3
  <2>2. ASSUME NEW k \in 1 .. n, g[k - 1] = h[k - 1] PROVE g[k] = h[k]
    BY <1>4, <1>7, <1>8, <2>1, <2>2
  <2> QED
    BY <1>7, <1>8, <2>2 DEF StepTogether
<1>10. g[n] = h[n]
  BY <1>1, <1>9, SameRecursion
<1>11. m \in 1 .. m /\ m - 1 = n
  BY <1>1, <1>3
<1>12. h[m] = h[n] \o x
  BY <1>4, <1>8, <1>11
<1>13. FlattenSeq(seqs) = g[n] /\ FlattenSeq(seqs) \in Seq(Lexeme)
  BY <1>1, <1>5, FlattenJoins
<1>14. FlattenSeq(more) = h[m]
  BY <1>4, <1>6, FlattenJoins
<1> QED
  BY <1>2, <1>10, <1>12, <1>13, <1>14

Words(statement) == [k \in DOMAIN statement.tokens |-> Token("NORMAL", statement.tokens[k])]

SemicolonToken == Token("STATEMENT_END", <<";">>)
OpenToken == Token("START_BLOCK", <<"{">>)
CloseToken == Token("END_BLOCK", <<"}">>)

Written == [Nat -> Seq(Lexeme)]

LEMMA MarkTokens ==
  /\ <<SemicolonToken>> \in Seq(Lexeme) /\ <<OpenToken>> \in Seq(Lexeme)
  /\ <<CloseToken>> \in Seq(Lexeme)
<1>1. /\ "STATEMENT_END" \in TokenTypes /\ "START_BLOCK" \in TokenTypes
      /\ "END_BLOCK" \in TokenTypes
  BY DEF TokenTypes
<1>2. ";" \in Chars /\ "{" \in Chars /\ "}" \in Chars
  BY DEF Chars, Specials
<1>3. \A c \in Chars : <<c>> \in Seq(Chars)
  OBVIOUS
<1>4. <<";">> \in Seq(Chars) /\ <<"{">> \in Seq(Chars) /\ <<"}">> \in Seq(Chars)
  BY <1>2, <1>3
<1> QED
  BY <1>1, <1>4, TokenTyped DEF SemicolonToken, OpenToken, CloseToken

LEMMA StatementIs ==
  ASSUME NEW st, NEW W
  PROVE  /\ st.child = 0 => StatementToString(st, W) = Words(st) \o <<SemicolonToken>>
         /\ st.child # 0 => StatementToString(st, W) =
              Words(st) \o ((<<OpenToken>> \o W[st.child]) \o <<CloseToken>>)
<1>1. StatementToString(st, W) =
        Words(st) \o IF st.child = 0 THEN <<SemicolonToken>>
                     ELSE (<<OpenToken>> \o W[st.child]) \o <<CloseToken>>
  BY DEF StatementToString, Words, SemicolonToken, OpenToken, CloseToken
<1> QED
  BY <1>1

LEMMA WordsTyped ==
  ASSUME NEW st \in Statement
  PROVE  Words(st) \in Seq(Lexeme) /\ Len(Words(st)) = Len(st.tokens)
<1>1. st.tokens \in Seq(Seq(Chars))
  BY DEF Statement
<1>2. PICK n \in Nat : n = Len(st.tokens) /\ DOMAIN st.tokens = 1 .. n
  BY <1>1
<1>3. "NORMAL" \in TokenTypes
  BY DEF TokenTypes
<1>4. \A k \in 1 .. n : st.tokens[k] \in Seq(Chars)
  BY <1>1, <1>2
<1>5. \A k \in 1 .. n : Token("NORMAL", st.tokens[k]) \in Lexeme
  BY <1>3, <1>4, TokenTyped
<1>6. Words(st) = [k \in 1 .. n |-> Token("NORMAL", st.tokens[k])]
  BY <1>2 DEF Words
<1>7. Words(st) \in [1 .. n -> Lexeme]
  BY <1>5, <1>6
<1> QED
  BY <1>2, <1>7

LEMMA StatementTyped ==
  ASSUME NEW st \in Statement, NEW W \in Written
  PROVE  StatementToString(st, W) \in Seq(Lexeme)
<1>1. PICK ws : ws = Words(st)
  OBVIOUS
<1>2. ws \in Seq(Lexeme) /\ st.child \in Nat
  BY <1>1, WordsTyped DEF Statement
<1>3. W[st.child] \in Seq(Lexeme)
  BY <1>2 DEF Written
<1>4. CASE st.child = 0
  <2>1. ws \o <<SemicolonToken>> \in Seq(Lexeme)
    BY <1>2, MarkTokens, Joins
  <2> QED
    BY <1>1, <1>4, <2>1, StatementIs
<1>5. CASE st.child # 0
  <2>1. <<OpenToken>> \o W[st.child] \in Seq(Lexeme)
    BY <1>3, MarkTokens, Joins
  <2>2. (<<OpenToken>> \o W[st.child]) \o <<CloseToken>> \in Seq(Lexeme)
    BY <2>1, MarkTokens, Joins
  <2>3. ws \o ((<<OpenToken>> \o W[st.child]) \o <<CloseToken>>) \in Seq(Lexeme)
    BY <1>2, <2>2, Joins
  <2> QED
    BY <1>1, <1>5, <2>3, StatementIs
<1> QED
  BY <1>4, <1>5

(* A block with one more statement.                                        *)
LEMMA BlockAppend ==
  ASSUME NEW block \in Seq(Statement), NEW st \in Statement, NEW W \in Written
  PROVE  /\ BlockToString(block, W) \in Seq(Lexeme)
         /\ BlockToString(Append(block, st), W)
              = BlockToString(block, W) \o StatementToString(st, W)
<1>1. PICK n \in Nat : n = Len(block) /\ DOMAIN block = 1 .. n
  OBVIOUS
<1>2. PICK more : more = Append(block, st)
  OBVIOUS
<1>3. PICK m : m = n + 1
  OBVIOUS
<1>4. /\ more \in Seq(Statement) /\ Len(more) = m /\ DOMAIN more = 1 .. m
      /\ more[m] = st /\ \A k \in 1 .. n : more[k] = block[k]
  BY <1>1, <1>2, <1>3, AppendProperties
<1>5. PICK a : a = [i \in 1 .. n |-> StatementToString(block[i], W)]
  OBVIOUS
<1>6. PICK b : b = [i \in 1 .. m |-> StatementToString(more[i], W)]
  OBVIOUS
<1>7. PICK x : x = StatementToString(st, W)
  OBVIOUS
<1>8. x \in Seq(Lexeme)
  BY <1>7, StatementTyped
<1>9. a \in Seq(Seq(Lexeme)) /\ Len(a) = n
  <2>1. \A i \in 1 .. n : block[i] \in Statement
    BY <1>1
  <2>2. \A i \in 1 .. n : StatementToString(block[i], W) \in Seq(Lexeme)
    BY <2>1, StatementTyped
  <2>3. a \in [1 .. n -> Seq(Lexeme)]
    BY <1>5, <2>2
  <2> HIDE DEF Lexeme
  <2> QED
    BY <1>1, <2>3
<1>10. b \in Seq(Seq(Lexeme)) /\ Len(b) = m
  <2>1. \A i \in 1 .. m : more[i] \in Statement
    BY <1>4
  <2>2. \A i \in 1 .. m : StatementToString(more[i], W) \in Seq(Lexeme)
    BY <2>1, StatementTyped
  <2>3. b \in [1 .. m -> Seq(Lexeme)]
    BY <1>6, <2>2
  <2> QED
    BY <1>1, <1>3, <2>3
<1>11. b = Append(a, x)
  <2>1. PICK c : c = Append(a, x)
    OBVIOUS
  <2>2. c \in Seq(Seq(Lexeme)) /\ Len(c) = m /\ c[m] = x /\ \A k \in 1 .. n : c[k] = a[k]
    BY <1>3, <1>8, <1>9, <2>1, AppendProperties
  <2>3. ASSUME NEW k \in 1 .. m PROVE b[k] = c[k]
    <3>1. CASE k = m
      BY <1>4, <1>6, <1>7, <2>2, <3>1
    <3>2. CASE k # m
      <4>1. k \in 1 .. n
        BY <1>1, <1>3, <3>2
      <4> QED
        BY <1>4, <1>5, <1>6, <2>2, <4>1
    <3> QED
      BY <3>1, <3>2
  <2> QED
    BY <1>10, <2>1, <2>2, <2>3, SeqEqual
<1>12. BlockToString(block, W) = FlattenSeq(a)
  BY <1>1, <1>5 DEF BlockToString
<1>13. BlockToString(more, W) = FlattenSeq(b)
  BY <1>4, <1>6 DEF BlockToString
<1> QED
  BY <1>2, <1>7, <1>8, <1>9, <1>11, <1>12, <1>13, FlattenAppend

(* What it writes of a block depends on the blocks inside.                 *)
LEMMA BlockSame ==
  ASSUME NEW block, NEW W, NEW V,
         \A i \in DOMAIN block : block[i].child # 0 => W[block[i].child] = V[block[i].child]
  PROVE  BlockToString(block, W) = BlockToString(block, V)
<1>1. \A i \in DOMAIN block : StatementToString(block[i], W) = StatementToString(block[i], V)
  BY StatementIs
<1>2. [i \in DOMAIN block |-> StatementToString(block[i], W)]
        = [i \in DOMAIN block |-> StatementToString(block[i], V)]
  BY <1>1
<1> QED
  BY <1>2 DEF BlockToString

LEMMA BlockEmpty ==
  ASSUME NEW W
  PROVE  BlockToString(<<>>, W) = <<>>
<1>1. PICK a : a = [i \in DOMAIN <<>> |-> StatementToString(<<>>[i], W)]
  OBVIOUS
<1>2. a = <<>> /\ Len(a) = 0
  BY <1>1
<1>3. FlattenSeq(a) = a
  BY <1>2, FlattenIs
<1> QED
  BY <1>1, <1>2, <1>3 DEF BlockToString

-----------------------------------------------------------------------------
(* The statements and blocks that Parse has built hold the tokens u that   *)
(* it has taken.  W has what is written of the closed blocks, G[k] what    *)
(* comes before the k-th open one.                                         *)

(* A block whose last statement has only its words so far.                 *)
OpenText(W, block) == BlockToString(Front(block), W) \o Words(Last(block))

OpenedAfter(stack, h, W, G) ==
  /\ G \in [1 .. Len(stack) -> Seq(Lexeme)] /\ G[1] = <<>>
  /\ \A k \in 1 .. Len(stack) - 1 :
       G[k + 1] = (G[k] \o OpenText(W, h[stack[k]])) \o <<OpenToken>>

Settled(stack, h, W) ==
  \A b \in 1 .. Len(h) :
    (\A k \in 1 .. Len(stack) : stack[k] # b) => W[b] = BlockToString(h[b], W)

TopText(last, block, W) ==
  IF last = "NORMAL" THEN OpenText(W, block) ELSE BlockToString(block, W)

Holds(stack, h, last, u, W, G) ==
  /\ W \in Written /\ OpenedAfter(stack, h, W, G) /\ Settled(stack, h, W)
  /\ u = G[Len(stack)] \o TopText(last, h[stack[Len(stack)]], W)

Built(u) == \E W, G : Holds(config_stack, blocks, last_token_type, u, W, G)

(* A block and its last statement.                                         *)
LEMMA FrontLast ==
  ASSUME NEW block \in Seq(Statement), block # <<>>
  PROVE  /\ Front(block) \in Seq(Statement) /\ Last(block) \in Statement
         /\ block = Append(Front(block), Last(block))
         /\ Len(Front(block)) = Len(block) - 1
         /\ \A i \in 1 .. Len(block) - 1 : Front(block)[i] = block[i]
<1>1. PICK n \in Nat : n = Len(block) /\ n > 0
  BY EmptySeq
<1>2. PICK f : f = Front(block)
  OBVIOUS
<1>3. PICK x : x = Last(block)
  OBVIOUS
<1>4. PICK m \in Nat : m = n - 1
  BY <1>1
<1>5. f = SubSeq(block, 1, m) /\ x = block[n]
  BY <1>1, <1>2, <1>3, <1>4 DEF Front, Last
<1>6. f \in Seq(Statement) /\ Len(f) = m /\ \A i \in 1 .. m : f[i] = block[i]
  BY <1>1, <1>4, <1>5
<1>7. x \in Statement
  BY <1>1, <1>5
<1>8. PICK c : c = Append(f, x)
  OBVIOUS
<1>9. c \in Seq(Statement) /\ Len(c) = n /\ c[n] = x /\ \A i \in 1 .. m : c[i] = f[i]
  BY <1>4, <1>6, <1>7, <1>8, AppendProperties
<1>10. ASSUME NEW i \in 1 .. n PROVE block[i] = c[i]
  <2>1. CASE i = n
    BY <1>5, <1>9, <2>1
  <2>2. CASE i # n
    <3>1. i \in 1 .. m
      BY <1>4, <2>2
    <3> QED
      BY <1>6, <1>9, <3>1
  <2> QED
    BY <2>1, <2>2
<1>11. block = c
  BY <1>1, <1>9, <1>10, SeqEqual
<1> QED
  BY <1>1, <1>2, <1>3, <1>4, <1>6, <1>7, <1>8, <1>11

LEMMA FrontAppend ==
  ASSUME NEW f \in Seq(Statement), NEW x \in Statement
  PROVE  /\ Append(f, x) \in Seq(Statement) /\ Append(f, x) # <<>>
         /\ Front(Append(f, x)) = f /\ Last(Append(f, x)) = x
<1>1. PICK n \in Nat : n = Len(f)
  OBVIOUS
<1>2. PICK m : m = n + 1
  OBVIOUS
<1>3. PICK c : c = Append(f, x)
  OBVIOUS
<1>4. c \in Seq(Statement) /\ Len(c) = m /\ c[m] = x /\ \A i \in 1 .. n : c[i] = f[i]
  BY <1>1, <1>2, <1>3, AppendProperties
<1>5. m - 1 = n /\ m > 0
  BY <1>2
<1>6. c # <<>>
  BY <1>4, <1>5
<1>7. /\ Front(c) \in Seq(Statement) /\ Len(Front(c)) = n
      /\ \A i \in 1 .. n : Front(c)[i] = c[i]
  BY <1>4, <1>5, <1>6, FrontLast
<1>8. Front(c) = f
  BY <1>1, <1>4, <1>7, SeqEqual
<1>9. Last(c) = x
  BY <1>4 DEF Last
<1> QED
  BY <1>3, <1>4, <1>6, <1>8, <1>9

LEMMA OpenTextTyped ==
  ASSUME NEW block \in Seq(Statement), block # <<>>, NEW W \in Written
  PROVE  /\ OpenText(W, block) \in Seq(Lexeme)
         /\ BlockToString(Front(block), W) \in Seq(Lexeme)
         /\ Words(Last(block)) \in Seq(Lexeme)
<1>1. PICK f, x : f = Front(block) /\ x = Last(block)
  OBVIOUS
<1>2. f \in Seq(Statement) /\ x \in Statement
  BY <1>1, FrontLast
<1>3. BlockToString(f, W) \in Seq(Lexeme)
  BY <1>2, BlockAppend
<1>4. Words(x) \in Seq(Lexeme)
  BY <1>2, WordsTyped
<1> QED
  BY <1>1, <1>3, <1>4, Joins DEF OpenText


LEMMA WordsOne ==
  ASSUME NEW v \in Seq(Chars), NEW st, st = [tokens |-> <<v>>, child |-> 0]
  PROVE  st \in Statement /\ st.child = 0 /\ Words(st) = <<Token("NORMAL", v)>>
<1>1. st.tokens = <<v>> /\ st.child = 0
  OBVIOUS
<1>2. <<v>> \in Seq(Seq(Chars)) /\ DOMAIN <<v>> = {1} /\ <<v>>[1] = v
  OBVIOUS
<1>3. st \in Statement
  BY <1>2 DEF Statement
<1>4. PICK x : x = Token("NORMAL", v)
  OBVIOUS
<1>5. Words(st) = [k \in {1} |-> x]
  <2>1. Words(st) = [k \in {1} |-> Token("NORMAL", <<v>>[k])]
    BY <1>1, <1>2 DEF Words
  <2>2. \A k \in {1} : Token("NORMAL", <<v>>[k]) = x
    BY <1>2, <1>4
  <2> QED
    BY <2>1, <2>2
<1>6. <<x>> = [k \in {1} |-> x]
  OBVIOUS
<1> QED
  BY <1>1, <1>3, <1>4, <1>5, <1>6

LEMMA WordsMore ==
  ASSUME NEW st \in Statement, NEW v \in Seq(Chars), NEW more \in Statement,
         more.tokens = Append(st.tokens, v)
  PROVE  Words(more) = Words(st) \o <<Token("NORMAL", v)>>
<1>1. st.tokens \in Seq(Seq(Chars)) /\ more.tokens \in Seq(Seq(Chars))
  BY DEF Statement
<1>2. PICK n \in Nat : n = Len(st.tokens) /\ DOMAIN st.tokens = 1 .. n
  BY <1>1
<1>3. PICK m : m = n + 1
  OBVIOUS
<1>4. /\ Len(more.tokens) = m /\ DOMAIN more.tokens = 1 .. m /\ more.tokens[m] = v
      /\ \A k \in 1 .. n : more.tokens[k] = st.tokens[k]
  BY <1>1, <1>2, <1>3, AppendProperties
<1>5. PICK x : x = Token("NORMAL", v)
  OBVIOUS
<1>6. x \in Lexeme
  <2>1. "NORMAL" \in TokenTypes
    BY DEF TokenTypes
  <2> QED
    BY <1>5, <2>1, TokenTyped
<1>7. PICK a, b : a = Words(st) /\ b = Words(more)
  OBVIOUS
<1>8. a \in Seq(Lexeme) /\ Len(a) = n /\ b \in Seq(Lexeme) /\ Len(b) = m
  BY <1>2, <1>4, <1>7, WordsTyped
<1>9. \A k \in 1 .. n : a[k] = Token("NORMAL", st.tokens[k])
  BY <1>2, <1>7 DEF Words
<1>10. \A k \in 1 .. m : b[k] = Token("NORMAL", more.tokens[k])
  BY <1>4, <1>7 DEF Words
<1>11. PICK c : c = Append(a, x)
  OBVIOUS
<1>12. c \in Seq(Lexeme) /\ Len(c) = m /\ c[m] = x /\ \A k \in 1 .. n : c[k] = a[k]
  BY <1>3, <1>6, <1>8, <1>11, AppendProperties
<1>13. ASSUME NEW k \in 1 .. m PROVE b[k] = c[k]
  <2>1. CASE k = m
    BY <1>4, <1>5, <1>10, <1>12, <2>1
  <2>2. CASE k # m
    <3>1. k \in 1 .. n
      BY <1>2, <1>3, <2>2
    <3> QED
      BY <1>4, <1>9, <1>10, <1>12, <3>1
  <2> QED
    BY <2>1, <2>2
<1>14. b = c
  BY <1>8, <1>12, <1>13, SeqEqual
<1>15. c = a \o <<x>>
  BY <1>6, <1>8, <1>11, AppendIsConcat
<1> QED
  BY <1>5, <1>7, <1>14, <1>15

(* A stack of open blocks of h, each made after the one below it.          *)
Opened(stack, h) ==
  /\ h \in Heap /\ stack \in Seq(Nat) /\ Len(stack) > 0
  /\ \A k \in 1 .. Len(stack) : stack[k] \in 1 .. Len(h)
  /\ \A j, k \in 1 .. Len(stack) : j < k => stack[j] < stack[k]
  /\ \A k \in 1 .. Len(stack) - 1 : h[stack[k]] # <<>>

LEMMA InvOpened ==
  ASSUME Inv
  PROVE  Opened(config_stack, blocks) /\ Top = config_stack[Len(config_stack)]
<1>1. blocks \in Heap /\ config_stack \in Seq(Nat)
  BY DEF Inv, TypeOK, Heap
<1>2. Len(config_stack) > 0
  BY TopBlock
<1>3. \A k \in 1 .. Len(config_stack) - 1 : blocks[config_stack[k]] # <<>>
  BY DEF Inv, StackSafe
<1> QED
  BY <1>1, <1>2, <1>3 DEF Inv, StackOrdered, Opened, Top

LEMMA OpenedFacts ==
  ASSUME NEW stack, NEW h, Opened(stack, h), NEW n, n = Len(stack)
  PROVE  /\ n \in Nat /\ n > 0 /\ stack[n] \in 1 .. Len(h) /\ Len(h) \in Nat
         /\ \A k \in 1 .. n - 1 : stack[k] \in 1 .. Len(h) /\ stack[k] # stack[n]
         /\ \A b \in 1 .. Len(h) : h[b] \in Seq(Statement)
<1>1. n \in Nat /\ n > 0 /\ n \in 1 .. n /\ Len(h) \in Nat
  BY DEF Opened, Heap
<1>2. stack[n] \in 1 .. Len(h)
  BY <1>1 DEF Opened
<1>3. \A b \in 1 .. Len(h) : h[b] \in Seq(Statement)
  BY DEF Opened, Heap
<1>4. ASSUME NEW k \in 1 .. n - 1 PROVE stack[k] \in 1 .. Len(h) /\ stack[k] # stack[n]
  <2>1. k \in 1 .. n /\ k < n
    BY <1>1
  <2>2. stack[k] < stack[n] /\ stack[k] \in 1 .. Len(h)
    BY <1>1, <2>1 DEF Opened
  <2> QED
    BY <1>1, <1>2, <2>2
<1> QED
  BY <1>1, <1>2, <1>3, <1>4

(* What a change of the top block leaves.                                  *)
LEMMA TopOnly ==
  ASSUME NEW stack, NEW h, Opened(stack, h), NEW g, Len(g) = Len(h),
         \A b \in 1 .. Len(h) : b # stack[Len(stack)] => g[b] = h[b],
         NEW W, NEW G, OpenedAfter(stack, h, W, G), Settled(stack, h, W)
  PROVE  OpenedAfter(stack, g, W, G) /\ Settled(stack, g, W)
<1>1. PICK n : n = Len(stack)
  OBVIOUS
<1>2. /\ n \in Nat /\ n > 0 /\ stack[n] \in 1 .. Len(h) /\ Len(h) \in Nat
      /\ \A k \in 1 .. n - 1 : stack[k] \in 1 .. Len(h) /\ stack[k] # stack[n]
  BY <1>1, OpenedFacts
<1>3. \A k \in 1 .. n - 1 : g[stack[k]] = h[stack[k]]
  BY <1>1, <1>2
<1>4. OpenedAfter(stack, g, W, G)
  BY <1>1, <1>3 DEF OpenedAfter
<1>5. n \in 1 .. n
  BY <1>2
<1>6. Settled(stack, g, W)
  BY <1>1, <1>5 DEF Settled
<1> QED
  BY <1>4, <1>6


Associates(u, v, w) == (u \o v) \o w = u \o (v \o w)

LEMMA JoinsAssociate ==
  ASSUME NEW u \in Seq(Lexeme), NEW v \in Seq(Lexeme), NEW w \in Seq(Lexeme)
  PROVE  Associates(u, v, w)
  BY Joins DEF Associates

(* The block on top gets one more token x.                                 *)
Gains(top, h, g, last, now, x, W) ==
  /\ Len(g) = Len(h) /\ \A b \in 1 .. Len(h) : b # top => g[b] = h[b]
  /\ TopText(last, h[top], W) \in Seq(Lexeme)
  /\ TopText(now, g[top], W) = TopText(last, h[top], W) \o <<x>>

LEMMA TopTaken ==
  ASSUME NEW stack, NEW h, Opened(stack, h), NEW g, NEW W, NEW G, NEW last, NEW u,
         Holds(stack, h, last, u, W, G), NEW x \in Lexeme, NEW now,
         Gains(stack[Len(stack)], h, g, last, now, x, W)
  PROVE  Holds(stack, g, now, u \o <<x>>, W, G)
<1>1. PICK n : n = Len(stack)
  OBVIOUS
<1>0. /\ Len(g) = Len(h) /\ \A b \in 1 .. Len(h) : b # stack[Len(stack)] => g[b] = h[b]
      /\ TopText(last, h[stack[n]], W) \in Seq(Lexeme)
      /\ TopText(now, g[stack[n]], W) = TopText(last, h[stack[n]], W) \o <<x>>
  BY <1>1 DEF Gains
<1>2. /\ W \in Written /\ OpenedAfter(stack, h, W, G) /\ Settled(stack, h, W)
      /\ u = G[n] \o TopText(last, h[stack[n]], W)
  BY <1>1 DEF Holds
<1>3. OpenedAfter(stack, g, W, G) /\ Settled(stack, g, W)
  BY <1>0, <1>2, TopOnly
<1>4. n \in 1 .. n
  BY <1>1, OpenedFacts
<1>5. G[n] \in Seq(Lexeme)
  BY <1>1, <1>2, <1>4 DEF OpenedAfter
<1>6. PICK a, b, y : a = G[n] /\ b = TopText(last, h[stack[n]], W) /\ y = <<x>>
  OBVIOUS
<1>7. a \in Seq(Lexeme) /\ b \in Seq(Lexeme) /\ y \in Seq(Lexeme)
  BY <1>0, <1>5, <1>6
<1>8. (a \o b) \o y = a \o (b \o y)
  <2>1. Associates(a, b, y)
    BY <1>7, JoinsAssociate
  <2> QED
    BY <2>1 DEF Associates
<1>9. u \o <<x>> = G[n] \o TopText(now, g[stack[n]], W)
  BY <1>0, <1>2, <1>6, <1>8
<1> QED
  BY <1>1, <1>2, <1>3, <1>9 DEF Holds

(* A word that begins a statement.                                         *)
LEMMA WordBegins ==
  ASSUME NEW stack, NEW h, Opened(stack, h), NEW g, Len(g) = Len(h),
         NEW top, top = stack[Len(stack)],
         \A b \in 1 .. Len(h) : b # top => g[b] = h[b],
         NEW W, NEW G, NEW last, NEW u, Holds(stack, h, last, u, W, G), last # "NORMAL",
         NEW v \in Seq(Chars), g[top] = Append(h[top], [tokens |-> <<v>>, child |-> 0])
  PROVE  Holds(stack, g, "NORMAL", u \o <<Token("NORMAL", v)>>, W, G)
<1>1. h[top] \in Seq(Statement) /\ W \in Written
  BY OpenedFacts DEF Holds
<1>2. PICK st : st = [tokens |-> <<v>>, child |-> 0]
  OBVIOUS
<1>3. PICK x : x = Token("NORMAL", v)
  OBVIOUS
<1>4. st \in Statement /\ Words(st) = <<x>>
  BY <1>2, <1>3, WordsOne
<1>5. x \in Lexeme
  <2>1. "NORMAL" \in TokenTypes
    BY DEF TokenTypes
  <2> QED
    BY <1>3, <2>1, TokenTyped
<1>6. g[top] = Append(h[top], st)
  BY <1>2
<1>7. Front(g[top]) = h[top] /\ Last(g[top]) = st
  BY <1>1, <1>4, <1>6, FrontAppend
<1>8. TopText("NORMAL", g[top], W) = BlockToString(h[top], W) \o <<x>>
  BY <1>4, <1>7 DEF TopText, OpenText
<1>9. TopText(last, h[top], W) = BlockToString(h[top], W)
  BY DEF TopText
<1>10. BlockToString(h[top], W) \in Seq(Lexeme)
  BY <1>1, <1>4, BlockAppend
<1> QED
  <2>1. Gains(top, h, g, last, "NORMAL", x, W)
    BY <1>8, <1>9, <1>10 DEF Gains
  <2> QED
    BY <1>3, <1>5, <2>1, TopTaken

(* One more word.                                                          *)
GetsWord(top, h, g, v) ==
  /\ Len(g) = Len(h) /\ \A b \in 1 .. Len(h) : b # top => g[b] = h[b]
  /\ h[top] # <<>> /\ g[top] \in Seq(Statement) /\ g[top] # <<>>
  /\ Front(g[top]) = Front(h[top])
  /\ Last(g[top]).tokens = Append(Last(h[top]).tokens, v)

LEMMA WordFollows ==
  ASSUME NEW stack, NEW h, Opened(stack, h), NEW g, NEW top, top = stack[Len(stack)],
         NEW W, NEW G, NEW u, Holds(stack, h, "NORMAL", u, W, G),
         NEW v \in Seq(Chars), GetsWord(top, h, g, v)
  PROVE  Holds(stack, g, "NORMAL", u \o <<Token("NORMAL", v)>>, W, G)
<1>0. /\ Len(g) = Len(h) /\ \A b \in 1 .. Len(h) : b # top => g[b] = h[b]
      /\ h[top] # <<>> /\ g[top] \in Seq(Statement) /\ g[top] # <<>>
      /\ Front(g[top]) = Front(h[top])
      /\ Last(g[top]).tokens = Append(Last(h[top]).tokens, v)
  BY DEF GetsWord
<1>1. h[top] \in Seq(Statement) /\ W \in Written
  BY OpenedFacts DEF Holds
<1>2. PICK a, b : a = Last(h[top]) /\ b = Last(g[top])
  OBVIOUS
<1>3. PICK x, y : x = Token("NORMAL", v) /\ y = <<x>>
  OBVIOUS
<1>4. a \in Statement /\ b \in Statement
  BY <1>0, <1>1, <1>2, FrontLast
<1>5. Words(b) = Words(a) \o y
  BY <1>0, <1>2, <1>3, <1>4, WordsMore
<1>6. x \in Lexeme /\ y \in Seq(Lexeme)
  <2>1. "NORMAL" \in TokenTypes
    BY DEF TokenTypes
  <2> QED
    BY <1>3, <2>1, TokenTyped
<1>7. PICK f : f = BlockToString(Front(h[top]), W)
  OBVIOUS
<1>8. f \in Seq(Lexeme) /\ Words(a) \in Seq(Lexeme) /\ OpenText(W, h[top]) \in Seq(Lexeme)
  BY <1>0, <1>1, <1>2, <1>7, OpenTextTyped
<1>9. (f \o Words(a)) \o y = f \o (Words(a) \o y)
  <2>1. Associates(f, Words(a), y)
    BY <1>6, <1>8, JoinsAssociate
  <2> QED
    BY <2>1 DEF Associates
<1>10. OpenText(W, h[top]) = f \o Words(a) /\ OpenText(W, g[top]) = f \o Words(b)
  BY <1>0, <1>2, <1>7 DEF OpenText
<1>11. /\ TopText("NORMAL", h[top], W) = OpenText(W, h[top])
       /\ TopText("NORMAL", g[top], W) = OpenText(W, g[top])
  BY DEF TopText
<1>12. TopText("NORMAL", g[top], W) = TopText("NORMAL", h[top], W) \o <<x>>
  BY <1>3, <1>5, <1>9, <1>10, <1>11
<1> QED
  <2>1. Gains(top, h, g, "NORMAL", "NORMAL", x, W)
    BY <1>0, <1>8, <1>11, <1>12 DEF Gains
  <2> QED
    BY <1>3, <1>6, <2>1, TopTaken

(* The end of a statement without a block.                                 *)
LEMMA StatementEnds ==
  ASSUME NEW stack, NEW h, Opened(stack, h), NEW top, top = stack[Len(stack)],
         NEW W, NEW G, NEW u, Holds(stack, h, "NORMAL", u, W, G),
         h[top] # <<>>, Last(h[top]).child = 0
  PROVE  Holds(stack, h, "STATEMENT_END", u \o <<SemicolonToken>>, W, G)
<1>1. h[top] \in Seq(Statement) /\ W \in Written
  BY OpenedFacts DEF Holds
<1>2. PICK f, a : f = Front(h[top]) /\ a = Last(h[top])
  OBVIOUS
<1>3. f \in Seq(Statement) /\ a \in Statement /\ h[top] = Append(f, a)
  BY <1>1, <1>2, FrontLast
<1>4. BlockToString(h[top], W) = BlockToString(f, W) \o StatementToString(a, W)
  BY <1>1, <1>3, BlockAppend
<1>5. StatementToString(a, W) = Words(a) \o <<SemicolonToken>>
  BY <1>2, StatementIs
<1>6. PICK y : y = <<SemicolonToken>>
  OBVIOUS
<1>7. y \in Seq(Lexeme) /\ SemicolonToken \in Lexeme
  <2>1. y \in Seq(Lexeme) /\ Len(y) = 1 /\ y[1] = SemicolonToken
    BY <1>6, MarkTokens
  <2> QED
    BY <2>1
<1>8. /\ BlockToString(f, W) \in Seq(Lexeme) /\ Words(a) \in Seq(Lexeme)
      /\ OpenText(W, h[top]) \in Seq(Lexeme)
      /\ OpenText(W, h[top]) = BlockToString(f, W) \o Words(a)
  BY <1>1, <1>2, OpenTextTyped DEF OpenText
<1>9. (BlockToString(f, W) \o Words(a)) \o y = BlockToString(f, W) \o (Words(a) \o y)
  <2>1. Associates(BlockToString(f, W), Words(a), y)
    BY <1>7, <1>8, JoinsAssociate
  <2> QED
    BY <2>1 DEF Associates
<1>10. TopText("NORMAL", h[top], W) = OpenText(W, h[top])
  BY DEF TopText
<1>11. TopText("STATEMENT_END", h[top], W) = BlockToString(h[top], W)
  BY DEF TopText
<1>12. TopText("STATEMENT_END", h[top], W) = TopText("NORMAL", h[top], W) \o <<SemicolonToken>>
  BY <1>4, <1>5, <1>6, <1>8, <1>9, <1>10, <1>11
<1> QED
  <2>1. Gains(top, h, h, "NORMAL", "STATEMENT_END", SemicolonToken, W)
    BY <1>8, <1>10, <1>12 DEF Gains
  <2> QED
    BY <1>7, <2>1, TopTaken


(* A block opens: what was written is what comes before it.                *)
OpensBlock(stack, h, next, g, new, top) ==
  /\ top = stack[Len(stack)] /\ new = Len(h) + 1 /\ next = Append(stack, new)
  /\ Len(g) = new /\ g[new] = <<>>
  /\ \A b \in 1 .. Len(h) : b # top => g[b] = h[b]
  /\ h[top] # <<>> /\ Front(g[top]) = Front(h[top])
  /\ Last(g[top]).tokens = Last(h[top]).tokens

LEMMA BlockOpens ==
  ASSUME NEW stack, NEW h, Opened(stack, h),
         NEW W, NEW G, NEW u, Holds(stack, h, "NORMAL", u, W, G),
         NEW next, NEW g, NEW new, NEW top, OpensBlock(stack, h, next, g, new, top)
  PROVE  \E F : Holds(next, g, "START_BLOCK", u \o <<OpenToken>>, W, F)
<1>0. /\ top = stack[Len(stack)] /\ new = Len(h) + 1 /\ next = Append(stack, new)
      /\ Len(g) = new /\ g[new] = <<>>
      /\ \A b \in 1 .. Len(h) : b # top => g[b] = h[b]
      /\ h[top] # <<>> /\ Front(g[top]) = Front(h[top])
      /\ Last(g[top]).tokens = Last(h[top]).tokens
  BY DEF OpensBlock
<1>1. PICK n : n = Len(stack)
  OBVIOUS
<1>2. /\ n \in Nat /\ n > 0 /\ stack[n] \in 1 .. Len(h) /\ Len(h) \in Nat
      /\ \A k \in 1 .. n - 1 : stack[k] \in 1 .. Len(h) /\ stack[k] # stack[n]
      /\ h[top] \in Seq(Statement)
  BY <1>0, <1>1, OpenedFacts
<1>3. PICK m \in Nat : m = n + 1
  BY <1>2
<1>4. /\ next \in Seq(Nat) /\ Len(next) = m /\ next[m] = new
      /\ \A k \in 1 .. n : next[k] = stack[k]
  <2>1. stack \in Seq(Nat) /\ new \in Nat
    BY <1>0, <1>2 DEF Opened
  <2> QED
    BY <1>0, <1>1, <1>3, <2>1, AppendProperties
<1>5. PICK y : y = <<OpenToken>>
  OBVIOUS
<1>6. PICK o : o = OpenText(W, h[top])
  OBVIOUS
<1>7. /\ W \in Written /\ OpenedAfter(stack, h, W, G) /\ Settled(stack, h, W) /\ u = G[n] \o o
  BY <1>0, <1>1, <1>6 DEF Holds, TopText
<1>8. n \in 1 .. n /\ m - 1 = n /\ n \in 1 .. m /\ 1 \in 1 .. n /\ m \in 1 .. m /\ 1 \in 1 .. m
      /\ m # 1
  BY <1>2, <1>3
<1>9. /\ G \in [1 .. n -> Seq(Lexeme)] /\ G[1] = <<>>
      /\ \A k \in 1 .. n - 1 : G[k + 1] = (G[k] \o OpenText(W, h[stack[k]])) \o y
  BY <1>1, <1>5, <1>7 DEF OpenedAfter
<1>10. o \in Seq(Lexeme) /\ y \in Seq(Lexeme)
  BY <1>0, <1>2, <1>5, <1>6, <1>7, OpenTextTyped, MarkTokens
<1>11. u \in Seq(Lexeme)
  BY <1>7, <1>8, <1>9, <1>10, Joins
<1>12. PICK z : z = u \o y
  OBVIOUS
<1>13. z \in Seq(Lexeme)
  BY <1>10, <1>11, <1>12, Joins
<1>14. OpenText(W, g[top]) = o
  BY <1>0, <1>6 DEF OpenText, Words
<1>15. PICK F : F = [k \in 1 .. m |-> IF k = m THEN z ELSE G[k]]
  OBVIOUS
<1>16. /\ F \in [1 .. m -> Seq(Lexeme)] /\ F[m] = z
       /\ \A k \in 1 .. n : F[k] = G[k]
  <2>1. \A k \in 1 .. m : k # m => k \in 1 .. n
    BY <1>3, <1>2
  <2>2. \A k \in 1 .. n : k \in 1 .. m /\ k # m
    BY <1>3, <1>2
  <2>3. \A k \in 1 .. n : G[k] \in Seq(Lexeme)
    BY <1>9
  <2> QED
    BY <1>8, <1>13, <1>15, <2>1, <2>2, <2>3
<1>17. ASSUME NEW k \in 1 .. m - 1
       PROVE  F[k + 1] = (F[k] \o OpenText(W, g[next[k]])) \o y
  <2>1. k \in 1 .. n
    BY <1>8
  <2>2. CASE k = n
    <3>1. k + 1 = m /\ next[k] = top
      BY <1>0, <1>1, <1>3, <1>4, <2>1, <2>2
    <3>2. F[k] = G[n] /\ F[k + 1] = z
      BY <1>16, <2>1, <2>2, <3>1
    <3> QED
      BY <1>7, <1>12, <1>14, <3>1, <3>2
  <2>3. CASE k # n
    <3>1. k \in 1 .. n - 1 /\ k + 1 \in 1 .. n
      BY <1>2, <2>1, <2>3
    <3>2. next[k] = stack[k] /\ g[stack[k]] = h[stack[k]]
      BY <1>0, <1>1, <1>2, <1>4, <2>1, <3>1
    <3>3. F[k] = G[k] /\ F[k + 1] = G[k + 1]
      BY <1>16, <2>1, <3>1
    <3> QED
      BY <1>9, <3>1, <3>2, <3>3
  <2> QED
    BY <2>2, <2>3
<1>18. OpenedAfter(next, g, W, F)
  <2>1. F[1] = <<>>
    BY <1>8, <1>9, <1>16
  <2> QED
    BY <1>4, <1>5, <1>16, <1>17, <2>1 DEF OpenedAfter
<1>19. Settled(next, g, W)
  <2>1. SUFFICES ASSUME NEW b \in 1 .. Len(g), \A k \in 1 .. Len(next) : next[k] # b
                 PROVE  W[b] = BlockToString(g[b], W)
    BY DEF Settled
  <2>2. \A k \in 1 .. n : k \in 1 .. m
    BY <1>2, <1>3
  <2>3. \A k \in 1 .. n : stack[k] # b
    BY <1>4, <2>1, <2>2
  <2>4. b # new /\ b # top
    BY <1>0, <1>1, <1>4, <1>8, <2>1, <2>3
  <2>5. b \in 1 .. Len(h)
    BY <1>0, <1>2, <2>4
  <2>6. W[b] = BlockToString(h[b], W)
    BY <1>0, <1>1, <1>7, <2>3, <2>5 DEF Settled
  <2> QED
    BY <1>0, <2>4, <2>5, <2>6
<1>20. z = F[m] \o TopText("START_BLOCK", g[next[m]], W)
  <2>1. TopText("START_BLOCK", g[next[m]], W) = <<>>
    BY <1>0, <1>4, BlockEmpty DEF TopText
  <2> QED
    BY <1>13, <1>16, <2>1, Joins
<1> QED
  BY <1>4, <1>5, <1>7, <1>12, <1>18, <1>19, <1>20 DEF Holds


(* A block lies in one statement.                                          *)
EndsIn(h, p, c) ==
  /\ h \in Heap /\ IsTree(h) /\ p \in 1 .. Len(h) /\ h[p] # <<>>
  /\ c \in 1 .. Len(h) /\ Last(h[p]).child = c

LEMMA OneParent ==
  ASSUME NEW h, NEW p, NEW c, EndsIn(h, p, c),
         NEW b \in 1 .. Len(h), NEW i \in 1 .. Len(h[b]), h[b][i].child = c
  PROVE  b = p /\ i = Len(h[p])
<1>0. /\ h \in Heap /\ IsTree(h) /\ p \in 1 .. Len(h) /\ h[p] # <<>>
      /\ c \in 1 .. Len(h) /\ Last(h[p]).child = c
  BY DEF EndsIn
<1>1. /\ DOMAIN h = 1 .. Len(h) /\ Len(h) \in Nat /\ h[p] \in Seq(Statement)
      /\ h[b] \in Seq(Statement)
  BY <1>0 DEF Heap
<1>2. DOMAIN h[b] = 1 .. Len(h[b])
  BY <1>1
<1>3. PICK l \in Nat : l = Len(h[p]) /\ l > 0 /\ DOMAIN h[p] = 1 .. l
  BY <1>0, <1>1, EmptySeq
<1>4. l \in DOMAIN h[p] /\ h[p][l].child = c
  BY <1>0, <1>3 DEF Last
<1>5. c # 0
  BY <1>0, <1>1
<1>6. c \in p + 1 .. Len(h)
  <2>1. \A e \in DOMAIN h : \A k \in DOMAIN h[e] :
          h[e][k].child # 0 => h[e][k].child \in e + 1 .. Len(h)
    BY <1>0 DEF IsTree
  <2>2. p \in DOMAIN h /\ h[p][l].child # 0
    BY <1>0, <1>1, <1>4, <1>5
  <2>3. h[p][l].child \in p + 1 .. Len(h)
    BY <1>4, <2>1, <2>2
  <2> QED
    BY <1>4, <2>3
<1>7. c \in 2 .. Len(h)
  BY <1>0, <1>1, <1>6
<1>8. PICK d \in DOMAIN h : \E j \in DOMAIN h[d] :
        /\ h[d][j].child = c
        /\ \A e \in DOMAIN h : \A k \in DOMAIN h[e] : h[e][k].child = c => e = d /\ k = j
  BY <1>0, <1>7 DEF IsTree
<1>9. PICK j \in DOMAIN h[d] :
        \A e \in DOMAIN h : \A k \in DOMAIN h[e] : h[e][k].child = c => e = d /\ k = j
  BY <1>8
<1>10. p = d /\ l = j
  BY <1>0, <1>1, <1>4, <1>9
<1>11. b = d /\ i = j
  BY <1>1, <1>2, <1>9
<1> QED
  BY <1>3, <1>10, <1>11

(* What is written of a block that does not hold block c is the same       *)
(* whatever is written of c.                                               *)
LEMMA ElsewhereSame ==
  ASSUME NEW W \in Written, NEW V, NEW c \in Nat, NEW x,
         V = [W EXCEPT ![c] = x], NEW block \in Seq(Statement),
         \A i \in 1 .. Len(block) : block[i].child # c
  PROVE  BlockToString(block, V) = BlockToString(block, W)
<1>1. DOMAIN block = 1 .. Len(block) /\ \A i \in 1 .. Len(block) : block[i].child \in Nat
  <2>1. DOMAIN block = 1 .. Len(block) /\ \A i \in 1 .. Len(block) : block[i] \in Statement
    OBVIOUS
  <2>2. \A st \in Statement : st.child \in Nat
    BY DEF Statement
  <2> QED
    BY <2>1, <2>2
<1>2. \A k \in Nat : k # c => V[k] = W[k]
  BY DEF Written
<1>3. \A i \in DOMAIN block : block[i].child # 0 => V[block[i].child] = W[block[i].child]
  BY <1>1, <1>2
<1> QED
  BY <1>3, BlockSame

(* The five parts of a statement with its block.                           *)
Joined(a, b, c, d, e, f) ==
  (((a \o (b \o c)) \o d) \o e) \o f = a \o (b \o (c \o ((d \o e) \o f)))

LEMMA JoinsFive ==
  ASSUME NEW a \in Seq(Lexeme), NEW b \in Seq(Lexeme), NEW c \in Seq(Lexeme),
         NEW d \in Seq(Lexeme), NEW e \in Seq(Lexeme), NEW f \in Seq(Lexeme)
  PROVE  Joined(a, b, c, d, e, f)
<1>1. PICK bc, de : bc = b \o c /\ de = d \o e
  OBVIOUS
<1>2. bc \in Seq(Lexeme) /\ de \in Seq(Lexeme)
  BY <1>1, Joins
<1>3. PICK abc, def : abc = a \o bc /\ def = de \o f
  OBVIOUS
<1>4. abc \in Seq(Lexeme) /\ def \in Seq(Lexeme)
  BY <1>2, <1>3, Joins
<1>5. /\ Associates(abc, d, e) /\ Associates(abc, de, f) /\ Associates(a, bc, def)
      /\ Associates(b, c, def)
  BY <1>2, <1>4, JoinsAssociate
<1>6. /\ (abc \o d) \o e = abc \o (d \o e) /\ (abc \o de) \o f = abc \o (de \o f)
      /\ (a \o bc) \o def = a \o (bc \o def) /\ (b \o c) \o def = b \o (c \o def)
  BY <1>5, Zenon DEF Associates
<1> QED
  BY <1>1, <1>3, <1>6, Zenon DEF Joined


(* A block closes: it is written, and its statement is complete.           *)
LEMMA BlockCloses ==
  ASSUME NEW stack, NEW h, Opened(stack, h), IsTree(h),
         NEW n, n = Len(stack), n > 1, NEW m, m = n - 1,
         NEW top, top = stack[n], NEW p, p = stack[m], Last(h[p]).child = top,
         NEW W, NEW G, NEW last, NEW u, Holds(stack, h, last, u, W, G), last # "NORMAL",
         NEW prev, prev = SubSeq(stack, 1, m)
  PROVE  \E V, F : Holds(prev, h, "END_BLOCK", u \o <<CloseToken>>, V, F)
<1>1. /\ n \in Nat /\ top \in 1 .. Len(h) /\ Len(h) \in Nat /\ h \in Heap /\ stack \in Seq(Nat)
      /\ \A k \in 1 .. n - 1 : stack[k] \in 1 .. Len(h) /\ stack[k] # top
      /\ \A b \in 1 .. Len(h) : h[b] \in Seq(Statement)
  <2>1. h \in Heap /\ stack \in Seq(Nat)
    BY DEF Opened
  <2> QED
    BY <2>1, OpenedFacts
<1>2. m \in Nat /\ m \in 1 .. m /\ m \in 1 .. n - 1 /\ n \in 1 .. n /\ m + 1 = n /\ 1 \in 1 .. m
      /\ 1 \in 1 .. n
  BY <1>1
<1>3. /\ prev \in Seq(Nat) /\ Len(prev) = m /\ \A k \in 1 .. m : prev[k] = stack[k]
  BY <1>1, <1>2
<1>4. p \in 1 .. Len(h) /\ h[p] \in Seq(Statement) /\ h[p] # <<>> /\ top \in Nat
  <2>1. p \in 1 .. Len(h)
    BY <1>1, <1>2
  <2>2. h[p] # <<>>
    BY <1>2 DEF Opened
  <2> QED
    BY <1>1, <2>1, <2>2
<1>5. ASSUME NEW b \in 1 .. Len(h), NEW i \in 1 .. Len(h[b]), h[b][i].child = top
      PROVE  b = p /\ i = Len(h[p])
  <2>1. EndsIn(h, p, top)
    BY <1>1, <1>4 DEF EndsIn
  <2> QED
    BY <1>5, <2>1, OneParent
<1>6. PICK x : x = BlockToString(h[top], W)
  OBVIOUS
<1>7. /\ W \in Written /\ OpenedAfter(stack, h, W, G) /\ Settled(stack, h, W) /\ u = G[n] \o x
  BY <1>6 DEF Holds, TopText
<1>8. PICK f, a : f = Front(h[p]) /\ a = Last(h[p])
  OBVIOUS
<1>9. /\ f \in Seq(Statement) /\ a \in Statement /\ h[p] = Append(f, a) /\ Len(f) = Len(h[p]) - 1
      /\ \A i \in 1 .. Len(h[p]) - 1 : f[i] = h[p][i]
  BY <1>4, <1>8, FrontLast
<1>10. x \in Seq(Lexeme)
  BY <1>1, <1>6, <1>7, <1>9, BlockAppend
<1>11. PICK V : V = [W EXCEPT ![top] = x]
  OBVIOUS
<1>12. V \in Written /\ V[top] = x /\ \A b \in Nat : b # top => V[b] = W[b]
  BY <1>4, <1>7, <1>10, <1>11 DEF Written
(* Only p holds the block, in its last statement.                          *)
<1>13. ASSUME NEW b \in 1 .. Len(h), b # p
       PROVE  BlockToString(h[b], V) = BlockToString(h[b], W)
  <2>1. \A i \in 1 .. Len(h[b]) : h[b][i].child # top
    BY <1>5, <1>13
  <2>2. h[b] \in Seq(Statement)
    BY <1>1
  <2> QED
    BY <1>4, <1>7, <1>11, <2>1, <2>2, ElsewhereSame
<1>14. ASSUME NEW b \in 1 .. Len(h), h[b] # <<>>
       PROVE  BlockToString(Front(h[b]), V) = BlockToString(Front(h[b]), W)
  <2>1. PICK e : e = Front(h[b])
    OBVIOUS
  <2>2. h[b] \in Seq(Statement)
    BY <1>1
  <2>3. PICK l \in Nat : l = Len(h[b])
    BY <2>2
  <2>4. e \in Seq(Statement) /\ Len(e) = l - 1 /\ \A i \in 1 .. l - 1 : e[i] = h[b][i]
    BY <1>14, <2>1, <2>2, <2>3, FrontLast
  <2>5. ASSUME NEW i \in 1 .. Len(e) PROVE e[i].child # top
    <3>1. i \in 1 .. l - 1 /\ i \in 1 .. Len(h[b]) /\ i # l
      BY <2>3, <2>4
    <3>2. h[b][i].child # top
      BY <1>5, <2>3, <3>1
    <3> QED
      BY <2>4, <3>1, <3>2
  <2> QED
    <3>1. BlockToString(e, V) = BlockToString(e, W)
      BY <1>4, <1>7, <1>11, <2>4, <2>5, ElsewhereSame
    <3> QED
      BY <2>1, <3>1
<1>15. PICK F : F = [k \in 1 .. m |-> G[k]]
  OBVIOUS
<1>16. /\ G \in [1 .. n -> Seq(Lexeme)] /\ G[1] = <<>>
       /\ \A k \in 1 .. n - 1 : G[k + 1] = (G[k] \o OpenText(W, h[stack[k]])) \o <<OpenToken>>
  BY <1>7 DEF OpenedAfter
<1>17. F \in [1 .. m -> Seq(Lexeme)] /\ \A k \in 1 .. m : F[k] = G[k]
  <2>1. \A k \in 1 .. m : k \in 1 .. n
    BY <1>1, <1>2
  <2>2. \A k \in 1 .. m : G[k] \in Seq(Lexeme)
    BY <1>16, <2>1
  <2> QED
    BY <1>15, <2>2
<1>18. OpenedAfter(prev, h, V, F)
  <2>1. ASSUME NEW k \in 1 .. m - 1
        PROVE  F[k + 1] = (F[k] \o OpenText(V, h[prev[k]])) \o <<OpenToken>>
    <3>1. k \in 1 .. m /\ k + 1 \in 1 .. m /\ k \in 1 .. n - 1
      BY <1>2
    <3>2. F[k] = G[k] /\ F[k + 1] = G[k + 1] /\ prev[k] = stack[k]
      BY <1>3, <1>17, <3>1
    <3>3. stack[k] \in 1 .. Len(h) /\ h[stack[k]] # <<>>
      BY <1>1, <3>1 DEF Opened
    <3>4. OpenText(V, h[stack[k]]) = OpenText(W, h[stack[k]])
      BY <1>14, <3>3 DEF OpenText
    <3> QED
      BY <1>16, <3>1, <3>2, <3>4
  <2>2. F[1] = <<>>
    BY <1>2, <1>16, <1>17
  <2> QED
    BY <1>3, <1>17, <2>1, <2>2 DEF OpenedAfter
<1>19. Settled(prev, h, V)
  <2>1. SUFFICES ASSUME NEW b \in 1 .. Len(h), \A k \in 1 .. Len(prev) : prev[k] # b
                 PROVE  V[b] = BlockToString(h[b], V)
    BY DEF Settled
  <2>2. b # p
    BY <1>2, <1>3, <2>1
  <2>3. BlockToString(h[b], V) = BlockToString(h[b], W)
    BY <1>13, <2>2
  <2>4. CASE b = top
    BY <1>6, <1>12, <2>3, <2>4
  <2>5. CASE b # top
    <3>1. ASSUME NEW k \in 1 .. n PROVE stack[k] # b
      <4>1. CASE k = n
        BY <2>5, <4>1
      <4>2. CASE k # n
        <5>1. k \in 1 .. m
          BY <1>1, <4>2
        <5> QED
          BY <1>3, <2>1, <5>1
      <4> QED
        BY <4>1, <4>2
    <3>2. W[b] = BlockToString(h[b], W)
      BY <1>7, <3>1 DEF Settled
    <3>3. b \in Nat
      BY <1>1
    <3> QED
      BY <1>12, <2>3, <2>5, <3>2, <3>3
  <2> QED
    BY <2>4, <2>5
<1>20. u \o <<CloseToken>> = F[m] \o TopText("END_BLOCK", h[prev[m]], V)
  <2>1. PICK c, o, g, b, w : /\ c = <<CloseToken>> /\ o = <<OpenToken>> /\ g = G[m]
                             /\ b = BlockToString(f, W) /\ w = Words(a)
    OBVIOUS
  <2>2. b \in Seq(Lexeme) /\ w \in Seq(Lexeme) /\ OpenText(W, h[p]) = b \o w
    BY <1>4, <1>7, <1>8, <2>1, OpenTextTyped DEF OpenText
  <2>3. c \in Seq(Lexeme) /\ o \in Seq(Lexeme)
    BY <2>1, MarkTokens
  <2>4. g \in Seq(Lexeme)
    <3>1. m \in 1 .. n
      BY <1>1, <1>2
    <3>2. G[m] \in Seq(Lexeme)
      BY <1>16, <3>1
    <3> QED
      BY <2>1, <3>2
  <2>5. G[m + 1] = (G[m] \o OpenText(W, h[stack[m]])) \o <<OpenToken>>
    BY <1>2, <1>16
  <2>6. G[n] = (g \o (b \o w)) \o o
    BY <1>2, <2>1, <2>2, <2>5
  <2>7. u \o c = (((g \o (b \o w)) \o o) \o x) \o c
    BY <1>7, <2>6
  <2>8. u \o c = g \o (b \o (w \o ((o \o x) \o c)))
    <3>1. Joined(g, b, w, o, x, c)
      BY <1>10, <2>2, <2>3, <2>4, JoinsFive
    <3> QED
      BY <2>7, <3>1, Zenon DEF Joined
  <2>9. BlockToString(h[p], V) = BlockToString(f, V) \o StatementToString(a, V)
    BY <1>9, <1>12, BlockAppend
  <2>10. BlockToString(f, V) = b
    BY <1>4, <1>8, <1>14, <2>1
  <2>11. StatementToString(a, V) = w \o ((o \o x) \o c)
    <3>1. a.child = top /\ top # 0
      BY <1>1, <1>8
    <3>2. StatementToString(a, V) = Words(a) \o ((<<OpenToken>> \o V[a.child]) \o <<CloseToken>>)
      BY <3>1, StatementIs
    <3> QED
      BY <1>12, <2>1, <3>1, <3>2
  <2>12. TopText("END_BLOCK", h[prev[m]], V) = BlockToString(h[p], V)
    BY <1>2, <1>3 DEF TopText
  <2> QED
    BY <1>2, <1>17, <2>1, <2>8, <2>9, <2>10, <2>11, <2>12
<1> QED
  BY <1>3, <1>12, <1>18, <1>19, <1>20 DEF Holds


(* The three marks, as tokens.                                             *)
MarkTypes == {"STATEMENT_END", "START_BLOCK", "END_BLOCK"}

IsMark(x) ==
  /\ x.type = "STATEMENT_END" => x = SemicolonToken
  /\ x.type = "START_BLOCK" => x = OpenToken
  /\ x.type = "END_BLOCK" => x = CloseToken

LEMMA MarkIs ==
  ASSUME NEW c \in DOMAIN Marks
  PROVE  IsMark(Token(Marks[c], <<c>>))
<1>1. PICK x : x = Token(Marks[c], <<c>>)
  OBVIOUS
<1>2. x.type = Marks[c]
  BY <1>1 DEF Token
<1>3. CASE c = ";"
  <2>1. x = SemicolonToken /\ x.type = "STATEMENT_END"
    BY <1>1, <1>2, <1>3, CharDomains DEF SemicolonToken
  <2> QED
    BY <1>1, <2>1 DEF IsMark
<1>4. CASE c = "{"
  <2>1. x = OpenToken /\ x.type = "START_BLOCK"
    BY <1>1, <1>2, <1>4, CharDomains DEF OpenToken
  <2> QED
    BY <1>1, <2>1 DEF IsMark
<1>5. CASE c = "}"
  <2>1. x = CloseToken /\ x.type = "END_BLOCK"
    BY <1>1, <1>2, <1>5, CharDomains DEF CloseToken
  <2> QED
    BY <1>1, <2>1 DEF IsMark
<1> QED
  BY <1>3, <1>4, <1>5, CharDomains

LEMMA PieceIsMark ==
  ASSUME NEW t \in Text, NEW s \in 1 .. Len(t), NEW x, TokenAt(t, s) = <<x>>
  PROVE  IsMark(x)
<1>1. \A y, z : <<y>> = <<z>> => y = z
  OBVIOUS
<1>2. \A y : <<y>> # <<>>
  OBVIOUS
<1>3. t[s] \in Chars
  BY TextFacts
<1>4. \A v : Token("ERROR", v).type = "ERROR" /\ Token("NORMAL", v).type = "NORMAL"
  BY DEF Token
<1>5. \A v : IsMark(Token("ERROR", v)) /\ IsMark(Token("NORMAL", v))
  BY <1>4 DEF IsMark
<1>6. CASE t[s] \in Whitespace
  BY <1>2, <1>6, ShortPiece
<1>7. CASE t[s] \in DOMAIN Marks
  BY <1>1, <1>7, ShortPiece, MarkIs
<1>8. CASE t[s] \in DOMAIN Openers \cup Letters
  <2>1. \/ TokenAt(t, s) = <<>>
        \/ \E v : TokenAt(t, s) = <<Token("ERROR", v)>>
        \/ \E v : TokenAt(t, s) = <<Token("NORMAL", v)>>
    <3>1. t[s] = "#" \/ t[s] \in {"dq", "'"} \/ t[s] \in Letters
      BY <1>8, CharDomains
    <3> QED
      BY <1>8, <3>1, LongPiece
  <2> QED
    BY <1>1, <1>2, <1>5, <2>1
<1> QED
  BY <1>3, <1>6, <1>7, <1>8, CharKinds

LEMMA TakenIsMark ==
  ASSUME TypeOK, NEW s, Lexing(s), token_type \in MarkTypes \cup {"NORMAL"}
  PROVE  IsMark(Token(token_type, value))
<1>1. text \in Text
  BY DEF TypeOK, Text
<1>2. Returned(s) /\ token_type # "COMMENT"
  BY DEF Lexing, MarkTypes
<1>3. s \in 1 .. Len(text) /\ TokenAt(text, s) = <<Token(token_type, value)>>
  BY <1>2 DEF Returned
<1> QED
  BY <1>1, <1>3, PieceIsMark


(* Another last statement.                                                 *)
LEMMA LastChanges ==
  ASSUME NEW block \in Seq(Statement), block # <<>>, NEW n, n = Len(block),
         NEW st \in Statement, NEW more, more = [block EXCEPT ![n] = st]
  PROVE  more = Append(Front(block), st)
<1>1. n \in Nat /\ n > 0 /\ n \in 1 .. n
  BY EmptySeq
<1>2. PICK m \in Nat : m = n - 1
  BY <1>1
<1>3. PICK f : f = Front(block)
  OBVIOUS
<1>4. f \in Seq(Statement) /\ Len(f) = m /\ \A i \in 1 .. m : f[i] = block[i]
  BY <1>2, <1>3, FrontLast
<1>5. /\ more \in Seq(Statement) /\ Len(more) = n /\ more[n] = st
      /\ \A i \in 1 .. n : i # n => more[i] = block[i]
  BY <1>1
<1>6. PICK c : c = Append(f, st)
  OBVIOUS
<1>7. c \in Seq(Statement) /\ Len(c) = n /\ c[n] = st /\ \A i \in 1 .. m : c[i] = f[i]
  BY <1>1, <1>2, <1>4, <1>6, AppendProperties
<1>8. ASSUME NEW i \in 1 .. n PROVE more[i] = c[i]
  <2>1. CASE i = n
    BY <1>5, <1>7, <2>1
  <2>2. CASE i # n
    <3>1. i \in 1 .. m
      BY <1>1, <1>2, <2>2
    <3> QED
      BY <1>4, <1>5, <1>7, <2>2, <3>1
  <2> QED
    BY <2>1, <2>2
<1>9. more = c
  BY <1>5, <1>7, <1>8, SeqEqual
<1> QED
  BY <1>3, <1>6, <1>9

-----------------------------------------------------------------------------
(* The steps of Parse on what it has built                                 *)

LEMMA BuiltSame ==
  ASSUME NEW u, Built(u), UNCHANGED <<last_token_type, treeVars>>
  PROVE  Built(u)'
  BY DEF Built, treeVars

LEMMA BuiltWord ==
  ASSUME Inv, NEW u, Built(u), normal_token, NEW w, w = u \o <<Token("NORMAL", value)>>
  PROVE  Built(w)'
<1>1. PICK W, G : Holds(config_stack, blocks, last_token_type, u, W, G)
  BY DEF Built
<1>2. PICK stack, h, top, v : stack = config_stack /\ h = blocks /\ top = Top /\ v = value
  OBVIOUS
<1>3. PICK g : g = blocks'
  OBVIOUS
<1>4. Opened(stack, h) /\ top = stack[Len(stack)] /\ v \in Seq(Chars)
  BY <1>2, InvOpened DEF Inv, TypeOK
<1>5. /\ h \in Heap /\ top \in 1 .. Len(h) /\ h[top] \in Seq(Statement)
  BY <1>2, TopBlock DEF Inv, TypeOK, Heap
<1>6. last_token_type' = "NORMAL" /\ config_stack' = stack
  BY <1>2 DEF normal_token, Accept
<1>7. CASE NewStatement
  <2>1. PICK st : st = [tokens |-> <<v>>, child |-> 0]
    OBVIOUS
  <2>2. g = [h EXCEPT ![top] = Append(@, st)]
    BY <1>2, <1>3, <1>7, <2>1 DEF normal_token
  <2>3. PICK more : more = Append(h[top], st)
    OBVIOUS
  <2>4. g = [h EXCEPT ![top] = more]
    BY <2>2, <2>3
  <2>5. Len(g) = Len(h) /\ g[top] = more /\ \A b \in 1 .. Len(h) : b # top => g[b] = h[b]
    BY <1>5, <2>4 DEF Heap
  <2>6. last_token_type # "NORMAL"
    BY <1>7 DEF NewStatement
  <2>7. Holds(stack, g, "NORMAL", u \o <<Token("NORMAL", v)>>, W, G)
    BY <1>1, <1>2, <1>4, <2>1, <2>3, <2>5, <2>6, WordBegins
  <2> QED
    BY <1>2, <1>3, <1>6, <2>7 DEF Built
<1>8. CASE ~NewStatement
  <2>1. last_token_type = "NORMAL"
    BY <1>8 DEF NewStatement
  <2>2. PICK n : n = Len(h[top])
    OBVIOUS
  <2>3. h[top] # <<>> /\ Back = n
    BY <1>2, <2>1, <2>2 DEF Inv, StackSafe, Back
  <2>4. n \in Nat /\ n > 0
    BY <1>5, <2>2, <2>3, EmptySeq
  <2>5. PICK f, a : f = Front(h[top]) /\ a = Last(h[top])
    OBVIOUS
  <2>6. /\ f \in Seq(Statement) /\ a \in Statement /\ h[top] = Append(f, a) /\ a = h[top][n]
    BY <1>5, <2>2, <2>3, <2>5, FrontLast DEF Last
  <2>7. PICK st : st = [a EXCEPT !.tokens = Append(@, v)]
    OBVIOUS
  <2>8. st \in Statement /\ st.tokens = Append(a.tokens, v)
    <3>1. st \in Statement
      BY <1>4, <2>6, <2>7, StatementEdits
    <3>2. PICK ts : ts = Append(a.tokens, v)
      OBVIOUS
    <3>3. st = [a EXCEPT !.tokens = ts]
      BY <2>7, <3>2
    <3>4. st.tokens = ts
      BY <2>6, <3>3 DEF Statement
    <3> QED
      BY <3>1, <3>2, <3>4
  <2>9. PICK more : more = [h[top] EXCEPT ![n] = st]
    OBVIOUS
  <2>10. g = [h EXCEPT ![top] = more]
    <3>1. g = [h EXCEPT ![top][n].tokens = Append(@, v)]
      BY <1>2, <1>3, <1>8, <2>3 DEF normal_token
    <3> QED
      BY <2>6, <2>7, <2>9, <3>1
  <2>11. Len(g) = Len(h) /\ g[top] = more /\ \A b \in 1 .. Len(h) : b # top => g[b] = h[b]
    BY <1>5, <2>10 DEF Heap
  <2>12. more = Append(f, st)
    BY <1>5, <2>2, <2>3, <2>5, <2>8, <2>9, LastChanges
  <2>13. more \in Seq(Statement) /\ more # <<>> /\ Front(more) = f /\ Last(more) = st
    BY <2>6, <2>8, <2>12, FrontAppend
  <2>14. Holds(stack, g, "NORMAL", u \o <<Token("NORMAL", v)>>, W, G)
    <3>1. /\ g[top] \in Seq(Statement) /\ g[top] # <<>> /\ Front(g[top]) = Front(h[top])
          /\ Last(g[top]).tokens = Append(Last(h[top]).tokens, v)
      BY <2>5, <2>8, <2>11, <2>13
    <3>2. Holds(stack, h, "NORMAL", u, W, G)
      BY <1>1, <1>2, <2>1
    <3> QED
      <4>1. GetsWord(top, h, g, v)
        BY <2>3, <2>11, <3>1 DEF GetsWord
      <4> QED
        BY <1>4, <3>2, <4>1, WordFollows
  <2> QED
    BY <1>2, <1>3, <1>6, <2>14 DEF Built
<1> QED
  BY <1>7, <1>8


LEMMA BuiltEnd ==
  ASSUME Inv, NEW u, Built(u), last_token_type = "NORMAL", Accept("STATEMENT_END"),
         UNCHANGED treeVars, NEW w, w = u \o <<SemicolonToken>>
  PROVE  Built(w)'
<1>1. PICK W, G : Holds(config_stack, blocks, "NORMAL", u, W, G)
  BY DEF Built
<1>2. PICK stack, h, top : stack = config_stack /\ h = blocks /\ top = Top
  OBVIOUS
<1>3. Opened(stack, h) /\ top = stack[Len(stack)]
  BY <1>2, InvOpened
<1>4. h[top] # <<>> /\ Last(h[top]).child = 0
  BY <1>2 DEF Inv, StackSafe, Back, Last
<1>5. Holds(stack, h, "STATEMENT_END", u \o <<SemicolonToken>>, W, G)
  BY <1>1, <1>2, <1>3, <1>4, StatementEnds
<1>6. last_token_type' = "STATEMENT_END" /\ config_stack' = stack /\ blocks' = h
  BY <1>2 DEF Accept, treeVars
<1> QED
  BY <1>5, <1>6 DEF Built

LEMMA BuiltOpen ==
  ASSUME Inv, NEW u, Built(u), ~NoStatement, start_block_token,
         NEW w, w = u \o <<OpenToken>>
  PROVE  Built(w)'
<1>1. last_token_type = "NORMAL"
  BY DEF NoStatement
<1>2. PICK W, G : Holds(config_stack, blocks, "NORMAL", u, W, G)
  BY <1>1 DEF Built
<1>3. PICK stack, h, top : stack = config_stack /\ h = blocks /\ top = Top
  OBVIOUS
<1>4. PICK g, next : g = blocks' /\ next = config_stack'
  OBVIOUS
<1>5. PICK new : new = Len(h) + 1
  OBVIOUS
<1>6. Opened(stack, h) /\ top = stack[Len(stack)]
  BY <1>3, InvOpened
<1>7. h \in Heap /\ top \in 1 .. Len(h) /\ h[top] \in Seq(Statement) /\ new \in Nat /\ Len(h) \in Nat
  <2>1. h \in Heap /\ top \in 1 .. Len(h) /\ h[top] \in Seq(Statement)
    BY <1>3, TopBlock DEF Inv, TypeOK, Heap
  <2> QED
    BY <1>5, <2>1 DEF Heap
<1>8. PICK n : n = Len(h[top])
  OBVIOUS
<1>9. h[top] # <<>> /\ Back = n
  BY <1>1, <1>3, <1>8 DEF Inv, StackSafe, Back
<1>10. /\ g = Append([h EXCEPT ![top][n].child = new], <<>>) /\ next = Append(stack, new)
       /\ last_token_type' = "START_BLOCK"
  BY <1>3, <1>4, <1>5, <1>9 DEF start_block_token, Accept, NoStatement
<1>11. PICK f, a : f = Front(h[top]) /\ a = Last(h[top])
  OBVIOUS
<1>12. f \in Seq(Statement) /\ a \in Statement /\ a = h[top][n]
  BY <1>7, <1>8, <1>9, <1>11, FrontLast DEF Last
<1>13. PICK st : st = [a EXCEPT !.child = new]
  OBVIOUS
<1>14. st \in Statement /\ st.tokens = a.tokens
  BY <1>7, <1>12, <1>13 DEF Statement
<1>15. PICK more : more = [h[top] EXCEPT ![n] = st]
  OBVIOUS
<1>16. more = Append(f, st)
  BY <1>7, <1>8, <1>9, <1>11, <1>14, <1>15, LastChanges
<1>17. more \in Seq(Statement) /\ Front(more) = f /\ Last(more) = st
  BY <1>12, <1>14, <1>16, FrontAppend
<1>18. PICK M : M = [h EXCEPT ![top] = more]
  OBVIOUS
<1>19. g = Append(M, <<>>)
  BY <1>10, <1>12, <1>13, <1>15, <1>18
<1>20. /\ M \in Seq(Seq(Statement)) /\ Len(M) = Len(h) /\ M[top] = more
       /\ \A b \in 1 .. Len(h) : b # top => M[b] = h[b]
  BY <1>7, <1>17, <1>18 DEF Heap
<1>21. Len(g) = new /\ g[new] = <<>> /\ \A b \in 1 .. Len(h) : g[b] = M[b]
  <2>1. <<>> \in Seq(Statement)
    OBVIOUS
  <2> QED
    BY <1>5, <1>19, <1>20, <2>1, AppendProperties
<1>22. /\ Front(g[top]) = Front(h[top]) /\ Last(g[top]).tokens = Last(h[top]).tokens
       /\ \A b \in 1 .. Len(h) : b # top => g[b] = h[b]
  BY <1>7, <1>11, <1>14, <1>17, <1>20, <1>21
<1>23. \E F : Holds(next, g, "START_BLOCK", u \o <<OpenToken>>, W, F)
  <2>1. Holds(stack, h, "NORMAL", u, W, G)
    BY <1>2, <1>3
  <2> QED
    <3>1. OpensBlock(stack, h, next, g, new, top)
      BY <1>5, <1>6, <1>9, <1>10, <1>21, <1>22 DEF OpensBlock
    <3> QED
      BY <1>6, <2>1, <3>1, BlockOpens
<1> QED
  BY <1>4, <1>10, <1>23 DEF Built

LEMMA BuiltClose ==
  ASSUME Inv, NEW u, Built(u), ~Misplaced, Accept("END_BLOCK"),
         config_stack' = SubSeq(config_stack, 1, Len(config_stack) - 1),
         blocks' = blocks, NEW w, w = u \o <<CloseToken>>
  PROVE  Built(w)'
<1>1. PICK W, G : Holds(config_stack, blocks, last_token_type, u, W, G)
  BY DEF Built
<1>2. PICK stack, h, n : stack = config_stack /\ h = blocks /\ n = Len(config_stack)
  OBVIOUS
<1>3. Opened(stack, h) /\ IsTree(h)
  BY <1>2, InvOpened DEF Inv, BlocksFormTree
<1>4. n \in Nat /\ n > 1
  BY <1>2 DEF Inv, StackSafe, Misplaced, TypeOK
<1>5. PICK m : m = n - 1
  OBVIOUS
<1>6. PICK top, p : top = stack[n] /\ p = stack[m]
  OBVIOUS
<1>7. m \in 1 .. n - 1 /\ m + 1 = n
  BY <1>4, <1>5
<1>8. h[p][Len(h[p])].child = top
  <2>1. \A k \in 1 .. n - 1 : h[stack[k]][Len(h[stack[k]])].child = stack[k + 1]
    BY <1>2 DEF Inv, StackSafe
  <2>2. h[stack[m]][Len(h[stack[m]])].child = stack[m + 1]
    BY <1>7, <2>1
  <2> QED
    BY <1>6, <1>7, <2>2
<1>9. Last(h[p]).child = top
  BY <1>8 DEF Last
<1>10. last_token_type # "NORMAL" /\ last_token_type' = "END_BLOCK"
  BY DEF Misplaced, Accept
<1>11. PICK last : last = last_token_type
  OBVIOUS
<1>12. PICK prev : prev = SubSeq(stack, 1, m)
  OBVIOUS
<1>13. Holds(stack, h, last, u, W, G) /\ last # "NORMAL"
  BY <1>1, <1>2, <1>10, <1>11
<1>14. \E V, F : Holds(prev, h, "END_BLOCK", u \o <<CloseToken>>, V, F)
  BY <1>2, <1>3, <1>4, <1>5, <1>6, <1>9, <1>12, <1>13, BlockCloses
<1>15. config_stack' = prev /\ blocks' = h
  BY <1>2, <1>5, <1>12
<1> QED
  BY <1>10, <1>14, <1>15 DEF Built


-----------------------------------------------------------------------------
(* ToString of a whole configuration                                       *)

WrittenFn(h) == CHOOSE f : f = [b \in 1 .. Len(h) |-> BlockToString(h[b], f)]

LEMMA ConfigToStringIs ==
  ASSUME NEW h
  PROVE  ConfigToString(h) = WrittenFn(h)[1]
BY DEF ConfigToString, WrittenFn

(* Two ways to write the blocks of a tree agree, from the last to the      *)
(* first: the blocks inside a block come after it.                         *)
LEMMA WrittenOnce ==
  ASSUME NEW h \in Heap, IsTree(h), NEW f, NEW g,
         \A b \in 1 .. Len(h) : f[b] = BlockToString(h[b], f),
         \A b \in 1 .. Len(h) : g[b] = BlockToString(h[b], g),
         NEW b \in 1 .. Len(h)
  PROVE  f[b] = g[b]
<1>1. PICK n \in Nat : n = Len(h) /\ DOMAIN h = 1 .. n
  BY DEF Heap
<1>2. SUFFICES ASSUME f[b] # g[b] PROVE FALSE
  OBVIOUS
<1>3. PICK S : S = {c \in 1 .. n : f[c] # g[c]}
  OBVIOUS
<1>4. PICK c \in S : \A d \in S : d <= c
  <2>1. b \in S
    BY <1>1, <1>2, <1>3
  <2>2. PICK T : T = {n - d : d \in S}
    OBVIOUS
  <2>3. T \subseteq Nat /\ n - b \in T
    BY <1>1, <1>3, <2>1, <2>2
  <2>4. PICK t \in T : \A r \in T : t <= r
    BY <2>3, SmallestNat
  <2>5. PICK c \in S : t = n - c
    BY <2>2, <2>4
  <2>6. ASSUME NEW d \in S PROVE d <= c
    <3>1. n - d \in T /\ d \in Nat /\ c \in Nat
      BY <1>1, <1>3, <2>2
    <3>2. n - c <= n - d
      BY <2>4, <2>5, <3>1
    <3> QED
      BY <1>1, <3>1, <3>2
  <2> QED
    BY <2>5, <2>6
<1>5. c \in 1 .. n /\ f[c] # g[c] /\ c \in DOMAIN h
  BY <1>1, <1>3, <1>4
<1>6. ASSUME NEW i \in DOMAIN h[c], h[c][i].child # 0
      PROVE  f[h[c][i].child] = g[h[c][i].child]
  <2>1. PICK d : d = h[c][i].child
    OBVIOUS
  <2>2. d \in c + 1 .. n
    BY <1>1, <1>5, <1>6, <2>1 DEF IsTree
  <2>3. d \in 1 .. n /\ ~(d <= c)
    BY <1>1, <1>5, <2>2
  <2> QED
    BY <1>3, <1>4, <2>1, <2>3
<1>7. BlockToString(h[c], f) = BlockToString(h[c], g)
  BY <1>6, BlockSame
<1> QED
  BY <1>1, <1>5, <1>7


LEMMA AllWritten ==
  ASSUME NEW h \in Heap, IsTree(h), Len(h) >= 1, NEW W,
         \A b \in 2 .. Len(h) : W[b] = BlockToString(h[b], W)
  PROVE  ConfigToString(h) = BlockToString(h[1], W)
<1>1. PICK n \in Nat : n = Len(h) /\ DOMAIN h = 1 .. n /\ n >= 1
  BY DEF Heap
<1>2. PICK x : x = BlockToString(h[1], W)
  OBVIOUS
<1>3. PICK f : f = [b \in 1 .. n |-> IF b = 1 THEN x ELSE W[b]]
  OBVIOUS
<1>4. ASSUME NEW b \in 1 .. n PROVE f[b] = BlockToString(h[b], f)
  <2>1. ASSUME NEW i \in DOMAIN h[b], h[b][i].child # 0
        PROVE  f[h[b][i].child] = W[h[b][i].child]
    <3>1. PICK d : d = h[b][i].child
      OBVIOUS
    <3>2. d \in b + 1 .. n
      BY <1>1, <2>1, <3>1 DEF IsTree
    <3>3. d \in 1 .. n /\ d # 1
      BY <1>1, <3>2
    <3> QED
      BY <1>3, <3>1, <3>3
  <2>2. BlockToString(h[b], f) = BlockToString(h[b], W)
    BY <2>1, BlockSame
  <2>3. CASE b = 1
    BY <1>2, <1>3, <2>2, <2>3
  <2>4. CASE b # 1
    <3>1. b \in 2 .. Len(h)
      BY <1>1, <2>4
    <3> QED
      BY <1>3, <2>2, <2>4, <3>1
  <2> QED
    BY <2>3, <2>4
<1>5. f = [b \in 1 .. Len(h) |-> BlockToString(h[b], f)]
  BY <1>1, <1>3, <1>4
<1>6. PICK g : g = WrittenFn(h) /\ g = [b \in 1 .. Len(h) |-> BlockToString(h[b], g)]
  BY <1>5 DEF WrittenFn
<1>7. \A b \in 1 .. Len(h) : g[b] = BlockToString(h[b], g)
  BY <1>6
<1>8. 1 \in 1 .. Len(h) /\ 1 \in 1 .. n
  BY <1>1
<1>9. f[1] = g[1]
  BY <1>1, <1>4, <1>7, <1>8, WrittenOnce
<1> QED
  BY <1>2, <1>3, <1>6, <1>8, <1>9, ConfigToStringIs

(* At the end nothing is open: what Parse has built is what it has taken.  *)
LEMMA BuiltAll ==
  ASSUME Inv, NEW u, Built(u), ~Unfinished
  PROVE  ConfigToString(blocks) = u
<1>1. PICK W, G : Holds(config_stack, blocks, last_token_type, u, W, G)
  BY DEF Built
<1>2. last_token_type # "NORMAL" /\ num_start_block = num_end_block
  BY DEF Unfinished
<1>3. Len(config_stack) = 1 /\ config_stack[1] = 1
  <2>1. /\ Len(config_stack) + num_end_block = 1 + num_start_block /\ config_stack[1] = 1
        /\ num_end_block \in Nat /\ config_stack \in Seq(Nat)
    BY DEF Inv, StackSafe, TypeOK
  <2>2. Len(config_stack) \in Nat
    BY <2>1
  <2>3. \A l, e \in Nat : l + e = 1 + e => l = 1
    OBVIOUS
  <2> QED
    BY <1>2, <2>1, <2>2, <2>3
<1>4. blocks \in Heap /\ IsTree(blocks) /\ Len(blocks) >= 1 /\ Len(blocks) \in Nat
      /\ blocks[1] \in Seq(Statement)
  <2>1. blocks \in Heap /\ IsTree(blocks) /\ 1 \in 1 .. Len(blocks)
    BY <1>3, TopBlock DEF Inv, BlocksFormTree, TypeOK, Heap, Top
  <2> QED
    BY <2>1 DEF Heap
<1>5. /\ W \in Written /\ G[1] = <<>> /\ u = G[1] \o BlockToString(blocks[1], W)
      /\ \A b \in 1 .. Len(blocks) :
           (\A k \in 1 .. 1 : config_stack[k] # b) => W[b] = BlockToString(blocks[b], W)
  BY <1>1, <1>2, <1>3 DEF Holds, OpenedAfter, Settled, TopText
<1>6. ASSUME NEW b \in 2 .. Len(blocks) PROVE W[b] = BlockToString(blocks[b], W)
  <2>1. b \in 1 .. Len(blocks) /\ b # 1
    BY <1>4
  <2>2. \A k \in 1 .. 1 : config_stack[k] # b
    BY <1>3, <2>1
  <2> QED
    BY <1>5, <2>1, <2>2
<1>7. ConfigToString(blocks) = BlockToString(blocks[1], W)
  BY <1>4, <1>6, AllWritten
<1>8. BlockToString(blocks[1], W) \in Seq(Lexeme)
  <2>1. PICK st : st = [tokens |-> <<>>, child |-> 0]
    OBVIOUS
  <2>2. st \in Statement
    BY <2>1 DEF Statement
  <2> QED
    BY <1>4, <1>5, <2>2, BlockAppend
<1>9. <<>> \o BlockToString(blocks[1], W) = BlockToString(blocks[1], W)
  BY <1>8, Joins
<1> QED
  BY <1>5, <1>7, <1>9


-----------------------------------------------------------------------------
(* What Parse decides and what it builds                                   *)

(* The file is cut before s, ParseToken is at the piece there, and Parse   *)
(* has taken the tokens u of the pieces before it.                         *)
At(s, u) == Cut(text, s, u) /\ Lexing(s) /\ Parsed(u) /\ Built(u)

Reading == \E s, u : At(s, u)

FullInv ==
  /\ Inv /\ DecidesGrammar /\ KeepsTokens
  /\ result \in {"opening", "parsing"} => Reading

LEMMA InitFull == Init => FullInv
<1> SUFFICES ASSUME Init PROVE FullInv
  OBVIOUS
<1>1. Inv
  BY InitInv
<1>2. /\ text \in Text /\ input = text /\ value = <<>> /\ token_type = "NONE"
      /\ state = "INITIAL_WHITESPACE" /\ last_token_type = "START" /\ num_start_block = 0
      /\ num_end_block = 0 /\ blocks = << <<>> >> /\ config_stack = <<1>>
      /\ result = "opening"
  BY <1>1 DEF Init, Inv, TypeOK, Text
<1>3. Cut(text, 1, <<>>)
  BY <1>2, CutStart
<1>4. Lexing(1)
  <2>1. 1 \in 1 .. Len(text) + 1
    BY <1>2, TextFacts
  <2>2. Between(1)
    BY <1>2, <2>1, RestStart DEF Between
  <2> QED
    BY <1>2, <2>2 DEF Lexing
<1>5. Parsed(<<>>)
  <2>1. Len(<<>>) = 0
    OBVIOUS
  <2>2. Depth(<<>>, 0) = 0
    BY DepthStart
  <2>3. Good(<<>>)
    BY <2>1 DEF Good
  <2>4. num_start_block - num_end_block = Depth(<<>>, Len(<<>>))
    BY <1>2, <2>1, <2>2
  <2> QED
    BY <1>2, <2>3, <2>4 DEF Parsed, LastType
<1>6. Built(<<>>)
  <2>1. PICK W : W = [b \in Nat |-> <<>>]
    OBVIOUS
  <2>2. PICK G : G = [k \in 1 .. 1 |-> <<>>]
    OBVIOUS
  <2>3. <<>> \in Seq(Lexeme)
    OBVIOUS
  <2>4. W \in Written
    BY <2>1, <2>3 DEF Written
  <2>5. Len(config_stack) = 1 /\ config_stack[1] = 1 /\ Len(blocks) = 1 /\ blocks[1] = <<>>
    BY <1>2
  <2>6. G \in [1 .. 1 -> Seq(Lexeme)] /\ G[1] = <<>>
    BY <2>2, <2>3
  <2>7. OpenedAfter(config_stack, blocks, W, G)
    BY <2>5, <2>6 DEF OpenedAfter
  <2>8. Settled(config_stack, blocks, W)
    BY <2>5 DEF Settled
  <2>9. TopText(last_token_type, blocks[1], W) = <<>>
    BY <1>2, <2>5, BlockEmpty DEF TopText
  <2>10. <<>> \o <<>> = <<>>
    OBVIOUS
  <2> QED
    BY <2>4, <2>5, <2>6, <2>7, <2>8, <2>9, <2>10 DEF Built, Holds
<1>7. Reading
  BY <1>3, <1>4, <1>5, <1>6 DEF Reading, At
<1> QED
  BY <1>1, <1>2, <1>7 DEF FullInv, DecidesGrammar, KeepsTokens

(* A token that Parse takes.                                               *)
LEMMA Takes ==
  ASSUME TypeOK, NEW s, NEW u, At(s, u), NEW x, x = Token(token_type, value),
         token_type \in MarkTypes \cup {"NORMAL"}, Fits(u, x), Accept(token_type),
         NEW w, w = u \o <<x>>, Built(w)',
         num_start_block' = IF token_type = "START_BLOCK" THEN num_start_block + 1
                            ELSE num_start_block,
         num_end_block' = IF token_type = "END_BLOCK" THEN num_end_block + 1
                          ELSE num_end_block
  PROVE  Reading' /\ result' = result
<1>1. Cut(text, s, u) /\ Lexing(s) /\ Parsed(u)
  BY DEF At
<1>2. token_type \in {"NORMAL", "STATEMENT_END", "START_BLOCK", "END_BLOCK"}
  BY DEF MarkTypes
<1>3. x \in Lexeme /\ u \in Seq(Lexeme) /\ x.type = token_type /\ Cut(text, After(text, s), w)
  BY <1>1, <1>2, TokenNext
<1>4. NextToken /\ last_token_type' = token_type
  BY DEF Accept
<1>5. PICK a : a = After(text, s)
  OBVIOUS
<1>6. Lexing(After(text, s))' /\ text' = text
  BY <1>1, <1>2, <1>4, LexNext
<1>7. Cut(text, a, w)' /\ Lexing(a)'
  BY <1>3, <1>5, <1>6
<1>8. Parsed(w)'
  BY <1>1, <1>3, <1>4, ParsedNext
<1>9. result' = result
  BY <1>4 DEF NextToken
<1> QED
  BY <1>7, <1>8, <1>9 DEF Reading, At

(* A token that Parse rejects: the file is no configuration.               *)
LEMMA Rejects ==
  ASSUME TypeOK, NEW s, NEW u, At(s, u), NEW x, x.type = token_type, ~Fits(u, x),
         \/ /\ token_type \in MarkTypes \cup {"NORMAL"}
            /\ x = Token(token_type, value)
         \/ token_type = "ERROR" /\ x = Token("ERROR", <<>>)
  PROVE  ~IsConfig(Tokens(text))
<1>1. Cut(text, s, u) /\ Lexing(s)
  BY DEF At
<1>2. /\ x \in Lexeme /\ u \in Seq(Lexeme)
      /\ \E v \in Seq(Lexeme) : Tokens(text) = (u \o <<x>>) \o v
  BY <1>1, TokenNext DEF MarkTypes
<1> QED
  BY <1>2, BadStays


(* What a step that leaves the tokens and the tree alone keeps.            *)
LEMMA RejectFull ==
  ASSUME Reject, ~IsConfig(Tokens(text))
  PROVE  DecidesGrammar' /\ KeepsTokens' /\ result' \notin {"opening", "parsing"}
<1>1. result' = "false" /\ text' = text
  BY DEF Reject
<1>2. ~IsConfig(Tokens(text))'
  BY <1>1
<1> QED
  BY <1>1, <1>2 DEF DecidesGrammar, KeepsTokens

LEMMA ParseFull ==
  ASSUME Inv, Reading, Parse
  PROVE  /\ DecidesGrammar' /\ KeepsTokens'
         /\ result' \in {"opening", "parsing"} => Reading'
<1>1. PICK s, u : At(s, u)
  BY DEF Reading
<1>2. TypeOK /\ Cut(text, s, u) /\ Lexing(s) /\ Parsed(u) /\ Built(u) /\ text \in Text
  BY <1>1 DEF At, Inv, TypeOK, Text
<1>3. u \in Seq(Lexeme)
  BY <1>2, CutFacts
<1>4. result = "parsing"
  BY DEF Parse, skip_comment, normal_token, statement_end_token, start_block_token,
         end_block_token, end_of_input, error_token, Got
<1>5. ASSUME Reading', result' = result
      PROVE  /\ DecidesGrammar' /\ KeepsTokens'
             /\ result' \in {"opening", "parsing"} => Reading'
  BY <1>4, <1>5 DEF DecidesGrammar, KeepsTokens
<1>6. PICK x : x = Token(token_type, value)
  OBVIOUS
<1>7. x.type = token_type
  BY <1>6 DEF Token
<1>8. token_type \in MarkTypes \cup {"NORMAL"} => IsMark(x)
  BY <1>2, <1>6, TakenIsMark
<1>9. CASE skip_comment
  <2>1. token_type = "COMMENT" /\ NextToken /\ UNCHANGED <<last_token_type, treeVars>>
    BY <1>9 DEF skip_comment, Got
  <2>2. Lexing(After(text, s))' /\ text' = text /\ Cut(text, After(text, s), u)
    BY <1>2, <2>1, LexNext
  <2>3. PICK a : a = After(text, s)
    OBVIOUS
  <2>4. Lexing(a)' /\ Cut(text, a, u)'
    BY <2>2, <2>3
  <2>5. Parsed(u)'
    BY <1>2, <2>1 DEF Parsed, treeVars
  <2>6. Built(u)'
    BY <1>2, <2>1, BuiltSame
  <2>7. result' = result
    BY <2>1 DEF NextToken
  <2> QED
    BY <1>5, <2>4, <2>5, <2>6, <2>7 DEF Reading, At
<1>10. CASE normal_token
  <2>1. /\ token_type = "NORMAL" /\ Accept("NORMAL")
        /\ UNCHANGED <<num_start_block, num_end_block>>
    BY <1>10 DEF normal_token, Got
  <2>2. Fits(u, x)
    BY <1>2, <1>3, <1>7, <2>1, FitsIs
  <2>3. PICK w : w = u \o <<x>>
    OBVIOUS
  <2>4. Built(w)'
    BY <1>2, <1>6, <1>10, <2>1, <2>3, BuiltWord
  <2> QED
    BY <1>1, <1>2, <1>5, <1>6, <2>1, <2>2, <2>3, <2>4, Takes
<1>11. CASE statement_end_token
  <2>1. token_type = "STATEMENT_END" /\ token_type \in MarkTypes
    BY <1>11 DEF statement_end_token, Got, MarkTypes
  <2>2. Fits(u, x) <=> last_token_type = "NORMAL"
    BY <1>2, <1>3, <1>7, <2>1, FitsIs
  <2>3. CASE last_token_type = "NORMAL"
    <3>1. Accept("STATEMENT_END") /\ UNCHANGED treeVars
      BY <1>11, <2>3 DEF statement_end_token
    <3>2. x = SemicolonToken
      BY <1>7, <1>8, <2>1 DEF IsMark
    <3>3. PICK w : w = u \o <<x>>
      OBVIOUS
    <3>4. Built(w)'
      BY <1>2, <2>3, <3>1, <3>2, <3>3, BuiltEnd
    <3>5. UNCHANGED <<num_start_block, num_end_block>>
      BY <3>1 DEF treeVars
    <3> QED
      BY <1>1, <1>2, <1>5, <1>6, <2>1, <2>2, <2>3, <3>1, <3>3, <3>4, <3>5, Takes
  <2>4. CASE last_token_type # "NORMAL"
    <3>1. Reject
      BY <1>11, <2>4 DEF statement_end_token
    <3>2. ~IsConfig(Tokens(text))
      BY <1>1, <1>2, <1>6, <1>7, <2>1, <2>2, <2>4, Rejects
    <3> QED
      BY <3>1, <3>2, RejectFull
  <2> QED
    BY <2>3, <2>4
<1>12. CASE start_block_token
  <2>1. token_type = "START_BLOCK" /\ token_type \in MarkTypes
    BY <1>12 DEF start_block_token, Got, MarkTypes
  <2>2. Fits(u, x) <=> ~NoStatement
    BY <1>2, <1>3, <1>7, <2>1, FitsIs DEF NoStatement
  <2>3. CASE ~NoStatement
    <3>1. /\ Accept("START_BLOCK") /\ num_start_block' = num_start_block + 1
          /\ num_end_block' = num_end_block
      BY <1>12, <2>3 DEF start_block_token
    <3>2. x = OpenToken
      BY <1>7, <1>8, <2>1 DEF IsMark
    <3>3. PICK w : w = u \o <<x>>
      OBVIOUS
    <3>4. Built(w)'
      BY <1>2, <1>12, <2>3, <3>2, <3>3, BuiltOpen
    <3> QED
      BY <1>1, <1>2, <1>5, <1>6, <2>1, <2>2, <2>3, <3>1, <3>3, <3>4, Takes
  <2>4. CASE NoStatement
    <3>1. Reject
      BY <1>12, <2>4 DEF start_block_token
    <3>2. ~IsConfig(Tokens(text))
      BY <1>1, <1>2, <1>6, <1>7, <2>1, <2>2, <2>4, Rejects
    <3> QED
      BY <3>1, <3>2, RejectFull
  <2> QED
    BY <2>3, <2>4
<1>13. CASE end_block_token
  <2>1. token_type = "END_BLOCK" /\ token_type \in MarkTypes
    BY <1>13 DEF end_block_token, Got, MarkTypes
  <2>2. Fits(u, x) <=> ~Misplaced
    BY <1>2, <1>3, <1>7, <2>1, FitsIs
  <2>3. CASE ~Misplaced
    <3>1. /\ Accept("END_BLOCK") /\ num_end_block' = num_end_block + 1
          /\ config_stack' = SubSeq(config_stack, 1, Len(config_stack) - 1)
          /\ UNCHANGED <<num_start_block, blocks>>
      BY <1>13, <2>3 DEF end_block_token
    <3>2. x = CloseToken
      BY <1>7, <1>8, <2>1 DEF IsMark
    <3>3. PICK w : w = u \o <<x>>
      OBVIOUS
    <3>4. Built(w)'
      BY <1>2, <2>3, <3>1, <3>2, <3>3, BuiltClose
    <3> QED
      BY <1>1, <1>2, <1>5, <1>6, <2>1, <2>2, <2>3, <3>1, <3>3, <3>4, Takes
  <2>4. CASE Misplaced
    <3>1. Reject
      BY <1>13, <2>4 DEF end_block_token
    <3>2. ~IsConfig(Tokens(text))
      BY <1>1, <1>2, <1>6, <1>7, <2>1, <2>2, <2>4, Rejects
    <3> QED
      BY <3>1, <3>2, RejectFull
  <2> QED
    BY <2>3, <2>4
<1>14. CASE end_of_input
  <2>1. token_type = "EOF"
    BY <1>14 DEF end_of_input, Got
  <2>2. Tokens(text) = u
    BY <1>2, <2>1, TokensTaken
  <2>3. IsConfig(Tokens(text)) <=> ~Unfinished
    BY <1>2, <1>3, <2>2, Verdict
  <2>4. CASE Unfinished
    <3>1. Reject
      BY <1>14, <2>4 DEF end_of_input
    <3> QED
      BY <2>3, <2>4, <3>1, RejectFull
  <2>5. CASE ~Unfinished
    <3>1. result' = "true" /\ text' = text /\ blocks' = blocks
      BY <1>14, <2>5 DEF end_of_input, treeVars
    <3>2. ConfigToString(blocks) = Tokens(text)
      BY <1>2, <2>2, <2>5, BuiltAll
    <3>3. (ConfigToString(blocks) = Tokens(text))' /\ IsConfig(Tokens(text))'
      BY <2>3, <2>5, <3>1, <3>2
    <3> QED
      BY <3>1, <3>3 DEF DecidesGrammar, KeepsTokens
  <2> QED
    BY <2>4, <2>5
<1>15. CASE error_token
  <2>1. token_type = "ERROR" /\ Reject
    BY <1>15 DEF error_token, Got
  <2>2. PICK y : y = Token("ERROR", <<>>)
    OBVIOUS
  <2>3. y.type = token_type
    BY <2>1, <2>2 DEF Token
  <2>4. ~Fits(u, y)
    BY <1>2, <1>3, <2>1, <2>3, FitsIs
  <2>5. ~IsConfig(Tokens(text))
    BY <1>1, <1>2, <2>1, <2>2, <2>3, <2>4, Rejects
  <2> QED
    BY <2>1, <2>5, RejectFull
<1> QED
  BY <1>9, <1>10, <1>11, <1>12, <1>13, <1>14, <1>15 DEF Parse

LEMMA StepFull ==
  ASSUME FullInv, [Next]_vars
  PROVE  FullInv'
<1>1. Inv'
  BY StepInv DEF FullInv
<1>2. CASE open
  <2>1. /\ result = "opening" /\ result' \in {"parsing", "unreadable"}
        /\ UNCHANGED <<text, lexVars, last_token_type, treeVars>>
    BY <1>2 DEF open
  <2>2. PICK s, u : At(s, u)
    BY <2>1 DEF FullInv, Reading
  <2>3. Built(u)'
    BY <2>1, <2>2, BuiltSame DEF At
  <2>4. Cut(text, s, u)' /\ Parsed(u)'
    BY <2>1, <2>2 DEF At, Parsed, treeVars
  <2>5. Lexing(s)'
    BY <2>1, <2>2 DEF At, Lexing, lexVars, Between, InPiece, AtEOF, AtError, Returned
  <2> QED
    BY <1>1, <2>1, <2>3, <2>4, <2>5 DEF FullInv, Reading, At, DecidesGrammar, KeepsTokens
<1>3. CASE ParseToken
  <2>1. TypeOK /\ UNCHANGED <<text, last_token_type, treeVars, result>>
    BY <1>3, LexStep DEF FullInv, Inv
  <2>2. result = "parsing"
    BY <1>3 DEF ParseToken, initial_whitespace, comment, normal, end_of_file, quote, AtEnd, In
  <2>3. PICK s, u : At(s, u)
    BY <2>2 DEF FullInv, Reading
  <2>4. PICK r : (Cut(text, r, u) /\ Lexing(r))'
    BY <1>3, <2>1, <2>3, LexCut DEF At
  <2>5. Parsed(u)'
    BY <2>1, <2>3 DEF At, Parsed, treeVars
  <2>6. Built(u)'
    BY <2>1, <2>3, BuiltSame DEF At
  <2> QED
    BY <1>1, <2>1, <2>2, <2>4, <2>5, <2>6 DEF FullInv, Reading, At, DecidesGrammar, KeepsTokens
<1>4. CASE Parse
  <2>1. result = "parsing"
    BY <1>4 DEF Parse, skip_comment, normal_token, statement_end_token, start_block_token,
                end_block_token, end_of_input, error_token, Got
  <2>2. Inv /\ Reading
    BY <2>1 DEF FullInv
  <2> QED
    BY <1>1, <1>4, <2>2, ParseFull DEF FullInv
<1>5. CASE UNCHANGED vars
  <2>1. UNCHANGED <<text, lexVars, last_token_type, treeVars, result>>
    BY <1>5 DEF vars
  <2>2. DecidesGrammar' /\ KeepsTokens'
    BY <2>1 DEF FullInv, DecidesGrammar, KeepsTokens, treeVars
  <2>3. ASSUME result \in {"opening", "parsing"} PROVE Reading'
    <3>1. PICK s, u : At(s, u)
      BY <2>3 DEF FullInv, Reading
    <3>2. Built(u)'
      BY <2>1, <3>1, BuiltSame DEF At
    <3>3. Cut(text, s, u)' /\ Parsed(u)'
      BY <2>1, <3>1 DEF At, Parsed, treeVars
    <3>4. Lexing(s)'
      BY <2>1, <3>1 DEF At, Lexing, lexVars, Between, InPiece, AtEOF, AtError, Returned
    <3> QED
      BY <3>2, <3>3, <3>4 DEF Reading, At
  <2> QED
    BY <1>1, <2>1, <2>2, <2>3 DEF FullInv
<1> QED
  BY <1>2, <1>3, <1>4, <1>5 DEF Next

LEMMA FullInvariance == Spec => []FullInv
  BY InitFull, StepFull, PTL DEF Spec

(* Whatever the file, Parse returns true on those whose tokens form a      *)
(* configuration of the grammar, and false on all others: its checks of    *)
(* the last token and of the count of braces recognise every nesting.      *)
THEOREM ParseDecidesGrammar == Spec => []DecidesGrammar
<1>1. FullInv => DecidesGrammar
  BY DEF FullInv
<1> QED
  BY <1>1, FullInvariance, PTL

(* Whatever the file, ToString of the configuration that Parse has built   *)
(* writes the tokens of the file, in their blocks and in their order.      *)
THEOREM ParseKeepsTokens == Spec => []KeepsTokens
<1>1. FullInv => KeepsTokens
  BY DEF FullInv
<1> QED
  BY <1>1, FullInvariance, PTL


=============================================================================
