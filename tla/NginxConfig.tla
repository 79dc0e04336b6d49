---------------------------- MODULE NginxConfig -----------------------------
(***************************************************************************)
(* NginxConfig values and the lookups of config_parser.cc in one block.    *)
(* The blocks of a configuration are a heap: a sequence whose first member *)
(* is the root.  A block is the sequence of its statements_, a statement   *)
(* has tokens (sequences of characters) and child, the index of its        *)
(* child_block_ or 0.                                                      *)
(***************************************************************************)
EXTENDS Integers, FiniteSets, FiniteSetsExt, Sequences

Statements == [tokens : Seq(Seq(STRING)), child : Nat]

(* A child comes after the block that holds it, and every block but the    *)
(* root is the child of one statement.                                     *)
IsTree(heap) ==
  /\ \A b \in DOMAIN heap : \A i \in DOMAIN heap[b] :
       heap[b][i].child # 0 => heap[b][i].child \in b + 1 .. Len(heap)
  /\ \A c \in 2 .. Len(heap) :
       \E b \in DOMAIN heap : \E i \in DOMAIN heap[b] :
         /\ heap[b][i].child = c
         /\ \A d \in DOMAIN heap : \A j \in DOMAIN heap[d] :
              heap[d][j].child = c => d = b /\ j = i

(* The blocks are numbered as they were opened: those between a block and  *)
(* one of its children lie in the statements before that child.            *)
InOrder(heap) ==
  \A b \in DOMAIN heap : \A i \in DOMAIN heap[b] :
    \A a \in DOMAIN heap : \A j \in DOMAIN heap[a] :
      b < heap[a][j].child /\ heap[a][j].child < heap[b][i].child =>
        a > b \/ (a = b /\ j < i)

(* A statement of two tokens that starts with key.                         *)
IsPair(statement, key) == Len(statement.tokens) = 2 /\ statement.tokens[1] = key

get_key_value(block, key) ==
  LET found == {i \in DOMAIN block : IsPair(block[i], key) /\ block[i].child = 0}
  IN IF found = {} THEN <<>> ELSE block[Min(found)].tokens[2]

-----------------------------------------------------------------------------

DigitValue == [c \in {"0", "1", "2", "3", "4", "5", "6", "7", "8", "9"} |->
                 CASE c = "0" -> 0 [] c = "1" -> 1 [] c = "2" -> 2 [] c = "3" -> 3
                   [] c = "4" -> 4 [] c = "5" -> 5 [] c = "6" -> 6 [] c = "7" -> 7
                   [] c = "8" -> 8 [] c = "9" -> 9]

IsNumber(token) == token # <<>> /\ \A i \in DOMAIN token : token[i] \in DOMAIN DigitValue

(* Of a number below 2^31: beyond, atoi is undefined.                      *)
atoi(token) ==
  LET upTo[n \in 0 .. Len(token)] ==
        IF n = 0 THEN 0 ELSE 10 * upTo[n - 1] + DigitValue[token[n]]
  IN upTo[Len(token)]

(* The first "port" statement decides, whether or not a block follows it.  *)
get_port(block) ==
  LET found == {i \in DOMAIN block : IsPair(block[i], <<"port">>)}
      token == block[Min(found)].tokens[2]
  IN IF found # {} /\ IsNumber(token) THEN atoi(token) ELSE -1

=============================================================================
