--------------------------- MODULE ConfigGrammar ----------------------------
(***************************************************************************)
(* What a configuration file is, independently of how config_parser.cc     *)
(* reads it: its tokens, the grammar they have to follow, and the text     *)
(* that NginxConfig::ToString makes of the result.                         *)
(***************************************************************************)
EXTENDS ConfigParser, SequencesExt

(* Position of the first character of S in t after s, or behind t.         *)
Find(t, S, s) == Min({i \in s + 1 .. Len(t) : t[i] \in S} \cup {Len(t) + 1})

LineEnds == {"lf", "cr"}

(* A text is cut into pieces: the piece at s is a space, a mark, a comment *)
(* with its line end, a quotation or a word.  The next one begins here.    *)
After(t, s) ==
  CASE t[s] \in Whitespace \cup DOMAIN Marks -> s + 1
    [] t[s] = "#" -> Find(t, LineEnds, s) + 1
    [] t[s] \in {"dq", "'"} -> Find(t, {t[s]}, s) + 1
    [] OTHER -> Find(t, Terminators, s)

Token(type, v) == [type |-> type, value |-> v]

(* The token that a piece is, if any.  A word that the end of the file     *)
(* cuts short is none.                                                     *)
TokenAt(t, s) ==
  CASE t[s] \in Whitespace \cup {"#"} -> <<>>
    [] t[s] \in DOMAIN Marks -> <<Token(Marks[t[s]], <<t[s]>>)>>
    [] t[s] \in {"dq", "'"} ->
         IF After(t, s) > Len(t) + 1 THEN <<Token("ERROR", <<>>)>>
         ELSE <<Token("NORMAL", SubSeq(t, s, After(t, s) - 1))>>
    [] OTHER ->
         IF After(t, s) > Len(t) THEN <<>>
         ELSE <<Token("NORMAL", SubSeq(t, s, After(t, s) - 1))>>

(* upTo[n]: where the first n pieces end, and the tokens among them.       *)
Tokens(t) ==
  LET upTo[n \in 0 .. Len(t)] ==
        IF n = 0 THEN [at |-> 1, tokens |-> <<>>]
        ELSE LET last == upTo[n - 1] IN
          IF last.at > Len(t) THEN last
          ELSE [at |-> After(t, last.at), tokens |-> last.tokens \o TokenAt(t, last.at)]
  IN upTo[Len(t)].tokens

(* config ::= statement*                                                   *)
(* statement ::= word+ ( ";" | "{" statement+ "}" )                        *)
(* configs[d] are the places in ts where a config of d tokens begins; of   *)
(* its first statement the words end before m, and its last token is at n. *)
ConfigsOf(ts, configs, d) ==
  {i \in 1 .. Len(ts) - d + 1 :
     d # 0 =>
       \E m \in i + 1 .. i + d - 1 : \E n \in m .. i + d - 1 :
         /\ \A k \in i .. m - 1 : ts[k].type = "NORMAL"
         /\ \/ n = m /\ ts[m].type = "STATEMENT_END"
            \/ /\ n > m + 1 /\ ts[m].type = "START_BLOCK" /\ ts[n].type = "END_BLOCK"
               /\ m + 1 \in configs[n - m - 1]
         /\ n + 1 \in configs[i + d - 1 - n]}

IsConfig(ts) ==
  LET configs[d \in 0 .. Len(ts)] == ConfigsOf(ts, configs, d)
  IN 1 \in configs[Len(ts)]

-----------------------------------------------------------------------------
(* NginxConfig::ToString, as the tokens it writes.  written are those of   *)
(* the blocks of a heap.                                                   *)

StatementToString(statement, written) ==
  [k \in DOMAIN statement.tokens |-> Token("NORMAL", statement.tokens[k])]
    \o IF statement.child = 0 THEN <<Token("STATEMENT_END", <<";">>)>>
       ELSE <<Token("START_BLOCK", <<"{">>)>> \o written[statement.child]
              \o <<Token("END_BLOCK", <<"}">>)>>

BlockToString(block, written) ==
  FlattenSeq([i \in DOMAIN block |-> StatementToString(block[i], written)])

ConfigToString(heap) ==
  LET written[b \in 1 .. Len(heap)] == BlockToString(heap[b], written)
  IN written[1]

-----------------------------------------------------------------------------
(* Properties                                                              *)

(* Parse decides the grammar: it accepts the files whose tokens form a     *)
(* configuration and no others, over every nesting of blocks.              *)
DecidesGrammar ==
  result \in {"true", "false"} => (result = "true" <=> IsConfig(Tokens(text)))

(* Nothing that was read is lost, doubled or moved: ToString of the result *)
(* writes the tokens of the file, each in its block and in their order.    *)
KeepsTokens == result = "true" => ConfigToString(blocks) = Tokens(text)

=============================================================================
