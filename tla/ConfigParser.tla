---------------------------- MODULE ConfigParser ----------------------------
(***************************************************************************)
(* The configuration parser (config_parser.cc): ParseToken, which reads a  *)
(* character per round, and Parse, which takes one token per round and     *)
(* builds the statements and blocks of a NginxConfig.                      *)
(*                                                                         *)
(* A text is a sequence of characters: "sp" is a space or a tab, "dq" the  *)
(* double quote, "lf" and "cr" the line ends, Letters all that the parser  *)
(* does not tell apart.  Blocks are kept in a heap: blocks[1] is the       *)
(* config that Parse fills, child is the index of a child_block_ or 0.     *)
(***************************************************************************)
EXTENDS NginxConfig

CONSTANTS
  Letters,      \* characters without a meaning of their own
  Texts         \* the files that may be read

Specials == {"{", "}", ";", "#", "dq", "'", "sp", "lf", "cr"}

Chars == Specials \cup Letters

ASSUME LetterAssumption == Letters \cap Specials = {}

ASSUME TextAssumption == Texts \subseteq Seq(Chars)

VARIABLES
  text,             \* the file
  input,            \* what is left of it
  state,            \* TokenParserState
  value,            \* the characters of the current token
  token_type,       \* what ParseToken has returned, NONE while it reads
  last_token_type,
  num_start_block,
  num_end_block,
  blocks,           \* the heap of NginxConfigs: their statements_
  config_stack,     \* indices of the open blocks
  result            \* what Parse has returned, or how far it is

lexVars == <<input, state, value, token_type>>
treeVars == <<num_start_block, num_end_block, blocks, config_stack>>
vars == <<text, lexVars, last_token_type, treeVars, result>>

Init ==
  /\ text \in Texts
  /\ input = text
  /\ state = "INITIAL_WHITESPACE" /\ value = <<>> /\ token_type = "NONE"
  /\ last_token_type = "START"
  /\ num_start_block = 0 /\ num_end_block = 0
  /\ blocks = << <<>> >>
  /\ config_stack = <<1>>
  /\ result = "opening"

(* Parse(file_name, config): the file may not be readable.                 *)
open ==
  /\ result = "opening"
  /\ result' \in {"parsing", "unreadable"}
  /\ UNCHANGED <<text, lexVars, last_token_type, treeVars>>

-----------------------------------------------------------------------------
(* ParseToken                                                              *)

Whitespace == {"sp", "lf", "cr"}

(* Characters that are a token, and those that open a longer one.          *)
Marks == [c \in {"{", "}", ";"} |->
            CASE c = "{" -> "START_BLOCK"
              [] c = "}" -> "END_BLOCK"
              [] c = ";" -> "STATEMENT_END"]

Openers == [c \in {"#", "dq", "'"} |->
              CASE c = "#" -> "COMMENT"
                [] c = "dq" -> "DOUBLE_QUOTE"
                [] c = "'" -> "SINGLE_QUOTE"]

Quotes == [q \in {"DOUBLE_QUOTE", "SINGLE_QUOTE"} |->
             IF q = "DOUBLE_QUOTE" THEN "dq" ELSE "'"]

TokenStates == {"INITIAL_WHITESPACE", "COMMENT", "NORMAL"} \cup DOMAIN Quotes

(* \r ends no token here, unlike the other kinds of whitespace.            *)
Terminators == {"sp", "lf", ";", "{", "}"}

In(s) == result = "parsing" /\ token_type = "NONE" /\ state = s

(* One round that goes on in state s.                                      *)
Continue(s, v) == state' = s /\ value' = v /\ UNCHANGED token_type

Return(type, v) == token_type' = type /\ value' = v /\ UNCHANGED state

initial_whitespace ==
  /\ In("INITIAL_WHITESPACE") /\ input # <<>>
  /\ LET c == Head(input) IN
       \/ c \in DOMAIN Marks /\ Return(Marks[c], <<c>>)
       \/ c \in DOMAIN Openers /\ Continue(Openers[c], <<c>>)
       \/ c \in Whitespace /\ Continue("INITIAL_WHITESPACE", value)
       \/ c \in Letters /\ Continue("NORMAL", Append(value, c))
  /\ input' = Tail(input)
  /\ UNCHANGED <<text, last_token_type, treeVars, result>>

quote(q) ==
  /\ In(q) /\ input # <<>>
  /\ \/ Head(input) = Quotes[q] /\ Return("NORMAL", Append(value, Head(input)))
     \/ Head(input) # Quotes[q] /\ Continue(q, Append(value, Head(input)))
  /\ input' = Tail(input)
  /\ UNCHANGED <<text, last_token_type, treeVars, result>>

comment ==
  /\ In("COMMENT") /\ input # <<>>
  /\ \/ Head(input) \in {"lf", "cr"} /\ Return("COMMENT", value)
     \/ Head(input) \notin {"lf", "cr"} /\ Continue("COMMENT", Append(value, Head(input)))
  /\ input' = Tail(input)
  /\ UNCHANGED <<text, last_token_type, treeVars, result>>

normal ==
  /\ In("NORMAL") /\ input # <<>>
  /\ \/ Head(input) \in Terminators /\ Return("NORMAL", value) /\ UNCHANGED input
     \/ /\ Head(input) \notin Terminators
        /\ Continue("NORMAL", Append(value, Head(input)))
        /\ input' = Tail(input)
  /\ UNCHANGED <<text, last_token_type, treeVars, result>>

AtEnd_mutant(s) == In(s) /\ input = <<>> /\ s \notin DOMAIN Quotes

AtEnd(s) == In(s) /\ input = <<>>

(* The end of the file, also in the middle of a word or of a comment.      *)
end_of_file ==
  /\ \E s \in TokenStates : AtEnd(s)
  /\ Return(IF state \in DOMAIN Quotes THEN "ERROR" ELSE "EOF", value)
  /\ UNCHANGED <<text, input, last_token_type, treeVars, result>>

-----------------------------------------------------------------------------
(* Parse                                                                   *)

Got(type) == result = "parsing" /\ token_type = type

Top == config_stack[Len(config_stack)]

(* statements_.back() of the block on top of the stack.                    *)
Back == Len(blocks[Top])

(* The next call of ParseToken, with a new token.                          *)
NextToken ==
  /\ token_type' = "NONE" /\ state' = "INITIAL_WHITESPACE" /\ value' = <<>>
  /\ UNCHANGED <<text, input, result>>

(* The break of each error.                                                *)
Reject ==
  /\ result' = "false"
  /\ UNCHANGED <<text, lexVars, last_token_type, treeVars>>

Accept(type) == last_token_type' = type /\ NextToken

skip_comment_mutant == Got("COMMENT") /\ Accept("COMMENT") /\ UNCHANGED treeVars

skip_comment ==
  /\ Got("COMMENT")
  /\ NextToken
  /\ UNCHANGED <<last_token_type, treeVars>>

NewStatement_mutant == last_token_type \in {"START", "STATEMENT_END", "START_BLOCK"}

NewStatement == last_token_type # "NORMAL"

normal_token ==
  /\ Got("NORMAL")
  /\ Accept("NORMAL")
  /\ \/ /\ NewStatement
        /\ blocks' = [blocks EXCEPT
                        ![Top] = Append(@, [tokens |-> <<value>>, child |-> 0])]
     \/ /\ ~NewStatement
        /\ blocks' = [blocks EXCEPT ![Top][Back].tokens = Append(@, value)]
  /\ UNCHANGED <<num_start_block, num_end_block, config_stack>>

statement_end_token ==
  /\ Got("STATEMENT_END")
  /\ \/ last_token_type # "NORMAL" /\ Reject
     \/ /\ last_token_type = "NORMAL"
        /\ Accept("STATEMENT_END")
        /\ UNCHANGED treeVars

NoStatement_mutant == last_token_type \notin {"NORMAL", "END_BLOCK"}

NoStatement == last_token_type # "NORMAL"

start_block_token ==
  /\ Got("START_BLOCK")
  /\ \/ NoStatement /\ Reject
     \/ /\ ~NoStatement
        /\ Accept("START_BLOCK")
        /\ num_start_block' = num_start_block + 1
        /\ LET new_config == Len(blocks) + 1 IN
             /\ blocks' = Append([blocks EXCEPT ![Top][Back].child = new_config], <<>>)
             /\ config_stack' = Append(config_stack, new_config)
        /\ UNCHANGED num_end_block

Misplaced_mutant == last_token_type \notin {"STATEMENT_END", "END_BLOCK"}

Misplaced == \/ last_token_type \notin {"STATEMENT_END", "END_BLOCK"}
             \/ num_start_block <= num_end_block

end_block_token ==
  /\ Got("END_BLOCK")
  /\ \/ Misplaced /\ Reject
     \/ /\ ~Misplaced
        /\ Accept("END_BLOCK")
        /\ num_end_block' = num_end_block + 1
        /\ config_stack' = SubSeq(config_stack, 1, Len(config_stack) - 1)
        /\ UNCHANGED <<num_start_block, blocks>>

Unfinished_mutant == last_token_type \notin {"STATEMENT_END", "END_BLOCK", "START"}

Unfinished == \/ last_token_type \notin {"STATEMENT_END", "END_BLOCK", "START"}
              \/ num_start_block # num_end_block

end_of_input ==
  /\ Got("EOF")
  /\ \/ Unfinished /\ Reject
     \/ /\ ~Unfinished
        /\ result' = "true"
        /\ UNCHANGED <<text, lexVars, last_token_type, treeVars>>

error_token == Got("ERROR") /\ Reject

ParseToken ==
  initial_whitespace \/ comment \/ normal \/ end_of_file
    \/ \E q \in DOMAIN Quotes : quote(q)

Parse ==
  skip_comment \/ normal_token \/ statement_end_token \/ start_block_token
    \/ end_block_token \/ end_of_input \/ error_token

Next == open \/ ParseToken \/ Parse

Spec == Init /\ [][Next]_vars

FairSpec == Spec /\ WF_vars(Next)

-----------------------------------------------------------------------------
(* Properties                                                              *)

TokenTypes == {"START", "NORMAL", "START_BLOCK", "END_BLOCK", "COMMENT",
               "STATEMENT_END", "EOF", "ERROR"}
Statement == [tokens : Seq(Seq(Chars)), child : Nat]

(* Every variable has its type.                                            *)
TypeOK ==
  /\ text \in Seq(Chars) /\ input \in Seq(Chars)
  /\ state \in TokenStates
  /\ value \in Seq(Chars)
  /\ token_type \in TokenTypes \cup {"NONE"}
  /\ last_token_type \in {"START", "NORMAL", "START_BLOCK", "END_BLOCK", "STATEMENT_END"}
  /\ num_start_block \in Nat /\ num_end_block \in Nat
  /\ blocks \in Seq(Seq(Statement))
  /\ config_stack \in Seq(Nat)
  /\ result \in {"opening", "unreadable", "parsing", "true", "false"}

(* The open blocks form a path from the root along last statements, as     *)
(* long as the count of braces says, and after a word the statement it     *)
(* belongs to is there and has no block: config_stack.top(), .pop() and    *)
(* statements_.back() never meet an empty container, and child_block_.reset *)
(* never frees a block.                                                    *)
StackSafe ==
  /\ Len(config_stack) + num_end_block = 1 + num_start_block
  /\ config_stack # <<>> /\ config_stack[1] = 1
  /\ \A k \in 1 .. Len(config_stack) - 1 :
       LET b == config_stack[k] IN
         /\ blocks[b] # <<>>
         /\ blocks[b][Len(blocks[b])].child = config_stack[k + 1]
  /\ last_token_type = "NORMAL" => blocks[Top] # <<>> /\ blocks[Top][Back].child = 0

(* The blocks form a tree: a child comes after the block that holds it,    *)
(* and every block but the root is the child of one statement, opened      *)
(* after the blocks of the statements before it.  It is what the           *)
(* recursions over a NginxConfig rely on.                                  *)
BlocksFormTree == IsTree(blocks) /\ InOrder(blocks)

(* Parsing ends, whatever the file holds.                                  *)
Terminates == <>(result \in {"unreadable", "true", "false"})

=============================================================================
