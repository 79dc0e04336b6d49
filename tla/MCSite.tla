------------------------------- MODULE MCSite -------------------------------
(* Instances of Site for TLC: the configurations of up to MaxStatements    *)
(* statements in the root block, of two families.                          *)
EXTENDS Site

CONSTANT MaxStatements

(* A statement of the root block, and the blocks under it, whose children  *)
(* are counted from the first of them.                                     *)
Kind(statement, under) == [statement |-> statement, under |-> under]
Leaf(statement) == Kind(statement, <<>>)
Line(tokens) == [tokens |-> tokens, child |-> 0]
Pair(key, value) == Line(<< <<key>>, value >>)
Loc(l) == Pair("location", l)
Inner(type) == [tokens |-> << <<"handler">>, <<type>> >>, child |-> 2]
Handler(type, statements) == Kind(Pair("handler", <<type>>), <<statements>>)

(* Ports at the limits of short, in statements of one and of two words and *)
(* before a block; handlers that repeat a location, have none, have the    *)
(* name of a handler, are in another block or in the block of a handler.   *)
StartKinds ==
  {Leaf(Pair("port", n)) :
     n \in {<<"0">>, <<"3", "2", "7", "6", "8">>, <<"6", "5", "5", "3", "4">>,
            <<"6", "5", "5", "3", "5">>, <<"6", "5", "6", "1", "6">>, <<"8", "/">>}}
  \cup {Leaf(Line(<< <<"port">> >>)), Kind(Pair("port", <<"8", "1">>), << <<Loc(<<"/", "a">>)>> >>),
        Leaf(Pair("root", <<"r">>)),
        Handler("static", <<Loc(<<"/", "a">>)>>), Handler("echo", <<Loc(<<"/", "a">>)>>),
        Handler("echo", <<Loc(<<"static">>)>>), Handler("echo", <<Pair("root", <<"s">>)>>),
        Kind(Line(<< <<"server">> >>),
             << <<Inner("echo"), Pair("port", <<"8", "2">>)>>, <<Loc(<<"/", "a">>)>> >>),
        Kind(Pair("handler", <<"static">>),
             << <<Loc(<<"/", "b">>), Inner("echo")>>, <<Loc(<<"/", "a">>)>> >>)}

(* Server roots, and locations below, beside and around one another.       *)
SiteKinds ==
  {Leaf(Pair("root", r)) : r \in {<<".">>, <<"/">>, <<"r">>}}
  \cup {Handler("static", <<Loc(<<"/", "a">>)>>),
        Handler("static", <<Loc(<<"/", "a">>), Pair("root", <<"s">>)>>),
        Handler("static", <<Pair("root", <<"/", "s">>), Loc(<<"/", "a", "b">>)>>),
        Handler("static", <<Loc(<<"/", "a", "/", "b">>), Pair("root", <<"s">>)>>),
        Handler("static", <<Loc(<<"/">>), Pair("root", <<"s">>)>>),
        Handler("meme", <<Loc(<<"/", "a", "/">>), Pair("root", <<".">>)>>),
        Handler("proxy", <<Loc(<<"/", "b">>)>>),
        Handler("echo", <<Loc(<<"/", "a", "/", "b">>)>>)}

(* The heap with one more statement in its root block.                     *)
Added(heap, kind) ==
  LET base == Len(heap)
      Shifted(s) == [s EXCEPT !.child = IF @ = 0 THEN 0 ELSE @ + base]
      under == [b \in DOMAIN kind.under |->
                  [i \in DOMAIN kind.under[b] |-> Shifted(kind.under[b][i])]]
      top == [kind.statement EXCEPT !.child = IF kind.under = <<>> THEN 0 ELSE base + 1]
  IN [heap EXCEPT ![1] = Append(@, top)] \o under

Heaps(kinds) ==
  LET upTo[n \in 0 .. MaxStatements] ==
        IF n = 0 THEN {<< <<>> >>}
        ELSE upTo[n - 1] \cup {Added(heap, kind) : heap \in upTo[n - 1], kind \in kinds}
  IN upTo[MaxStatements]

MCConfigs ==
  Heaps(StartKinds)
    \cup {Added(heap, Leaf(Pair("port", <<"8", "0">>))) : heap \in Heaps(SiteKinds)}

MCAlphabet == <<".", "/", "a", "b", "html", "jpg", "png", "r", "s", "static", "txt">>

MCPaths ==
  {<<"/">>, <<"/", "/", "a">>, <<"b", "/", "a", "/">>, <<"/", "b">>, <<"/", "b", "/", "a">>}
  \cup {<<"/", "a">> \o more : more \in
          {<<>>, <<"/">>, <<"/", "a", ".", "txt">>, <<"/", "b">>,
           <<"/", "b", "/", "a", ".", "png">>, <<"b", "/", "a", ".", "html">>,
           <<"b">>, <<"b", "b">>, <<"/", "/", "b", "/", "jpg">>}}

MCFiles ==
  {<<".", "/", "a", ".", "txt">>, <<"r", "/", "s", "/", "a", ".", "txt">>,
   <<"/", "s", "/", "a", ".", "html">>, <<"r", "/", "s", "/", "a", ".", "png">>}

=============================================================================
