------------------------------ MODULE MCProxy -------------------------------
(* Instances of Proxy for TLC: three URLs with every combination of pages  *)
(* and redirects, with and without a body.                                 *)
EXTENDS Proxy

MCUrls == 1 .. 3

Answers(u) ==
  [code : {200}, next : {None}, body : {<<u, u>>}]
    \cup [code : {IF u = 2 THEN 302 ELSE 301}, next : Urls \cup {None}, body : {<<>>, <<u>>}]

MCWebs == {<<a, b, c>> : a \in Answers(1), b \in Answers(2), c \in Answers(3)}

=============================================================================
