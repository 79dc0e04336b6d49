-------------------------- MODULE MCRequestParser ---------------------------
(* Instances of RequestParser for TLC.                                     *)
EXTENDS RequestParser

CRLF == <<"cr", "lf">>
Line1 == <<"GET", "sp", "/", "sp">> \o Version \o CRLF

(* A request with two headers, one of them twice, and a body; the body of  *)
(* a POST that is another request, or that holds a \0; and a path with a   *)
(* line end in it.                                                         *)
Posted == <<"POST", "sp", "/", "a", "sp">> \o Version \o CRLF
            \o <<"a", ":", "sp", "1">> \o CRLF \o <<"b", ":">> \o CRLF
            \o <<"a", ":", "2", "sp">> \o CRLF \o CRLF \o <<"a", "b">>
Pipelined == Line1 \o CRLF \o Line1 \o CRLF
Binary == Line1 \o CRLF \o <<"a", "nul", "b">>
TwoLines == <<"GET", "sp", "/", "cr", "lf", "a", ":", "sp">> \o Version \o CRLF

(* A request with a header, and every stream one character away from it.   *)
Plain == Line1 \o <<"a", ":", "1">> \o CRLF \o CRLF \o <<"b">>
Replaced(s) == {[s EXCEPT ![i] = c] : i \in DOMAIN s, c \in Chars}
Dropped(s) == {SubSeq(s, 1, i - 1) \o From(s, i + 1) : i \in DOMAIN s}

MCStreams == {Posted, Pipelined, Binary, TwoLines} \cup Replaced(Plain) \cup Dropped(Plain)

=============================================================================
