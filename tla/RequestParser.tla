---------------------------- MODULE RequestParser ---------------------------
(***************************************************************************)
(* From the bytes of a connection to requests (session.cc): each completed *)
(* async_read_some is copied to a C string and given to parse_request_line *)
(* as if it were one whole request.  The parser's loops take a character a *)
(* step.                                                                   *)
(*                                                                         *)
(* The words GET and POST, which are only compared as a whole, stand as    *)
(* one character each.  "lf", "cr", "nul" and "sp" are \n, \r, \0 and the  *)
(* space, Letters are characters that nothing here tells apart.            *)
(***************************************************************************)
EXTENDS Naturals, FiniteSets, FiniteSetsExt, Sequences

CONSTANTS
  Letters,
  Streams,     \* what a peer may send over its connection
  max_length   \* size of data_

Methods == {<<"GET">>, <<"POST">>}
Digits == {"1", "2"}
Chars == {"GET", "POST", "sp", "cr", "lf", "nul", ":", "/", ".", "H", "T", "P"}
           \cup Digits \cup Letters

ASSUME StreamAssumption == Streams \subseteq Seq(Chars) /\ max_length \in Nat

VARIABLES
  stream,         \* what has not been read yet
  data_copy,      \* what the last read delivered
  request_line,   \* the rest of it, as a C string
  pc,             \* the loop of parse_request_line, or "idle"
  method, path, HTTP_version, line, headers, body,
  req             \* the request that parse_request_line returned last

locals == <<method, path, HTTP_version, line, headers, body>>
vars == <<stream, data_copy, request_line, pc, locals, req>>

Version == <<"H", "T", "T", "P", "/", "1", ".", "1">>
NoHeaders == [n \in {} |-> <<>>]

request(v, m, p, version, h, b) ==
  [valid |-> v, method |-> m, path |-> p, http_version |-> version,
   headers |-> h, body |-> b]

invalid_request == request(FALSE, <<>>, <<>>, Version, NoHeaders, <<>>)

Init ==
  /\ stream \in Streams
  /\ data_copy = <<>> /\ request_line = <<>> /\ pc = "idle"
  /\ method = <<>> /\ path = <<>> /\ HTTP_version = <<>> /\ line = <<>>
  /\ headers = NoHeaders /\ body = <<>>
  /\ req = invalid_request

From(s, n) == SubSeq(s, n, Len(s))

(* What strlen and std::string see of a char array.                        *)
CString(s) ==
  SubSeq(s, 1, Min({i \in DOMAIN s : s[i] = "nul"} \cup {Len(s) + 1}) - 1)

(* A read completes with at least one and at most max_length bytes of what *)
(* the peer has sent, wherever the network has cut it.                     *)
handle_read ==
  /\ pc = "idle"
  /\ \E n \in 1 .. Len(stream) :
       /\ n <= max_length
       /\ data_copy' = SubSeq(stream, 1, n)
       /\ request_line' = CString(SubSeq(stream, 1, n))
       /\ stream' = From(stream, n + 1)
  /\ pc' = "method"
  /\ method' = <<>> /\ path' = <<>> /\ HTTP_version' = <<>> /\ line' = <<>>
  /\ headers' = NoHeaders /\ body' = <<>>
  /\ UNCHANGED req

-----------------------------------------------------------------------------
(* parse_request_line                                                      *)

Advance(n) == request_line' = From(request_line, n + 1)

Goto(loop) == pc' = loop /\ UNCHANGED req

Return(r) == pc' = "idle" /\ req' = r

AtSpace == request_line # <<>> /\ Head(request_line) = "sp"
AtChar == request_line # <<>> /\ Head(request_line) # "sp"
AtEnd_mutant == FALSE                   \* the loops only look for a space

AtEnd == request_line = <<>>

(* The later loops look at two characters and leave a last one alone.      *)
More == Len(request_line) > 1
AtCRLF == More /\ request_line[1] = "cr" /\ request_line[2] = "lf"

Supported_mutant(m) == m # <<>>

Supported(m) == m \in Methods

method_char ==
  /\ pc = "method"
  /\ \/ /\ AtChar /\ method' = Append(method, Head(request_line))
        /\ Advance(1) /\ Goto("method")
     \/ /\ AtSpace /\ Advance(1) /\ UNCHANGED method
        /\ IF Supported(method) THEN Goto("path") ELSE Return(invalid_request)
     \/ AtEnd /\ Goto("path") /\ UNCHANGED <<method, request_line>>
  /\ UNCHANGED <<stream, data_copy, path, HTTP_version, line, headers, body>>

HasPath_mutant == TRUE

HasPath == path # <<>>

path_char ==
  /\ pc = "path"
  /\ \/ /\ AtChar /\ path' = Append(path, Head(request_line))
        /\ Advance(1) /\ Goto("path")
     \/ /\ AtSpace /\ Advance(1) /\ UNCHANGED path
        /\ IF HasPath THEN Goto("version") ELSE Return(invalid_request)
     \/ /\ AtEnd /\ UNCHANGED <<path, request_line>>
        /\ IF HasPath THEN Goto("version") ELSE Return(invalid_request)
  /\ UNCHANGED <<stream, data_copy, method, HTTP_version, line, headers, body>>

validate_http_version_mutant(v) ==     \* "HTTP/1." is let through
  /\ Len(v) >= 5 /\ Len(v) > 5 /\ v[6] \in Digits
  /\ SubSeq(v, 1, 5) = <<"H", "T", "T", "P", "/">>
  /\ \A i \in 6 .. Len(v) : v[i] \in Digits \cup {"."}
  /\ Cardinality({i \in 6 .. Len(v) : v[i] = "."}) = 1

(* HTTP_version[5] of a string of five characters is its closing \0.       *)
validate_http_version(v) ==
  /\ Len(v) >= 5
  /\ Len(v) > 5 /\ v[6] \in Digits
  /\ v[Len(v)] # "."
  /\ SubSeq(v, 1, 5) = <<"H", "T", "T", "P", "/">>
  /\ \A i \in 6 .. Len(v) : v[i] \in Digits \cup {"."}
  /\ Cardinality({i \in 6 .. Len(v) : v[i] = "."}) = 1

VersionEnds_mutant == ~More \/ AtCRLF

VersionEnds == AtCRLF

version_char ==
  /\ pc = "version"
  /\ \/ /\ VersionEnds /\ Advance(2) /\ UNCHANGED HTTP_version
        /\ IF validate_http_version(HTTP_version)
             THEN Goto("line") ELSE Return(invalid_request)
     \/ /\ More /\ ~VersionEnds
        /\ HTTP_version' = Append(HTTP_version, Head(request_line))
        /\ Advance(1) /\ Goto("version")
     \/ /\ ~More /\ ~VersionEnds /\ Return(invalid_request)
        /\ UNCHANGED <<HTTP_version, request_line>>
  /\ UNCHANGED <<stream, data_copy, method, path, line, headers, body>>

(* The whole of a valid request.                                           *)
Valid(b) == Return(request(TRUE, method, path, HTTP_version, headers, b))

(* boost::trim                                                             *)
Trim(v) ==
  LET kept == {i \in DOMAIN v : v[i] \notin {"sp", "cr", "lf"}}
  IN IF kept = {} THEN <<>> ELSE SubSeq(v, Min(kept), Max(kept))

(* headers[name] = value, if the line has a colon.                         *)
Header(h, l) ==
  LET colons == {i \in DOMAIN l : l[i] = ":"}
      name == SubSeq(l, 1, Min(colons) - 1)
      value == Trim(From(l, Min(colons) + 1))
  IN IF colons = {} THEN h
     ELSE [n \in DOMAIN h \cup {name} |-> IF n = name THEN value ELSE h[n]]

(* The loop over lines, and the loop over the characters of one.           *)
header_char ==
  /\ pc = "line"
  /\ \/ /\ More /\ ~AtCRLF
        /\ line' = Append(line, Head(request_line))
        /\ Advance(1) /\ Goto("line")
        /\ UNCHANGED <<headers, body>>
     \/ /\ AtCRLF /\ line # <<>>
        /\ headers' = Header(headers, line) /\ line' = <<>>
        /\ Advance(2) /\ Goto("line")
        /\ UNCHANGED body
     \/ /\ AtCRLF /\ line = <<>>
        /\ Advance(2) /\ body' = From(request_line, 3)
        /\ Valid(From(request_line, 3))
        /\ UNCHANGED <<line, headers>>
     \/ /\ ~More
        /\ headers' = Header(headers, line) /\ line' = <<>>
        /\ Return(request(TRUE, method, path, HTTP_version, headers', body))
        /\ UNCHANGED <<request_line, body>>
  /\ UNCHANGED <<stream, data_copy, method, path, HTTP_version>>

parse_request_line == method_char \/ path_char \/ version_char \/ header_char

Next == handle_read \/ parse_request_line

Spec == Init /\ [][Next]_vars

(* The thread that parses goes on; the peer need not send anything more.   *)
FairSpec == Spec /\ WF_vars(parse_request_line)

-----------------------------------------------------------------------------
(* What a request is, by the positions of its separators.                  *)

CRLFs(t) == {e \in 1 .. Len(t) - 1 : t[e] = "cr" /\ t[e + 1] = "lf"}

IsVersion(v) ==
  \E dot \in 7 .. Len(v) - 1 :
    /\ SubSeq(v, 1, 5) = SubSeq(Version, 1, 5) /\ v[dot] = "."
    /\ \A i \in 6 .. Len(v) : i # dot => v[i] \in Digits

(* Request-Line = Method SP Request-URI SP HTTP-Version CRLF, with spaces  *)
(* at i and j and the end of the line at k.                                *)
IsRequestLine(t, i, j, k) ==
  /\ SubSeq(t, 1, i - 1) \in Methods /\ t[i] = "sp"
  /\ j > i + 1 /\ t[j] = "sp" /\ \A n \in i + 1 .. j - 1 : t[n] # "sp"
  /\ k \in CRLFs(t) /\ IsVersion(SubSeq(t, j + 1, k - 1))

RequestLines(t) ==
  {l \in [sp1 : {2} \cap DOMAIN t, sp2 : 4 .. Len(t), end : CRLFs(t)] :
     IsRequestLine(t, l.sp1, l.sp2, l.end)}

(* The lines of r up to the first empty one.  The last character of a line *)
(* that has no end is not seen.                                            *)
LineStarts(r) == {1} \cup {e + 2 : e \in CRLFs(r)}
BlankLine(r) == Min((LineStarts(r) \cap CRLFs(r)) \cup {Len(r) + 1})
LineAt(r, s) == SubSeq(r, s, Min({e \in CRLFs(r) : e >= s} \cup {Len(r)}) - 1)
HeaderLines(r) ==
  {s \in LineStarts(r) : /\ s < BlankLine(r) /\ s < Len(r)
                         /\ \E i \in DOMAIN LineAt(r, s) : LineAt(r, s)[i] = ":"}

HeaderName(l) == SubSeq(l, 1, Min({i \in DOMAIN l : l[i] = ":"}) - 1)
HeaderValue(l) == Trim(From(l, Min({i \in DOMAIN l : l[i] = ":"}) + 1))

(* The last line of a name gives its value.                                *)
Headers(r) ==
  [n \in {HeaderName(LineAt(r, s)) : s \in HeaderLines(r)} |->
     HeaderValue(LineAt(r, Max({s \in HeaderLines(r) : HeaderName(LineAt(r, s)) = n})))]

Parsed(t) ==
  IF RequestLines(t) = {} THEN invalid_request
  ELSE LET l == CHOOSE x \in RequestLines(t) : TRUE
           r == From(t, l.end + 2)
       IN request(TRUE, SubSeq(t, 1, l.sp1 - 1), SubSeq(t, l.sp1 + 1, l.sp2 - 1),
                  SubSeq(t, l.sp2 + 1, l.end - 1), Headers(r), From(r, BlankLine(r) + 2))

-----------------------------------------------------------------------------
(* Properties                                                              *)

Text == Seq(Chars)

(* Every variable has its type; a request has a supported method, or none. *)
TypeOK ==
  /\ stream \in Text /\ data_copy \in Text /\ request_line \in Text
  /\ pc \in {"idle", "method", "path", "version", "line"}
  /\ method \in Text /\ path \in Text /\ HTTP_version \in Text /\ line \in Text
  /\ DOMAIN headers \subseteq Text /\ \A n \in DOMAIN headers : headers[n] \in Text
  /\ body \in Text
  /\ req.valid \in BOOLEAN /\ req.method \in Methods \cup {<<>>}
  /\ req.path \in Text /\ req.http_version \in Text /\ req.body \in Text

Answered == pc = "idle" /\ data_copy # <<>>

(* parse_request_line finds the request line, the headers and the body     *)
(* that the positions of the separators give, and rejects all else.        *)
ParsesRequests == Answered => req = Parsed(CString(data_copy))

(* A read may end anywhere in a request.  If what it delivered is taken as *)
(* a request at all, it is routed and answered as the whole would be: same *)
(* method, path and version, no header that the whole does not have, and   *)
(* the beginning of its body.                                              *)
SplitReadsAgree ==
  Answered /\ req.valid =>
    LET whole == Parsed(CString(data_copy \o stream)) IN
      /\ whole.valid
      /\ req.method = whole.method /\ req.path = whole.path
      /\ req.http_version = whole.http_version
      /\ DOMAIN req.headers \subseteq DOMAIN whole.headers
      /\ req.body = SubSeq(whole.body, 1, Len(req.body))

(* A request is valid iff its path is not empty, and its version is one    *)
(* that a reply may start with: what the counters of handle_read and the   *)
(* handlers take for granted (RequestAssumption of Server).                *)
ValidHasPath == (req.valid <=> req.path # <<>>) /\ IsVersion(req.http_version)

(* Whatever a read delivers, parse_request_line returns.                   *)
EveryReadParsed == (pc # "idle") ~> (pc = "idle")

=============================================================================
