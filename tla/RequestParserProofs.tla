------------------------ MODULE RequestParserProofs -------------------------
(* Safety of module RequestParser for everything that a peer may send and  *)
(* wherever the network cuts it.                                           *)
EXTENDS RequestParser, FiniteSetTheorems, SequenceTheorems, Induction, TLAPS

-----------------------------------------------------------------------------
(* Smallest and largest positions                                          *)

LEMMA MinType ==
  ASSUME NEW S \in SUBSET Nat, S # {}
  PROVE  Min(S) \in S /\ \A y \in S : Min(S) =< y
  BY SmallestNat DEF Min

LEMMA MaxType ==
  ASSUME NEW n \in Nat, NEW S \in SUBSET (1 .. n), S # {}
  PROVE  Max(S) \in S /\ \A y \in S : Max(S) >= y
<1> DEFINE D == {n - x : x \in S}
<1>1. D \in SUBSET Nat /\ D # {}
  <2>1. \A x \in S : n - x \in Nat
    OBVIOUS
  <2> QED
    BY <2>1
<1>2. PICK d \in D : \A y \in D : d =< y
  BY <1>1, SmallestNat
<1>3. PICK x \in S : d = n - x
  OBVIOUS
<1>4. ASSUME NEW y \in S
      PROVE  x >= y
  <2>1. n - x =< n - y
    BY <1>2, <1>3
  <2>2. x \in Int /\ y \in Int /\ n \in Int
    OBVIOUS
  <2> QED
    BY <2>1, <2>2
<1> QED
  BY <1>4 DEF Max

(* The pieces that the parser cuts out of a text.                          *)
LEMMA PieceType ==
  ASSUME NEW s \in Text, NEW m \in 1 .. Len(s) + 1, NEW n \in m - 1 .. Len(s)
  PROVE  SubSeq(s, m, n) \in Text
  BY DEF Text

LEMMA FromType ==
  ASSUME NEW s \in Text, NEW n \in 1 .. Len(s) + 1
  PROVE  From(s, n) \in Text
  BY DEF Text, From

LEMMA CStringType ==
  ASSUME NEW s \in Text
  PROVE  CString(s) \in Text
<1> DEFINE E == {i \in DOMAIN s : s[i] = "nul"} \cup {Len(s) + 1}
<1>1. E \in SUBSET (1 .. Len(s) + 1) /\ E # {} /\ Len(s) \in Nat
  BY DEF Text
<1>2. Min(E) \in 1 .. Len(s) + 1
  BY <1>1, MinType
<1>3. Min(E) - 1 \in 0 .. Len(s)
  BY <1>1, <1>2
<1> QED
  BY <1>1, <1>3, PieceType DEF CString

LEMMA TrimType ==
  ASSUME NEW v \in Text
  PROVE  Trim(v) \in Text
<1> DEFINE kept == {i \in DOMAIN v : v[i] \notin {"sp", "cr", "lf"}}
<1>1. DOMAIN v = 1 .. Len(v) /\ Len(v) \in Nat
  BY DEF Text
<1>2. kept \in SUBSET (1 .. Len(v)) /\ kept \in SUBSET Nat
  <2>1. \A i \in kept : i \in DOMAIN v
    OBVIOUS
  <2> HIDE DEF kept
  <2> QED
    BY <1>1, <2>1
<1>3. Trim(v) = IF kept = {} THEN <<>> ELSE SubSeq(v, Min(kept), Max(kept))
  BY DEF Trim
<1> HIDE DEF kept
<1>4. CASE kept = {}
  BY <1>3, <1>4 DEF Text
<1>5. CASE kept # {}
  <2>1. /\ Min(kept) \in 1 .. Len(v) /\ Max(kept) \in 1 .. Len(v)
        /\ Min(kept) =< Max(kept)
    BY <1>1, <1>2, <1>5, MinType, MaxType
  <2>2. Min(kept) \in 1 .. Len(v) + 1 /\ Max(kept) \in Min(kept) - 1 .. Len(v)
    BY <1>1, <2>1
  <2>3. SubSeq(v, Min(kept), Max(kept)) \in Text
    BY <2>2, PieceType
  <2> QED
    BY <1>3, <1>5, <2>3
<1> QED
  BY <1>4, <1>5

HeadersOK(h) == DOMAIN h \subseteq Text /\ \A n \in DOMAIN h : h[n] \in Text

LEMMA HeaderType ==
  ASSUME NEW h, HeadersOK(h), NEW l \in Text
  PROVE  HeadersOK(Header(h, l))
<1> DEFINE colons == {i \in DOMAIN l : l[i] = ":"}
           name == SubSeq(l, 1, Min(colons) - 1)
           value == Trim(From(l, Min(colons) + 1))
<1>1. colons \in SUBSET (1 .. Len(l)) /\ colons \in SUBSET Nat /\ Len(l) \in Nat
  BY DEF Text
<1>2. CASE colons = {}
  BY <1>2 DEF Header
<1>3. CASE colons # {}
  <2>1. Min(colons) \in 1 .. Len(l)
    BY <1>1, <1>3, MinType
  <2>2. name \in Text
    BY <1>1, <2>1, PieceType
  <2>3. value \in Text
    BY <1>1, <2>1, FromType, TrimType
  <2>4. Header(h, l) = [n \in DOMAIN h \cup {name} |-> IF n = name THEN value ELSE h[n]]
    BY <1>3 DEF Header
  <2> HIDE DEF name, value
  <2> QED
    BY <2>2, <2>3, <2>4 DEF HeadersOK
<1> QED
  BY <1>2, <1>3

-----------------------------------------------------------------------------
(* Versions                                                                *)

LEMMA VersionPrefix == SubSeq(Version, 1, 5) = <<"H", "T", "T", "P", "/">>
<1> DEFINE s == SubSeq(Version, 1, 5)
           t == <<"H", "T", "T", "P", "/">>
<1>1. /\ Version[1] = "H" /\ Version[2] = "T" /\ Version[3] = "T"
      /\ Version[4] = "P" /\ Version[5] = "/"
  BY DEF Version
<1>2. \A i \in 1 .. 5 : Version[i] \in Chars
  <2>1. "H" \in Chars /\ "T" \in Chars /\ "P" \in Chars /\ "/" \in Chars
    BY DEF Chars
  <2>2. \A i \in 1 .. 5 : i = 1 \/ i = 2 \/ i = 3 \/ i = 4 \/ i = 5
    OBVIOUS
  <2> QED
    BY <1>1, <2>1, <2>2
<1>3. /\ s \in Seq(Chars) /\ Len(s) = 5
      /\ \A i \in 1 .. 5 : s[i] = Version[1 + i - 1]
  BY <1>2, SubSeqProperties
<1> HIDE DEF s
<1>4. s[1] = "H" /\ s[2] = "T" /\ s[3] = "T" /\ s[4] = "P" /\ s[5] = "/"
  BY <1>1, <1>3
<1>5. t \in Seq(Chars) /\ Len(t) = 5
  BY DEF Chars
<1>6. \A i \in 1 .. Len(s) : s[i] = t[i]
  BY <1>3, <1>4
<1>7. s = t
  BY <1>3, <1>5, <1>6, SeqEqual
<1> QED
  BY <1>7 DEF s

LEMMA VersionIsVersion == IsVersion(Version)
<1>1. Len(Version) = 8 /\ Version[6] = "1" /\ Version[7] = "." /\ Version[8] = "1"
  BY DEF Version
<1>2. 7 \in 7 .. Len(Version) - 1
  BY <1>1
<1>3. \A i \in 6 .. Len(Version) : i # 7 => Version[i] \in Digits
  BY <1>1 DEF Digits
<1> QED
  BY <1>1, <1>2, <1>3 DEF IsVersion

(* validate_http_version lets through versions only.                       *)
LEMMA ValidatedVersion ==
  ASSUME NEW v \in Text, validate_http_version(v)
  PROVE  IsVersion(v)
<1> DEFINE dots == {i \in 6 .. Len(v) : v[i] = "."}
<1>1. Len(v) \in Nat /\ Len(v) > 5
  BY DEF validate_http_version, Text
<1>2. IsFiniteSet(6 .. Len(v))
  BY <1>1, FS_Interval
<1>3. IsFiniteSet(dots) /\ Cardinality(dots) = 1
  BY <1>2, FS_Subset DEF validate_http_version
<1>4. PICK dot : dots = {dot}
  BY <1>3, FS_Singleton
<1>5. dot \in 6 .. Len(v) /\ v[dot] = "." /\ \A i \in 6 .. Len(v) : v[i] = "." => i = dot
  BY <1>4
<1>6. dot # 6 /\ dot # Len(v)
  BY <1>5 DEF validate_http_version, Digits
<1>7. dot \in 7 .. Len(v) - 1
  BY <1>1, <1>5, <1>6
<1>8. \A i \in 6 .. Len(v) : i # dot => v[i] \in Digits
  BY <1>5 DEF validate_http_version
<1>9. SubSeq(v, 1, 5) = SubSeq(Version, 1, 5)
  BY VersionPrefix DEF validate_http_version
<1> QED
  BY <1>5, <1>7, <1>8, <1>9 DEF IsVersion

-----------------------------------------------------------------------------
(* The inductive invariant                                                 *)

(* What the loops before the current one have established.  The loop over  *)
(* the path may be reached without a method only at the end of the text.   *)
Loops ==
  /\ pc = "method" => path = <<>>
  /\ pc = "path" => method \in Methods \/ (path = <<>> /\ request_line = <<>>)
  /\ pc \in {"version", "line"} => method \in Methods /\ path # <<>>
  /\ pc = "line" => IsVersion(HTTP_version)

Inv == TypeOK /\ Loops /\ ValidHasPath

LocalTypes ==
  /\ method \in Text /\ path \in Text /\ HTTP_version \in Text /\ line \in Text
  /\ HeadersOK(headers) /\ body \in Text

(* What a request that is returned has to be.                              *)
GoodRequest(r) ==
  /\ r.valid \in BOOLEAN /\ r.method \in Methods \cup {<<>>}
  /\ r.path \in Text /\ r.http_version \in Text /\ r.body \in Text
  /\ r.valid <=> r.path # <<>>
  /\ IsVersion(r.http_version)

LEMMA InvalidGood == GoodRequest(invalid_request)
<1>1. Version \in Text
  BY DEF Version, Text, Chars, Digits
<1>2. <<>> \in Text
  BY DEF Text
<1>3. /\ invalid_request.valid = FALSE /\ invalid_request.method = <<>>
      /\ invalid_request.path = <<>> /\ invalid_request.body = <<>>
      /\ invalid_request.http_version = Version
  BY DEF invalid_request, request
<1> QED
  BY <1>1, <1>2, <1>3, VersionIsVersion DEF GoodRequest

LEMMA TypeParts ==
  /\ TypeOK <=> /\ stream \in Text /\ data_copy \in Text /\ request_line \in Text
                /\ pc \in {"idle", "method", "path", "version", "line"}
                /\ LocalTypes
                /\ req.valid \in BOOLEAN /\ req.method \in Methods \cup {<<>>}
                /\ req.path \in Text /\ req.http_version \in Text /\ req.body \in Text
  BY DEF TypeOK, LocalTypes, HeadersOK

LEMMA InvParts ==
  Inv <=> /\ stream \in Text /\ data_copy \in Text /\ request_line \in Text
          /\ pc \in {"idle", "method", "path", "version", "line"}
          /\ LocalTypes /\ Loops /\ GoodRequest(req)
  BY TypeParts DEF Inv, GoodRequest, ValidHasPath

LEMMA InvPrimed ==
  ASSUME stream' \in Text, data_copy' \in Text, request_line' \in Text,
         pc' \in {"idle", "method", "path", "version", "line"},
         LocalTypes', Loops', GoodRequest(req')
  PROVE  Inv'
  BY DEF Inv, TypeOK, LocalTypes, HeadersOK, GoodRequest, ValidHasPath

LEMMA InitInv == Init => Inv
<1> SUFFICES ASSUME Init PROVE Inv
  OBVIOUS
<1>1. <<>> \in Text /\ stream \in Text
  BY StreamAssumption DEF Init, Text
<1>2. HeadersOK(headers)
  BY DEF Init, HeadersOK, NoHeaders
<1>3. LocalTypes
  BY <1>1, <1>2 DEF Init, LocalTypes
<1>4. GoodRequest(req)
  BY InvalidGood DEF Init
<1> QED
  BY <1>1, <1>3, <1>4, InvParts DEF Init, Loops

(* A character of the text, and the rest of it.                            *)
LEMMA CharType ==
  ASSUME NEW s \in Text, s # <<>>
  PROVE  Head(s) \in Chars /\ From(s, 2) \in Text /\ Len(s) \in Nat /\ Len(s) >= 1
<1>1. Len(s) \in Nat /\ Len(s) >= 1 /\ Head(s) \in Chars
  BY DEF Text
<1>2. 2 \in 1 .. Len(s) + 1
  BY <1>1
<1> QED
  BY <1>1, <1>2, FromType

LEMMA AdvanceType ==
  ASSUME request_line \in Text, request_line # <<>>
  PROVE  Head(request_line) \in Chars /\ (Advance(1) => request_line' \in Text)
<1>1. 1 + 1 = 2
  OBVIOUS
<1>2. Advance(1) => request_line' = From(request_line, 2)
  BY <1>1 DEF Advance
<1> QED
  BY <1>2, CharType

LEMMA HandleReadInv ==
  ASSUME Inv, handle_read
  PROVE  Inv'
<1>1. PICK n \in 1 .. Len(stream) :
        /\ data_copy' = SubSeq(stream, 1, n)
        /\ request_line' = CString(SubSeq(stream, 1, n))
        /\ stream' = From(stream, n + 1)
  BY DEF handle_read
<1>2. stream \in Text /\ Len(stream) \in Nat /\ <<>> \in Text
  BY InvParts DEF Text
<1>3. n \in 1 - 1 .. Len(stream) /\ 1 \in 1 .. Len(stream) + 1 /\ n + 1 \in 1 .. Len(stream) + 1
  BY <1>2
<1>4. data_copy' \in Text /\ stream' \in Text
  BY <1>1, <1>2, <1>3, PieceType, FromType
<1>5. request_line' \in Text
  BY <1>1, <1>4, CStringType
<1>6. HeadersOK(headers')
  BY DEF handle_read, HeadersOK, NoHeaders
<1>7. LocalTypes'
  BY <1>2, <1>6 DEF handle_read, LocalTypes
<1>8. pc' = "method" /\ req' = req
  BY DEF handle_read
<1>9. Loops'
  BY <1>8 DEF Loops, handle_read
<1>10. GoodRequest(req')
  BY <1>8, InvParts
<1> QED
  BY <1>4, <1>5, <1>7, <1>8, <1>9, <1>10, InvPrimed

LEMMA MethodCharInv ==
  ASSUME Inv, method_char
  PROVE  Inv'
<1>1. /\ stream \in Text /\ data_copy \in Text /\ request_line \in Text
      /\ LocalTypes /\ GoodRequest(req) /\ path = <<>>
      /\ UNCHANGED <<stream, data_copy, path, HTTP_version, line, headers, body>>
  BY InvParts DEF method_char, Loops
<1>2. CASE AtChar /\ method' = Append(method, Head(request_line)) /\ Advance(1) /\ Goto("method")
  <2>1. Head(request_line) \in Chars /\ request_line' \in Text
    BY <1>1, <1>2, AdvanceType DEF AtChar
  <2>2. method' \in Text
    BY <1>1, <1>2, <2>1 DEF LocalTypes, Text
  <2>3. LocalTypes'
    BY <1>1, <2>2 DEF LocalTypes, HeadersOK
  <2>4. Loops' /\ GoodRequest(req') /\ pc' = "method"
    BY <1>1, <1>2 DEF Loops, Goto
  <2> QED
    BY <1>1, <2>1, <2>3, <2>4, InvPrimed
<1>3. CASE /\ AtSpace /\ Advance(1) /\ UNCHANGED method
           /\ IF Supported(method) THEN Goto("path") ELSE Return(invalid_request)
  <2>1. request_line' \in Text
    BY <1>1, <1>3, AdvanceType DEF AtSpace
  <2>2. LocalTypes'
    BY <1>1, <1>3 DEF LocalTypes, HeadersOK
  <2>3. CASE Supported(method)
    <3>1. pc' = "path" /\ req' = req /\ method' \in Methods
      BY <1>3, <2>3 DEF Goto, Supported
    <3>2. Loops'
      BY <3>1 DEF Loops
    <3> QED
      BY <1>1, <2>1, <2>2, <3>1, <3>2, InvPrimed
  <2>4. CASE ~Supported(method)
    <3>1. pc' = "idle" /\ GoodRequest(req')
      BY <1>3, <2>4, InvalidGood DEF Return
    <3>2. Loops'
      BY <3>1 DEF Loops
    <3> QED
      BY <1>1, <2>1, <2>2, <3>1, <3>2, InvPrimed
  <2> QED
    BY <2>3, <2>4
<1>4. CASE AtEnd /\ Goto("path") /\ UNCHANGED <<method, request_line>>
  <2>1. request_line' = <<>> /\ pc' = "path" /\ req' = req
    BY <1>4 DEF AtEnd, Goto
  <2>2. LocalTypes' /\ request_line' \in Text
    BY <1>1, <1>4 DEF LocalTypes, HeadersOK
  <2>3. Loops'
    BY <1>1, <2>1 DEF Loops
  <2> QED
    BY <1>1, <2>1, <2>2, <2>3, InvPrimed
<1> QED
  BY <1>2, <1>3, <1>4 DEF method_char

LEMMA PathCharInv ==
  ASSUME Inv, path_char
  PROVE  Inv'
<1>1. /\ stream \in Text /\ data_copy \in Text /\ request_line \in Text
      /\ LocalTypes /\ GoodRequest(req)
      /\ method \in Methods \/ (path = <<>> /\ request_line = <<>>)
      /\ UNCHANGED <<stream, data_copy, method, HTTP_version, line, headers, body>>
  BY InvParts DEF path_char, Loops
<1>2. CASE AtChar /\ path' = Append(path, Head(request_line)) /\ Advance(1) /\ Goto("path")
  <2>1. Head(request_line) \in Chars /\ request_line' \in Text
    BY <1>1, <1>2, AdvanceType DEF AtChar
  <2>2. path' \in Text
    BY <1>1, <1>2, <2>1 DEF LocalTypes, Text
  <2>3. LocalTypes'
    BY <1>1, <2>2 DEF LocalTypes, HeadersOK
  <2>4. Loops' /\ GoodRequest(req') /\ pc' = "path"
    BY <1>1, <1>2 DEF Loops, Goto, AtChar
  <2> QED
    BY <1>1, <2>1, <2>3, <2>4, InvPrimed
<1>3. CASE /\ (AtSpace /\ Advance(1)) \/ (AtEnd /\ UNCHANGED request_line)
           /\ UNCHANGED path
           /\ IF HasPath THEN Goto("version") ELSE Return(invalid_request)
  <2>1. request_line' \in Text
    BY <1>1, <1>3, AdvanceType DEF AtSpace
  <2>2. LocalTypes'
    BY <1>1, <1>3 DEF LocalTypes, HeadersOK
  <2>3. CASE HasPath
    <3>1. pc' = "version" /\ req' = req /\ method' \in Methods /\ path' # <<>>
      BY <1>1, <1>3, <2>3 DEF Goto, HasPath
    <3>2. Loops'
      BY <3>1 DEF Loops
    <3> QED
      BY <1>1, <2>1, <2>2, <3>1, <3>2, InvPrimed
  <2>4. CASE ~HasPath
    <3>1. pc' = "idle" /\ GoodRequest(req')
      BY <1>3, <2>4, InvalidGood DEF Return
    <3>2. Loops'
      BY <3>1 DEF Loops
    <3> QED
      BY <1>1, <2>1, <2>2, <3>1, <3>2, InvPrimed
  <2> QED
    BY <2>3, <2>4
<1>4. \/ AtChar /\ path' = Append(path, Head(request_line)) /\ Advance(1) /\ Goto("path")
      \/ /\ (AtSpace /\ Advance(1)) \/ (AtEnd /\ UNCHANGED request_line)
         /\ UNCHANGED path
         /\ IF HasPath THEN Goto("version") ELSE Return(invalid_request)
  BY Zenon DEF path_char
<1> QED
  BY <1>2, <1>3, <1>4

(* The later loops look at two characters.                                 *)
LEMMA TwoChars ==
  ASSUME request_line \in Text, More
  PROVE  /\ Head(request_line) \in Chars
         /\ From(request_line, 2) \in Text /\ From(request_line, 3) \in Text
<1>1. request_line # <<>> /\ Len(request_line) \in Nat /\ 3 \in 1 .. Len(request_line) + 1
  BY DEF More, Text
<1> QED
  BY <1>1, CharType, FromType

LEMMA VersionCharInv ==
  ASSUME Inv, version_char
  PROVE  Inv'
<1>1. /\ stream \in Text /\ data_copy \in Text /\ request_line \in Text
      /\ LocalTypes /\ GoodRequest(req) /\ method \in Methods /\ path # <<>>
      /\ UNCHANGED <<stream, data_copy, method, path, line, headers, body>>
  BY InvParts DEF version_char, Loops
<1>2. CASE /\ VersionEnds /\ Advance(2) /\ UNCHANGED HTTP_version
           /\ IF validate_http_version(HTTP_version)
                THEN Goto("line") ELSE Return(invalid_request)
  <2>1. request_line' \in Text
    BY <1>1, <1>2, TwoChars DEF VersionEnds, AtCRLF, Advance
  <2>2. LocalTypes'
    BY <1>1, <1>2 DEF LocalTypes, HeadersOK
  <2>3. CASE validate_http_version(HTTP_version)
    <3>1. pc' = "line" /\ req' = req
      BY <1>2, <2>3 DEF Goto
    <3>2. IsVersion(HTTP_version)
      BY <1>1, <2>3, ValidatedVersion DEF LocalTypes
    <3>3. IsVersion(HTTP_version')
      BY <1>2, <3>2
    <3>4. Loops'
      BY <1>1, <3>1, <3>3 DEF Loops
    <3> QED
      BY <1>1, <2>1, <2>2, <3>1, <3>4, InvPrimed
  <2>4. CASE ~validate_http_version(HTTP_version)
    <3>1. pc' = "idle" /\ GoodRequest(req')
      BY <1>2, <2>4, InvalidGood DEF Return
    <3>2. Loops'
      BY <3>1 DEF Loops
    <3> QED
      BY <1>1, <2>1, <2>2, <3>1, <3>2, InvPrimed
  <2> QED
    BY <2>3, <2>4
<1>3. CASE /\ More /\ HTTP_version' = Append(HTTP_version, Head(request_line))
           /\ Advance(1) /\ Goto("version")
  <2>1. Head(request_line) \in Chars /\ request_line' \in Text
    BY <1>1, <1>3, TwoChars DEF Advance
  <2>2. HTTP_version' \in Text
    BY <1>1, <1>3, <2>1 DEF LocalTypes, Text
  <2>3. LocalTypes'
    BY <1>1, <2>2 DEF LocalTypes, HeadersOK
  <2>4. Loops' /\ GoodRequest(req') /\ pc' = "version"
    BY <1>1, <1>3 DEF Loops, Goto
  <2> QED
    BY <1>1, <2>1, <2>3, <2>4, InvPrimed
<1>4. CASE Return(invalid_request) /\ UNCHANGED <<HTTP_version, request_line>>
  <2>1. pc' = "idle" /\ GoodRequest(req') /\ request_line' \in Text
    BY <1>1, <1>4, InvalidGood DEF Return
  <2>2. LocalTypes'
    BY <1>1, <1>4 DEF LocalTypes, HeadersOK
  <2>3. Loops'
    BY <2>1 DEF Loops
  <2> QED
    BY <1>1, <2>1, <2>2, <2>3, InvPrimed
<1> QED
  BY <1>2, <1>3, <1>4 DEF version_char

LEMMA HeaderCharInv ==
  ASSUME Inv, header_char
  PROVE  Inv'
<1>1. /\ stream \in Text /\ data_copy \in Text /\ request_line \in Text
      /\ LocalTypes /\ GoodRequest(req) /\ method \in Methods /\ path # <<>>
      /\ IsVersion(HTTP_version)
      /\ UNCHANGED <<stream, data_copy, method, path, HTTP_version>>
  BY InvParts DEF header_char, Loops
<1>2. pc' = "line" => Loops'
  BY <1>1 DEF Loops
<1>3. ASSUME NEW h, NEW b \in Text
      PROVE  GoodRequest(request(TRUE, method, path, HTTP_version, h, b))
  BY <1>1 DEF GoodRequest, request, LocalTypes
<1>4. HeadersOK(Header(headers, line)) /\ <<>> \in Text
  <2>1. HeadersOK(headers) /\ line \in Text /\ <<>> \in Text
    BY <1>1 DEF LocalTypes, Text
  <2> QED
    BY <2>1, HeaderType
<1>5. CASE /\ More /\ line' = Append(line, Head(request_line))
           /\ Advance(1) /\ Goto("line") /\ UNCHANGED <<headers, body>>
  <2>1. Head(request_line) \in Chars /\ request_line' \in Text
    BY <1>1, <1>5, TwoChars DEF Advance
  <2>2. line' \in Text
    BY <1>1, <1>5, <2>1 DEF LocalTypes, Text
  <2>3. LocalTypes'
    BY <1>1, <1>5, <2>2 DEF LocalTypes, HeadersOK
  <2> QED
    BY <1>1, <1>2, <1>5, <2>1, <2>3, InvPrimed DEF Goto
<1>6. CASE /\ AtCRLF /\ headers' = Header(headers, line) /\ line' = <<>>
           /\ Advance(2) /\ Goto("line") /\ UNCHANGED body
  <2>1. request_line' \in Text
    BY <1>1, <1>6, TwoChars DEF AtCRLF, Advance
  <2>2. HeadersOK(headers')
    BY <1>4, <1>6
  <2>3. LocalTypes'
    BY <1>1, <1>4, <1>6, <2>2 DEF LocalTypes
  <2> QED
    BY <1>1, <1>2, <1>6, <2>1, <2>3, InvPrimed DEF Goto
<1>7. CASE /\ AtCRLF /\ Advance(2) /\ body' = From(request_line, 3)
           /\ Valid(From(request_line, 3)) /\ UNCHANGED <<line, headers>>
  <2>1. request_line' \in Text /\ body' \in Text /\ From(request_line, 3) \in Text
    BY <1>1, <1>7, TwoChars DEF AtCRLF, Advance
  <2>2. LocalTypes'
    BY <1>1, <1>7, <2>1 DEF LocalTypes, HeadersOK
  <2>3. pc' = "idle" /\ GoodRequest(req')
    BY <1>3, <1>7, <2>1 DEF Valid, Return
  <2>4. Loops'
    BY <2>3 DEF Loops
  <2> QED
    BY <1>1, <2>1, <2>2, <2>3, <2>4, InvPrimed
<1>8. CASE /\ headers' = Header(headers, line) /\ line' = <<>>
           /\ Return(request(TRUE, method, path, HTTP_version, headers', body))
           /\ UNCHANGED <<request_line, body>>
  <2>1. HeadersOK(headers')
    BY <1>4, <1>8
  <2>2. LocalTypes'
    BY <1>1, <1>4, <1>8, <2>1 DEF LocalTypes
  <2>3. pc' = "idle" /\ GoodRequest(req')
    BY <1>1, <1>3, <1>8 DEF Return, LocalTypes
  <2>4. Loops'
    BY <2>3 DEF Loops
  <2> QED
    BY <1>1, <1>8, <2>2, <2>3, <2>4, InvPrimed
<1> QED
  BY <1>5, <1>6, <1>7, <1>8 DEF header_char

-----------------------------------------------------------------------------
(* The theorems                                                            *)

LEMMA StepInv ==
  ASSUME Inv, [Next]_vars
  PROVE  Inv'
<1>1. CASE UNCHANGED vars
  <2>1. LocalTypes' /\ Loops'
    BY <1>1, InvParts DEF vars, locals, LocalTypes, HeadersOK, Loops
  <2> QED
    BY <1>1, <2>1, InvParts, InvPrimed DEF vars
<1> QED
  BY <1>1, HandleReadInv, MethodCharInv, PathCharInv, VersionCharInv, HeaderCharInv
     DEF Next, parse_request_line

LEMMA Invariance == Spec => []Inv
  BY InitInv, StepInv, PTL DEF Spec

(* Type correctness of the request parser, for all that a peer may send.   *)
THEOREM RequestTypes == Spec => []TypeOK
<1>1. Inv => TypeOK
  BY DEF Inv
<1> QED
  BY <1>1, Invariance, PTL

(* Whatever bytes arrive and however they are cut into reads, a request is *)
(* valid iff it has a path, and has a version that a reply can carry.      *)
THEOREM RequestsUsable == Spec => []ValidHasPath
<1>1. Inv => ValidHasPath
  BY DEF Inv
<1> QED
  BY <1>1, Invariance, PTL

-----------------------------------------------------------------------------
(* Where the parser is in its text                                         *)

(* rest is what is left of t at q, piece what has been read since a.       *)
Scanned(t, a, q, rest, piece) ==
  /\ q \in 1 .. Len(t) + 1 /\ a \in 1 .. q
  /\ rest = From(t, q) /\ piece = SubSeq(t, a, q - 1)

NoSpace(t, a, b) == \A n \in a .. b : t[n] # "sp"

FirstSpace(t, a, i) == i \in a .. Len(t) /\ t[i] = "sp" /\ NoSpace(t, a, i - 1)

NoEnd(t, a, b) == \A e \in CRLFs(t) : ~(a <= e /\ e <= b)

FirstEnd(t, a, k) == k \in CRLFs(t) /\ a <= k /\ NoEnd(t, a, k - 1)

(* The loops, with the values of request_line (rl), method (m), path (p),  *)
(* HTTP_version (v), line (ln) and headers (h).                            *)
InMethod(t, rl, m) ==
  \E q \in 1 .. Len(t) + 1 : Scanned(t, 1, q, rl, m) /\ NoSpace(t, 1, q - 1)

PathAt(t, i, q, rl, m, p) ==
  /\ FirstSpace(t, 1, i) /\ m = SubSeq(t, 1, i - 1) /\ m \in Methods
  /\ Scanned(t, i + 1, q, rl, p) /\ NoSpace(t, i + 1, q - 1)

InPath(t, rl, m, p) ==
  \/ rl = <<>> /\ p = <<>> /\ NoSpace(t, 1, Len(t))
  \/ \E i, q \in 1 .. Len(t) + 1 : PathAt(t, i, q, rl, m, p)

VersionAt(t, i, j, q, rl, m, p, v) ==
  /\ FirstSpace(t, 1, i) /\ m = SubSeq(t, 1, i - 1) /\ m \in Methods
  /\ FirstSpace(t, i + 1, j) /\ p = SubSeq(t, i + 1, j - 1) /\ p # <<>>
  /\ Scanned(t, j + 1, q, rl, v) /\ NoEnd(t, j + 1, q - 1)

InVersion(t, rl, m, p, v) ==
  \/ /\ rl = <<>>
     /\ \E i \in 1 .. Len(t) : FirstSpace(t, 1, i) /\ NoSpace(t, i + 1, Len(t))
  \/ \E i, j, q \in 1 .. Len(t) + 1 : VersionAt(t, i, j, q, rl, m, p, v)

(* The map h has, for each name, the value of the last line of S.          *)
HeadersOf(r, S, h) ==
  /\ DOMAIN h = {HeaderName(LineAt(r, x)) : x \in S}
  /\ h = [n \in DOMAIN h |-> h[n]]
  /\ \A n \in DOMAIN h : \E x \in S :
       /\ HeaderName(LineAt(r, x)) = n
       /\ \A y \in S : HeaderName(LineAt(r, y)) = n => y <= x
       /\ h[n] = HeaderValue(LineAt(r, x))

LinesBefore(r, s) == {x \in HeaderLines(r) : x < s}

(* In the line that starts at s of the rest r of a text.                   *)
LineAtPos(r, s, q, rl, ln, h) ==
  /\ s \in LineStarts(r) /\ Scanned(r, s, q, rl, ln) /\ NoEnd(r, s, q - 1)
  /\ q > Len(r) => s = q
  /\ \A e \in LineStarts(r) \cap CRLFs(r) : s <= e
  /\ HeadersOf(r, LinesBefore(r, s), h)

InLine(t, rl, m, p, v, ln, h) ==
  \E l \in RequestLines(t) :
    /\ m = SubSeq(t, 1, l.sp1 - 1) /\ p = SubSeq(t, l.sp1 + 1, l.sp2 - 1)
    /\ v = SubSeq(t, l.sp2 + 1, l.end - 1)
    /\ \E s, q : LineAtPos(From(t, l.end + 2), s, q, rl, ln, h)

ParseAt(t) ==
  /\ pc = "method" => InMethod(t, request_line, method) /\ path = <<>>
  /\ pc = "path" => InPath(t, request_line, method, path)
  /\ pc \in {"method", "path"} => HTTP_version = <<>>
  /\ pc = "version" => InVersion(t, request_line, method, path, HTTP_version)
  /\ pc \in {"method", "path", "version"} => line = <<>> /\ headers = NoHeaders
  /\ pc = "line" => InLine(t, request_line, method, path, HTTP_version, line, headers)
  /\ pc # "idle" => body = <<>>
  /\ Answered => req = Parsed(t)

ParseInv == ParseAt(CString(data_copy))

LEMMA TextIs ==
  ASSUME NEW t \in Text
  PROVE  Len(t) \in Nat /\ DOMAIN t = 1 .. Len(t) /\ \A n \in 1 .. Len(t) : t[n] \in Chars
  BY DEF Text

LEMMA PieceIs ==
  ASSUME NEW t \in Text, NEW m \in 1 .. Len(t) + 1, NEW n \in m - 1 .. Len(t)
  PROVE  /\ SubSeq(t, m, n) \in Text /\ Len(SubSeq(t, m, n)) = n - m + 1
         /\ \A k \in 1 .. n - m + 1 : SubSeq(t, m, n)[k] = t[m + k - 1]
<1>1. Len(t) \in Nat /\ m \in Int /\ n \in Int /\ \A i \in m .. n : t[i] \in Chars
  BY TextIs
<1>2. /\ SubSeq(t, m, n) \in Seq(Chars)
      /\ Len(SubSeq(t, m, n)) = IF m <= n THEN n - m + 1 ELSE 0
      /\ \A k \in 1 .. n - m + 1 : SubSeq(t, m, n)[k] = t[m + k - 1]
  BY <1>1, SubSeqProperties
<1>3. (IF m <= n THEN n - m + 1 ELSE 0) = n - m + 1
  BY <1>1
<1> QED
  BY <1>2, <1>3 DEF Text

LEMMA FromIs ==
  ASSUME NEW t \in Text, NEW q \in 1 .. Len(t) + 1
  PROVE  /\ From(t, q) \in Text /\ Len(From(t, q)) = Len(t) - q + 1
         /\ \A k \in 1 .. Len(t) - q + 1 : From(t, q)[k] = t[q + k - 1]
<1>1. Len(t) \in q - 1 .. Len(t) /\ Len(t) \in Nat
  BY TextIs
<1> QED
  BY <1>1, PieceIs DEF From

LEMMA SameText ==
  ASSUME NEW s \in Text, NEW t \in Text, Len(s) = Len(t),
         \A k \in 1 .. Len(s) : s[k] = t[k]
  PROVE  s = t
  BY SeqEqual DEF Text

(* The rest of a rest.                                                     *)
LEMMA FromFrom ==
  ASSUME NEW t \in Text, NEW q \in 1 .. Len(t) + 1, NEW n \in 1 .. Len(t) - q + 2
  PROVE  From(From(t, q), n) = From(t, q + n - 1)
<1>1. PICK len \in Nat : len = Len(t)
  BY TextIs
<1>2. PICK u : u = From(t, q)
  OBVIOUS
<1>3. u \in Text /\ Len(u) = len - q + 1 /\ \A k \in 1 .. len - q + 1 : u[k] = t[q + k - 1]
  BY <1>1, <1>2, FromIs
<1>4. n \in 1 .. Len(u) + 1 /\ q + n - 1 \in 1 .. Len(t) + 1
  BY <1>1, <1>3
<1>5. /\ From(u, n) \in Text /\ Len(From(u, n)) = Len(u) - n + 1
      /\ \A k \in 1 .. Len(u) - n + 1 : From(u, n)[k] = u[n + k - 1]
  BY <1>3, <1>4, FromIs
<1>6. /\ From(t, q + n - 1) \in Text /\ Len(From(t, q + n - 1)) = len - (q + n - 1) + 1
      /\ \A k \in 1 .. len - (q + n - 1) + 1 : From(t, q + n - 1)[k] = t[q + n - 1 + k - 1]
  BY <1>1, <1>4, FromIs
<1>7. len - (q + n - 1) + 1 = (len - q + 1) - n + 1
  BY <1>1
<1>8. ASSUME NEW k \in 1 .. len - q + 1 - n + 1
      PROVE  From(u, n)[k] = From(t, q + n - 1)[k]
  <2>1. From(u, n)[k] = u[n + k - 1]
    BY <1>3, <1>5
  <2>2. n + k - 1 \in 1 .. len - q + 1
    BY <1>1
  <2>3. u[n + k - 1] = t[q + (n + k - 1) - 1]
    BY <1>3, <2>2
  <2>4. From(t, q + n - 1)[k] = t[q + n - 1 + k - 1]
    BY <1>6, <1>7
  <2>5. q + (n + k - 1) - 1 = q + n - 1 + k - 1
    BY <1>1
  <2> QED
    BY <2>1, <2>3, <2>4, <2>5
<1>9. PICK x, y : x = From(u, n) /\ y = From(t, q + n - 1)
  OBVIOUS
<1>10. x \in Text /\ y \in Text /\ Len(x) = Len(y) /\ \A k \in 1 .. Len(x) : x[k] = y[k]
  BY <1>3, <1>5, <1>6, <1>7, <1>8, <1>9
<1> QED
  BY <1>2, <1>9, <1>10, SameText

(* Taking one more character.                                              *)
LEMMA PieceAppend ==
  ASSUME NEW t \in Text, NEW q \in 1 .. Len(t), NEW a \in 1 .. q
  PROVE  Append(SubSeq(t, a, q - 1), t[q]) = SubSeq(t, a, q)
<1>1. PICK len \in Nat : len = Len(t)
  BY TextIs
<1>2. a \in 1 .. Len(t) + 1 /\ q - 1 \in a - 1 .. Len(t) /\ q \in a - 1 .. Len(t)
  BY <1>1
<1>3. PICK u : u = SubSeq(t, a, q - 1)
  OBVIOUS
<1>4. u \in Text /\ Len(u) = q - 1 - a + 1 /\ \A k \in 1 .. q - 1 - a + 1 : u[k] = t[a + k - 1]
  BY <1>2, <1>3, PieceIs
<1>5. PICK w : w = SubSeq(t, a, q)
  OBVIOUS
<1>6. w \in Text /\ Len(w) = q - a + 1 /\ \A k \in 1 .. q - a + 1 : w[k] = t[a + k - 1]
  BY <1>2, <1>5, PieceIs
<1>7. t[q] \in Chars
  BY TextIs
<1>8. PICK v : v = Append(u, t[q])
  OBVIOUS
<1>9. /\ v \in Text /\ Len(v) = Len(u) + 1 /\ v[Len(u) + 1] = t[q]
      /\ \A k \in 1 .. Len(u) : v[k] = u[k]
  BY <1>4, <1>7, <1>8 DEF Text
<1>10. Len(v) = Len(w)
  BY <1>1, <1>4, <1>6, <1>9
<1>11. ASSUME NEW k \in 1 .. Len(v) PROVE v[k] = w[k]
  <2>0. k \in 1 .. q - a + 1
    BY <1>6, <1>10
  <2>1. w[k] = t[a + k - 1]
    BY <1>6, <2>0
  <2>4. k \in Nat /\ a \in Nat /\ q \in Nat
    BY <1>1, <2>0
  <2>2. CASE k = q - a + 1
    <3>1. k = Len(u) + 1 /\ a + k - 1 = q
      BY <1>4, <2>2, <2>4
    <3> QED
      BY <1>9, <2>1, <3>1
  <2>3. CASE k # q - a + 1
    <3>1. k \in 1 .. q - 1 - a + 1
      BY <2>0, <2>3, <2>4
    <3>2. k \in 1 .. Len(u)
      BY <1>4, <3>1
    <3> QED
      BY <1>4, <1>9, <2>1, <3>1, <3>2
  <2> QED
    BY <2>2, <2>3
<1> QED
  BY <1>3, <1>5, <1>8, <1>6, <1>9, <1>10, <1>11, SameText

LEMMA EmptyPiece ==
  ASSUME NEW t \in Text, NEW q \in Nat
  PROVE  SubSeq(t, q, q - 1) = <<>>
  BY SubSeqEmpty

(* What a loop looks at.                                                   *)
LEMMA ScanFacts ==
  ASSUME NEW t \in Text, NEW a, NEW q, NEW rest, NEW piece, Scanned(t, a, q, rest, piece)
  PROVE  /\ Len(t) \in Nat /\ q \in 1 .. Len(t) + 1 /\ a \in 1 .. q /\ q \in Nat /\ a \in Nat
         /\ rest \in Text /\ Len(rest) = Len(t) - q + 1
         /\ rest = <<>> => q = Len(t) + 1
         /\ rest # <<>> => q \in 1 .. Len(t) /\ Head(rest) = t[q]
         /\ Len(rest) > 1 => q + 1 \in 1 .. Len(t) /\ rest[1] = t[q] /\ rest[2] = t[q + 1]
                             /\ rest # <<>>
         /\ ~(Len(rest) > 1) => q >= Len(t)
<1>1. PICK len \in Nat : len = Len(t)
  BY TextIs
<1>2. q \in 1 .. Len(t) + 1 /\ a \in 1 .. q /\ rest = From(t, q)
  BY DEF Scanned
<1>3. q \in Nat /\ a \in Nat /\ q <= len + 1 /\ q >= 1
  BY <1>1, <1>2
<1>4. /\ rest \in Text /\ Len(rest) = len - q + 1
      /\ \A k \in 1 .. len - q + 1 : rest[k] = t[q + k - 1]
  BY <1>1, <1>2, FromIs
<1>5. rest = <<>> => q = len + 1
  <2>1. rest = <<>> => Len(rest) = 0
    OBVIOUS
  <2> QED
    BY <1>1, <1>3, <1>4, <2>1
<1>6. ASSUME rest # <<>> PROVE q \in 1 .. len /\ Head(rest) = t[q]
  <2>1. Len(rest) # 0 /\ Head(rest) = rest[1]
    BY <1>4, <1>6 DEF Text
  <2>2. 1 \in 1 .. len - q + 1 /\ q + 1 - 1 = q /\ q \in 1 .. len
    BY <1>3, <1>4, <2>1
  <2> QED
    BY <1>4, <2>1, <2>2
<1>7. ASSUME Len(rest) > 1
      PROVE  q + 1 \in 1 .. len /\ rest[1] = t[q] /\ rest[2] = t[q + 1] /\ rest # <<>>
  <2>1. /\ 1 \in 1 .. len - q + 1 /\ q + 1 - 1 = q /\ q + 1 \in 1 .. len
        /\ 2 \in 1 .. len - q + 1 /\ q + 2 - 1 = q + 1
    BY <1>3, <1>4, <1>7
  <2>2. rest # <<>>
    BY <1>7
  <2> QED
    BY <1>4, <2>1, <2>2
<1>8. ~(Len(rest) > 1) => q >= len
  BY <1>3, <1>4
<1> QED
  BY <1>1, <1>2, <1>3, <1>4, <1>5, <1>6, <1>7, <1>8

LEMMA ScanTwo ==
  ASSUME NEW t \in Text, NEW a, NEW q, NEW rest, NEW piece, Scanned(t, a, q, rest, piece),
         Len(rest) > 1
  PROVE  /\ Len(t) \in Nat /\ q + 1 \in 1 .. Len(t) /\ q \in Nat /\ a \in 1 .. q
         /\ rest[1] = t[q] /\ rest[2] = t[q + 1]
  BY ScanFacts

LEMMA ScanStart ==
  ASSUME NEW t \in Text
  PROVE  Scanned(t, 1, 1, t, <<>>)
<1>1. Len(t) \in Nat /\ 1 \in 1 .. Len(t) + 1 /\ 1 \in 1 .. 1
  BY TextIs
<1>2. SubSeq(t, 1, 1 - 1) = <<>>
  BY EmptyPiece
<1>3. From(t, 1) = t
  BY DEF From, Text
<1> QED
  BY <1>1, <1>2, <1>3 DEF Scanned

LEMMA ScanOn ==
  ASSUME NEW t \in Text, NEW a, NEW q, NEW rest, NEW piece, Scanned(t, a, q, rest, piece),
         rest # <<>>
  PROVE  /\ Scanned(t, a, q + 1, From(rest, 2), Append(piece, Head(rest)))
         /\ Scanned(t, q + 1, q + 1, From(rest, 2), <<>>)
<1>1. Len(t) \in Nat /\ q \in 1 .. Len(t) /\ a \in 1 .. q /\ Head(rest) = t[q] /\ q \in Nat
  BY ScanFacts
<1>2. From(rest, 2) = From(t, q + 1)
  <2>1. q \in 1 .. Len(t) + 1 /\ 2 \in 1 .. Len(t) - q + 2 /\ q + 2 - 1 = q + 1
    BY <1>1
  <2>2. rest = From(t, q)
    BY DEF Scanned
  <2> QED
    BY <2>1, <2>2, FromFrom
<1>3. Append(piece, Head(rest)) = SubSeq(t, a, q)
  BY <1>1, PieceAppend DEF Scanned
<1>4. q + 1 \in 1 .. Len(t) + 1 /\ a \in 1 .. q + 1 /\ q + 1 - 1 = q /\ q + 1 \in 1 .. q + 1
  BY <1>1
<1>5. SubSeq(t, q + 1, q + 1 - 1) = <<>>
  BY <1>1, EmptyPiece
<1> QED
  BY <1>2, <1>3, <1>4, <1>5 DEF Scanned

LEMMA ScanPast ==
  ASSUME NEW t \in Text, NEW a, NEW q, NEW rest, NEW piece, Scanned(t, a, q, rest, piece),
         Len(rest) > 1
  PROVE  Scanned(t, q + 2, q + 2, From(rest, 3), <<>>) /\ From(rest, 3) = From(t, q + 2)
<1>1. Len(t) \in Nat /\ q \in 1 .. Len(t) + 1 /\ q + 1 \in 1 .. Len(t) /\ q \in Nat
  BY ScanFacts
<1>2. From(rest, 3) = From(t, q + 2)
  <2>1. 3 \in 1 .. Len(t) - q + 2 /\ q + 3 - 1 = q + 2
    BY <1>1
  <2>2. rest = From(t, q)
    BY DEF Scanned
  <2> QED
    BY <1>1, <2>1, <2>2, FromFrom
<1>3. PICK z \in Nat : z = q + 2 /\ z \in 1 .. Len(t) + 1 /\ z \in 1 .. z
  BY <1>1
<1>4. SubSeq(t, z, z - 1) = <<>>
  BY EmptyPiece
<1>5. Scanned(t, z, z, From(rest, 3), <<>>)
  BY <1>2, <1>3, <1>4 DEF Scanned
<1> QED
  BY <1>2, <1>3, <1>5

-----------------------------------------------------------------------------
(* The request line                                                        *)

LEMMA VersionChars ==
  ASSUME NEW v \in Text, IsVersion(v)
  PROVE  Len(v) \in Nat /\ Len(v) >= 8 /\ \A k \in 1 .. Len(v) : v[k] # "cr"
<1>1. PICK dot \in 7 .. Len(v) - 1 :
        /\ SubSeq(v, 1, 5) = SubSeq(Version, 1, 5) /\ v[dot] = "."
        /\ \A i \in 6 .. Len(v) : i # dot => v[i] \in Digits
  BY DEF IsVersion
<1>2. Len(v) \in Nat /\ Len(v) >= 8
  BY <1>1, TextIs
<1>3. ASSUME NEW k \in 1 .. 5 PROVE v[k] # "cr"
  <2>1. 1 \in 1 .. Len(v) + 1 /\ 5 \in 1 - 1 .. Len(v) /\ 5 - 1 + 1 = 5
    BY <1>2
  <2>2. \A n \in 1 .. 5 : SubSeq(v, 1, 5)[n] = v[1 + n - 1]
    BY <2>1, PieceIs
  <2>3. SubSeq(v, 1, 5)[k] = v[k]
    BY <2>2
  <2>4. SubSeq(v, 1, 5) = <<"H", "T", "T", "P", "/">>
    BY <1>1, VersionPrefix
  <2>5. k = 1 \/ k = 2 \/ k = 3 \/ k = 4 \/ k = 5
    OBVIOUS
  <2>6. PICK w : w = SubSeq(v, 1, 5)
    OBVIOUS
  <2>7. w[1] = "H" /\ w[2] = "T" /\ w[3] = "T" /\ w[4] = "P" /\ w[5] = "/"
    <3>1. w = <<"H", "T", "T", "P", "/">>
      BY <2>4, <2>6
    <3> QED
      BY <3>1
  <2>8. v[k] = w[k]
    BY <2>3, <2>6
  <2> QED
    BY <2>5, <2>7, <2>8
<1>4. ASSUME NEW k \in 6 .. Len(v) PROVE v[k] # "cr"
  BY <1>1 DEF Digits
<1>5. \A k \in 1 .. Len(v) : k \in 1 .. 5 \/ k \in 6 .. Len(v)
  BY <1>2
<1> QED
  BY <1>2, <1>3, <1>4, <1>5

(* validate_http_version accepts every version.                            *)
LEMMA VersionValidated ==
  ASSUME NEW v \in Text, IsVersion(v)
  PROVE  validate_http_version(v)
<1>1. PICK dot \in 7 .. Len(v) - 1 :
        /\ SubSeq(v, 1, 5) = SubSeq(Version, 1, 5) /\ v[dot] = "."
        /\ \A i \in 6 .. Len(v) : i # dot => v[i] \in Digits
  BY DEF IsVersion
<1>2. PICK len \in Nat : len = Len(v) /\ len >= 8
  BY VersionChars
<1>3. 6 \in 6 .. len /\ 6 # dot /\ len \in 6 .. len /\ len # dot /\ dot \in 6 .. len
      /\ len > 5 /\ len >= 5
  BY <1>1, <1>2
<1>4. v[6] \in Digits /\ v[len] \in Digits
  BY <1>1, <1>2, <1>3
<1>5. "." \notin Digits
  BY DEF Digits
<1>6. \A i \in 6 .. len : v[i] \in Digits \cup {"."}
  BY <1>1, <1>2
<1>7. {i \in 6 .. len : v[i] = "."} = {dot}
  BY <1>1, <1>2, <1>3, <1>5
<1>8. Cardinality({i \in 6 .. len : v[i] = "."}) = 1
  BY <1>7, FS_Singleton
<1>9. v[len] # "."
  BY <1>4, <1>5
<1> QED
  BY <1>1, <1>2, <1>3, <1>4, <1>6, <1>8, <1>9, VersionPrefix DEF validate_http_version

LEMMA MethodIs ==
  ASSUME NEW t \in Text, NEW i \in 1 .. Len(t) + 1, SubSeq(t, 1, i - 1) \in Methods
  PROVE  i = 2 /\ t[1] # "sp"
<1>1. PICK len \in Nat : len = Len(t)
  BY TextIs
<1>2. 1 \in 1 .. Len(t) + 1 /\ i - 1 \in 1 - 1 .. Len(t) /\ i \in Int
  BY <1>1
<1>3. PICK m : m = SubSeq(t, 1, i - 1)
  OBVIOUS
<1>4. Len(m) = i - 1 - 1 + 1 /\ \A k \in 1 .. i - 1 - 1 + 1 : m[k] = t[1 + k - 1]
  BY <1>2, <1>3, PieceIs
<1>5. Len(m) = 1 /\ m[1] # "sp"
  <2>1. m = <<"GET">> \/ m = <<"POST">>
    BY <1>3 DEF Methods
  <2> QED
    BY <2>1
<1>6. i = 2
  <2>1. i - 1 - 1 + 1 = 1
    BY <1>4, <1>5
  <2> QED
    BY <1>2, <2>1
<1>7. m[1] = t[1]
  <2>1. 1 \in 1 .. i - 1 - 1 + 1 /\ 1 + 1 - 1 = 1
    BY <1>6
  <2> QED
    BY <1>4, <2>1
<1> QED
  BY <1>5, <1>6, <1>7

(* The first of its separators, from where each of them is looked for.     *)
LineParts(t, i, j, k) ==
  /\ FirstSpace(t, 1, i) /\ SubSeq(t, 1, i - 1) \in Methods
  /\ FirstSpace(t, i + 1, j) /\ j > i + 1
  /\ FirstEnd(t, j + 1, k) /\ IsVersion(SubSeq(t, j + 1, k - 1))

LEMMA EndIs ==
  ASSUME NEW t \in Text, NEW k \in CRLFs(t)
  PROVE  /\ Len(t) \in Nat /\ k \in 1 .. Len(t) /\ k + 1 \in 1 .. Len(t) /\ k \in Nat
         /\ k <= Len(t) - 1 /\ t[k] = "cr" /\ t[k + 1] = "lf"
<1>1. Len(t) \in Nat
  BY TextIs
<1> QED
  BY <1>1 DEF CRLFs

LEMMA LineFound ==
  ASSUME NEW t \in Text, NEW l \in RequestLines(t)
  PROVE  LineParts(t, l.sp1, l.sp2, l.end)
<1>1. PICK i, j, k : i = l.sp1 /\ j = l.sp2 /\ k = l.end
  OBVIOUS
<1>2. /\ i \in {2} \cap DOMAIN t /\ j \in 4 .. Len(t) /\ k \in CRLFs(t)
      /\ IsRequestLine(t, i, j, k)
  BY <1>1 DEF RequestLines
<1>3. PICK len \in Nat : len = Len(t) /\ DOMAIN t = 1 .. len
  BY TextIs
<1>4. i = 2 /\ i \in 1 .. len /\ j \in Nat /\ j > i + 1 /\ j \in i + 1 .. len
  BY <1>2, <1>3
<1>5. SubSeq(t, 1, i - 1) \in Methods
  BY <1>2 DEF IsRequestLine
<1>6. t[1] # "sp"
  <2>1. i \in 1 .. Len(t) + 1
    BY <1>3, <1>4
  <2> QED
    BY <1>5, <2>1, MethodIs
<1>7. FirstSpace(t, 1, i)
  <2>1. \A n \in 1 .. i - 1 : n = 1
    BY <1>4
  <2>2. NoSpace(t, 1, i - 1)
    BY <1>6, <2>1 DEF NoSpace
  <2>3. t[i] = "sp"
    BY <1>2 DEF IsRequestLine
  <2> QED
    BY <1>3, <1>4, <2>2, <2>3 DEF FirstSpace
<1>8. FirstSpace(t, i + 1, j)
  BY <1>2, <1>3, <1>4 DEF IsRequestLine, FirstSpace, NoSpace
<1>9. PICK v : v = SubSeq(t, j + 1, k - 1) /\ IsVersion(v)
  BY <1>2 DEF IsRequestLine
<1>10. k \in Nat /\ k <= len - 1 /\ k \in 1 .. len
  BY <1>2, <1>3, EndIs
<1>11. j + 1 <= k
  <2> SUFFICES ASSUME ~(j + 1 <= k) PROVE FALSE
    OBVIOUS
  <2>1. k - 1 < j + 1 /\ k - 1 \in Int /\ j + 1 \in Int
    BY <1>4, <1>10
  <2>2. v = <<>>
    BY <1>9, <2>1, SubSeqEmpty
  <2>3. v \in Text /\ Len(v) = 0
    BY <2>2 DEF Text
  <2> QED
    <3>1. Len(v) >= 8
      BY <1>9, <2>3, VersionChars
    <3> QED
      BY <2>3, <3>1
<1>12. /\ v \in Text /\ Len(v) = k - 1 - (j + 1) + 1
       /\ \A n \in 1 .. k - 1 - (j + 1) + 1 : v[n] = t[j + 1 + n - 1]
  <2>1. PICK a, b : a = j + 1 /\ b = k - 1 /\ v = SubSeq(t, a, b)
    BY <1>9
  <2>2. a \in 1 .. Len(t) + 1 /\ b \in a - 1 .. Len(t)
    BY <1>3, <1>4, <1>10, <1>11, <2>1
  <2>3. v \in Text /\ Len(v) = b - a + 1 /\ \A n \in 1 .. b - a + 1 : v[n] = t[a + n - 1]
    BY <2>1, <2>2, PieceIs
  <2> QED
    BY <2>1, <2>3
<1>13. NoEnd(t, j + 1, k - 1)
  <2> SUFFICES ASSUME NEW e \in CRLFs(t), j + 1 <= e, e <= k - 1 PROVE FALSE
    BY DEF NoEnd
  <2>1. e \in Nat /\ t[e] = "cr"
    BY EndIs
  <2>2. PICK n \in Nat : n = e - j
    BY <1>4, <2>1
  <2>3. n \in 1 .. k - 1 - (j + 1) + 1 /\ j + 1 + n - 1 = e
    BY <1>4, <1>10, <2>1, <2>2
  <2>4. v[n] = "cr" /\ n \in 1 .. Len(v)
    BY <1>12, <2>1, <2>3
  <2> QED
    BY <1>9, <1>12, <2>4, VersionChars
<1> QED
  BY <1>1, <1>2, <1>4, <1>5, <1>7, <1>8, <1>9, <1>11, <1>13 DEF LineParts, FirstEnd

LEMMA LineIs ==
  ASSUME NEW t \in Text, NEW i, NEW j, NEW k, LineParts(t, i, j, k)
  PROVE  [sp1 |-> i, sp2 |-> j, end |-> k] \in RequestLines(t)
<1>1. PICK len \in Nat : len = Len(t) /\ DOMAIN t = 1 .. len
  BY TextIs
<1>2. i \in 1 .. len /\ t[i] = "sp" /\ SubSeq(t, 1, i - 1) \in Methods
  BY <1>1 DEF LineParts, FirstSpace
<1>3. i = 2
  <2>1. i \in 1 .. Len(t) + 1
    BY <1>1, <1>2
  <2> QED
    BY <1>2, <2>1, MethodIs
<1>4. j \in i + 1 .. len /\ t[j] = "sp" /\ j > i + 1 /\ NoSpace(t, i + 1, j - 1)
  BY <1>1 DEF LineParts, FirstSpace
<1>5. i \in {2} \cap DOMAIN t /\ j \in 4 .. Len(t)
  BY <1>1, <1>2, <1>3, <1>4
<1>6. k \in CRLFs(t) /\ IsVersion(SubSeq(t, j + 1, k - 1))
  BY DEF LineParts, FirstEnd
<1>7. IsRequestLine(t, i, j, k)
  BY <1>2, <1>4, <1>6 DEF IsRequestLine, NoSpace
<1>8. PICK l : l = [sp1 |-> i, sp2 |-> j, end |-> k]
  OBVIOUS
<1>9. l.sp1 = i /\ l.sp2 = j /\ l.end = k
      /\ l \in [sp1 : {2} \cap DOMAIN t, sp2 : 4 .. Len(t), end : CRLFs(t)]
  BY <1>5, <1>6, <1>8
<1>10. l \in RequestLines(t)
  BY <1>7, <1>9 DEF RequestLines
<1> QED
  BY <1>8, <1>10

LEMMA OneFirstSpace ==
  ASSUME NEW t \in Text, NEW a \in Nat, NEW i, NEW j, FirstSpace(t, a, i), FirstSpace(t, a, j)
  PROVE  i = j
<1>1. Len(t) \in Nat
  BY TextIs
<1>2. i \in a .. Len(t) /\ j \in a .. Len(t) /\ t[i] = "sp" /\ t[j] = "sp"
  BY DEF FirstSpace
<1>3. i \in Int /\ j \in Int
  BY <1>2
<1>4. ~(i < j)
  <2>1. i < j => i \in a .. j - 1
    BY <1>2, <1>3
  <2> QED
    BY <1>2, <2>1 DEF FirstSpace, NoSpace
<1>5. ~(j < i)
  <2>1. j < i => j \in a .. i - 1
    BY <1>2, <1>3
  <2> QED
    BY <1>2, <2>1 DEF FirstSpace, NoSpace
<1> QED
  BY <1>3, <1>4, <1>5

LEMMA OneFirstEnd ==
  ASSUME NEW t \in Text, NEW a \in Nat, NEW i, NEW j, FirstEnd(t, a, i), FirstEnd(t, a, j)
  PROVE  i = j
<1>1. i \in CRLFs(t) /\ j \in CRLFs(t) /\ a <= i /\ a <= j
  BY DEF FirstEnd
<1>2. i \in Nat /\ j \in Nat
  BY <1>1, EndIs
<1>3. ~(i <= j - 1) /\ ~(j <= i - 1)
  BY <1>1 DEF FirstEnd, NoEnd
<1> QED
  BY <1>2, <1>3

(* There is at most one request line.                                      *)
LEMMA OneLine ==
  ASSUME NEW t \in Text, NEW i, NEW j, NEW k, LineParts(t, i, j, k),
         NEW x, NEW y, NEW z, LineParts(t, x, y, z)
  PROVE  i = x /\ j = y /\ k = z
<1>1. Len(t) \in Nat
  BY TextIs
<1>2. i = x
  BY OneFirstSpace DEF LineParts
<1>3. i \in Nat /\ i + 1 \in Nat
  BY <1>1 DEF LineParts, FirstSpace
<1>4. j = y
  BY <1>2, <1>3, OneFirstSpace DEF LineParts
<1>5. j \in Nat /\ j + 1 \in Nat
  BY <1>1, <1>3 DEF LineParts, FirstSpace
<1>6. k = z
  BY <1>4, <1>5, OneFirstEnd DEF LineParts
<1> QED
  BY <1>2, <1>4, <1>6

-----------------------------------------------------------------------------
(* The steps of the first three loops                                      *)

LEMMA MethodOn ==
  ASSUME NEW t \in Text, NEW rl, NEW m, InMethod(t, rl, m), rl # <<>>, Head(rl) # "sp"
  PROVE  InMethod(t, From(rl, 2), Append(m, Head(rl)))
<1>1. PICK q \in 1 .. Len(t) + 1 : Scanned(t, 1, q, rl, m) /\ NoSpace(t, 1, q - 1)
  BY DEF InMethod
<1>2. Len(t) \in Nat /\ q \in 1 .. Len(t) /\ Head(rl) = t[q] /\ q \in Nat
  BY <1>1, ScanFacts
<1>3. Scanned(t, 1, q + 1, From(rl, 2), Append(m, Head(rl)))
  BY <1>1, ScanOn
<1>4. NoSpace(t, 1, q + 1 - 1)
  <2>1. \A n \in 1 .. q + 1 - 1 : n \in 1 .. q - 1 \/ n = q
    BY <1>2
  <2> QED
    BY <1>1, <1>2, <2>1 DEF NoSpace
<1>5. q + 1 \in 1 .. Len(t) + 1
  BY <1>2
<1> QED
  BY <1>3, <1>4, <1>5 DEF InMethod

(* The method ends at the first space.                                     *)
LEMMA MethodEnd ==
  ASSUME NEW t \in Text, NEW rl, NEW m, InMethod(t, rl, m), rl # <<>>, Head(rl) = "sp"
  PROVE  \E i \in 1 .. Len(t) : /\ FirstSpace(t, 1, i) /\ m = SubSeq(t, 1, i - 1)
                                /\ Scanned(t, i + 1, i + 1, From(rl, 2), <<>>)
<1>1. PICK q \in 1 .. Len(t) + 1 : Scanned(t, 1, q, rl, m) /\ NoSpace(t, 1, q - 1)
  BY DEF InMethod
<1>2. Len(t) \in Nat /\ q \in 1 .. Len(t) /\ Head(rl) = t[q] /\ q \in Nat
  BY <1>1, ScanFacts
<1>3. Scanned(t, q + 1, q + 1, From(rl, 2), <<>>)
  BY <1>1, ScanOn
<1>4. FirstSpace(t, 1, q) /\ m = SubSeq(t, 1, q - 1)
  BY <1>1, <1>2 DEF FirstSpace, Scanned
<1> QED
  BY <1>2, <1>3, <1>4

LEMMA NoSpaceEmpty ==
  ASSUME NEW t, NEW a \in Nat
  PROVE  NoSpace(t, a, a - 1)
  BY DEF NoSpace

LEMMA MethodToPath ==
  ASSUME NEW t \in Text, NEW rl, NEW m, InMethod(t, rl, m), rl # <<>>, Head(rl) = "sp",
         m \in Methods
  PROVE  InPath(t, From(rl, 2), m, <<>>)
<1>1. PICK i \in 1 .. Len(t) : /\ FirstSpace(t, 1, i) /\ m = SubSeq(t, 1, i - 1)
                               /\ Scanned(t, i + 1, i + 1, From(rl, 2), <<>>)
  BY MethodEnd
<1>2. i \in 1 .. Len(t) + 1 /\ i + 1 \in 1 .. Len(t) + 1 /\ i + 1 \in Nat
  BY TextIs
<1>3. NoSpace(t, i + 1, i + 1 - 1)
  BY <1>2, NoSpaceEmpty
<1>4. PathAt(t, i, i + 1, From(rl, 2), m, <<>>)
  BY <1>1, <1>3 DEF PathAt
<1> QED
  BY <1>2, <1>4 DEF InPath

LEMMA MethodBad ==
  ASSUME NEW t \in Text, NEW rl, NEW m, InMethod(t, rl, m), rl # <<>>, Head(rl) = "sp",
         m \notin Methods
  PROVE  RequestLines(t) = {}
<1> SUFFICES ASSUME NEW l \in RequestLines(t) PROVE FALSE
  OBVIOUS
<1>1. PICK i \in 1 .. Len(t) : FirstSpace(t, 1, i) /\ m = SubSeq(t, 1, i - 1)
  BY MethodEnd
<1>2. FirstSpace(t, 1, l.sp1) /\ SubSeq(t, 1, l.sp1 - 1) \in Methods
  BY LineFound DEF LineParts
<1>3. i = l.sp1
  BY <1>1, <1>2, OneFirstSpace
<1> QED
  BY <1>1, <1>2, <1>3

LEMMA MethodOut ==
  ASSUME NEW t \in Text, NEW rl, NEW m, InMethod(t, rl, m), rl = <<>>
  PROVE  InPath(t, rl, m, <<>>)
<1>1. PICK q \in 1 .. Len(t) + 1 : Scanned(t, 1, q, rl, m) /\ NoSpace(t, 1, q - 1)
  BY DEF InMethod
<1>2. q = Len(t) + 1 /\ Len(t) \in Nat
  BY <1>1, ScanFacts
<1>3. q - 1 = Len(t)
  BY <1>2
<1> QED
  BY <1>1, <1>3 DEF InPath

LEMMA PathOn ==
  ASSUME NEW t \in Text, NEW rl, NEW m, NEW p, InPath(t, rl, m, p),
         rl # <<>>, Head(rl) # "sp"
  PROVE  InPath(t, From(rl, 2), m, Append(p, Head(rl)))
<1>1. PICK i, q \in 1 .. Len(t) + 1 : PathAt(t, i, q, rl, m, p)
  BY DEF InPath
<1>2. /\ FirstSpace(t, 1, i) /\ m = SubSeq(t, 1, i - 1) /\ m \in Methods
      /\ Scanned(t, i + 1, q, rl, p) /\ NoSpace(t, i + 1, q - 1)
  BY <1>1 DEF PathAt
<1>3. Len(t) \in Nat /\ q \in 1 .. Len(t) /\ Head(rl) = t[q] /\ q \in Nat /\ i + 1 \in Nat
  BY <1>2, ScanFacts
<1>4. Scanned(t, i + 1, q + 1, From(rl, 2), Append(p, Head(rl)))
  BY <1>2, ScanOn
<1>5. NoSpace(t, i + 1, q + 1 - 1)
  <2>1. \A n \in i + 1 .. q + 1 - 1 : n \in i + 1 .. q - 1 \/ n = q
    BY <1>3
  <2> QED
    BY <1>2, <1>3, <2>1 DEF NoSpace
<1>6. q + 1 \in 1 .. Len(t) + 1
  BY <1>3
<1>7. PathAt(t, i, q + 1, From(rl, 2), m, Append(p, Head(rl)))
  BY <1>2, <1>4, <1>5 DEF PathAt
<1> QED
  BY <1>1, <1>6, <1>7 DEF InPath

(* The path ends at the second space.                                      *)
LEMMA PathEnd ==
  ASSUME NEW t \in Text, NEW rl, NEW m, NEW p, InPath(t, rl, m, p),
         rl # <<>>, Head(rl) = "sp"
  PROVE  \E i, j \in 1 .. Len(t) :
           /\ FirstSpace(t, 1, i) /\ m = SubSeq(t, 1, i - 1) /\ m \in Methods
           /\ FirstSpace(t, i + 1, j) /\ p = SubSeq(t, i + 1, j - 1)
           /\ Scanned(t, j + 1, j + 1, From(rl, 2), <<>>)
<1>1. PICK i, q \in 1 .. Len(t) + 1 : PathAt(t, i, q, rl, m, p)
  BY DEF InPath
<1>2. /\ FirstSpace(t, 1, i) /\ m = SubSeq(t, 1, i - 1) /\ m \in Methods
      /\ Scanned(t, i + 1, q, rl, p) /\ NoSpace(t, i + 1, q - 1)
  BY <1>1 DEF PathAt
<1>3. Len(t) \in Nat /\ q \in 1 .. Len(t) /\ Head(rl) = t[q] /\ q \in Nat /\ i + 1 \in 1 .. q
      /\ i + 1 \in Nat
  BY <1>2, ScanFacts
<1>4. Scanned(t, q + 1, q + 1, From(rl, 2), <<>>)
  BY <1>2, ScanOn
<1>5. q \in i + 1 .. Len(t)
  BY <1>3
<1>6. FirstSpace(t, i + 1, q) /\ p = SubSeq(t, i + 1, q - 1)
  BY <1>2, <1>3, <1>5 DEF FirstSpace, Scanned
<1>7. i \in 1 .. Len(t)
  BY <1>2 DEF FirstSpace
<1> QED
  BY <1>2, <1>3, <1>4, <1>6, <1>7

LEMMA PathToVersion ==
  ASSUME NEW t \in Text, NEW rl, NEW m, NEW p, InPath(t, rl, m, p),
         rl # <<>>, Head(rl) = "sp", p # <<>>
  PROVE  InVersion(t, From(rl, 2), m, p, <<>>)
<1>1. PICK i, j \in 1 .. Len(t) :
           /\ FirstSpace(t, 1, i) /\ m = SubSeq(t, 1, i - 1) /\ m \in Methods
           /\ FirstSpace(t, i + 1, j) /\ p = SubSeq(t, i + 1, j - 1)
           /\ Scanned(t, j + 1, j + 1, From(rl, 2), <<>>)
  BY PathEnd
<1>2. /\ Len(t) \in Nat /\ i \in 1 .. Len(t) + 1 /\ j \in 1 .. Len(t) + 1
      /\ j + 1 \in 1 .. Len(t) + 1 /\ j \in Nat
  BY TextIs
<1>3. NoEnd(t, j + 1, j + 1 - 1)
  <2>1. \A e \in CRLFs(t) : e \in Nat
    BY EndIs
  <2> QED
    BY <1>2, <2>1 DEF NoEnd
<1>4. VersionAt(t, i, j, j + 1, From(rl, 2), m, p, <<>>)
  BY <1>1, <1>3 DEF VersionAt
<1> QED
  BY <1>2, <1>4 DEF InVersion

(* A path is empty iff the second space follows the first.                 *)
LEMMA EmptyPath ==
  ASSUME NEW t \in Text, NEW i \in 1 .. Len(t), NEW j \in 1 .. Len(t), FirstSpace(t, i + 1, j)
  PROVE  SubSeq(t, i + 1, j - 1) # <<>> <=> j > i + 1
<1>1. PICK len \in Nat : len = Len(t)
  BY TextIs
<1>2. i \in Nat /\ j \in Nat /\ j \in i + 1 .. len
  BY <1>1 DEF FirstSpace
<1>3. PICK a, b : a = i + 1 /\ b = j - 1
  OBVIOUS
<1>4. a \in 1 .. Len(t) + 1 /\ b \in a - 1 .. Len(t)
  BY <1>1, <1>2, <1>3
<1>5. SubSeq(t, a, b) \in Text /\ Len(SubSeq(t, a, b)) = b - a + 1
  BY <1>4, PieceIs
<1>6. PICK s : s = SubSeq(t, a, b)
  OBVIOUS
<1>7. s = <<>> <=> Len(s) = 0
  <2>1. s \in Text
    BY <1>5, <1>6
  <2> QED
    BY <2>1 DEF Text
<1>8. Len(s) = j - i - 1
  BY <1>2, <1>3, <1>5, <1>6
<1>9. Len(s) # 0 <=> j > i + 1
  BY <1>2, <1>8
<1> QED
  BY <1>3, <1>6, <1>7, <1>9

LEMMA PathBad ==
  ASSUME NEW t \in Text, NEW rl, NEW m, NEW p, InPath(t, rl, m, p),
         rl # <<>>, Head(rl) = "sp", p = <<>>
  PROVE  RequestLines(t) = {}
<1> SUFFICES ASSUME NEW l \in RequestLines(t) PROVE FALSE
  OBVIOUS
<1>1. PICK i, j \in 1 .. Len(t) :
           FirstSpace(t, 1, i) /\ FirstSpace(t, i + 1, j) /\ p = SubSeq(t, i + 1, j - 1)
  BY PathEnd
<1>2. FirstSpace(t, 1, l.sp1) /\ FirstSpace(t, l.sp1 + 1, l.sp2) /\ l.sp2 > l.sp1 + 1
  BY LineFound DEF LineParts
<1>3. i = l.sp1
  BY <1>1, <1>2, OneFirstSpace
<1>4. j = l.sp2
  <2>1. i + 1 \in Nat
    BY TextIs
  <2> QED
    BY <1>1, <1>2, <1>3, <2>1, OneFirstSpace
<1> QED
  BY <1>1, <1>2, <1>3, <1>4, EmptyPath

(* At the end of the text.                                                 *)
LEMMA NoSpacesBad ==
  ASSUME NEW t \in Text, NoSpace(t, 1, Len(t))
  PROVE  RequestLines(t) = {}
<1> SUFFICES ASSUME NEW l \in RequestLines(t) PROVE FALSE
  OBVIOUS
<1>1. FirstSpace(t, 1, l.sp1)
  BY LineFound DEF LineParts
<1> QED
  BY <1>1 DEF FirstSpace, NoSpace

LEMMA OneSpaceBad ==
  ASSUME NEW t \in Text, NEW i \in 1 .. Len(t), FirstSpace(t, 1, i), NoSpace(t, i + 1, Len(t))
  PROVE  RequestLines(t) = {}
<1> SUFFICES ASSUME NEW l \in RequestLines(t) PROVE FALSE
  OBVIOUS
<1>1. FirstSpace(t, 1, l.sp1) /\ FirstSpace(t, l.sp1 + 1, l.sp2)
  BY LineFound DEF LineParts
<1>2. i = l.sp1
  BY <1>1, OneFirstSpace
<1> QED
  BY <1>1, <1>2 DEF FirstSpace, NoSpace

LEMMA PathOut ==
  ASSUME NEW t \in Text, NEW rl, NEW m, NEW p, InPath(t, rl, m, p), rl = <<>>
  PROVE  /\ p # <<>> => \A v : InVersion(t, rl, m, p, v)
         /\ p = <<>> => RequestLines(t) = {}
<1>1. CASE p = <<>> /\ NoSpace(t, 1, Len(t))
  BY <1>1, NoSpacesBad
<1>2. CASE \E i, q \in 1 .. Len(t) + 1 : PathAt(t, i, q, rl, m, p)
  <2>1. PICK i, q \in 1 .. Len(t) + 1 : PathAt(t, i, q, rl, m, p)
    BY <1>2
  <2>2. FirstSpace(t, 1, i) /\ Scanned(t, i + 1, q, rl, p) /\ NoSpace(t, i + 1, q - 1)
    BY <2>1 DEF PathAt
  <2>3. q = Len(t) + 1 /\ Len(t) \in Nat
    BY <2>2, ScanFacts
  <2>4. q - 1 = Len(t) /\ i \in 1 .. Len(t)
    BY <2>2, <2>3 DEF FirstSpace
  <2>5. RequestLines(t) = {}
    BY <2>2, <2>4, OneSpaceBad
  <2>6. \A v : InVersion(t, rl, m, p, v)
    BY <2>2, <2>4 DEF InVersion
  <2> QED
    BY <2>5, <2>6
<1> QED
  BY <1>1, <1>2 DEF InPath

LEMMA VersionOn ==
  ASSUME NEW t \in Text, NEW rl, NEW m, NEW p, NEW v, InVersion(t, rl, m, p, v),
         Len(rl) > 1, ~(rl[1] = "cr" /\ rl[2] = "lf")
  PROVE  InVersion(t, From(rl, 2), m, p, Append(v, Head(rl)))
<1>1. rl # <<>>
  OBVIOUS
<1>2. PICK i, j, q \in 1 .. Len(t) + 1 : VersionAt(t, i, j, q, rl, m, p, v)
  BY <1>1 DEF InVersion
<1>3. Scanned(t, j + 1, q, rl, v) /\ NoEnd(t, j + 1, q - 1)
  BY <1>2 DEF VersionAt
<1>4. /\ Len(t) \in Nat /\ q + 1 \in 1 .. Len(t) /\ q \in Nat
      /\ rl[1] = t[q] /\ rl[2] = t[q + 1]
  BY <1>3, ScanFacts, SMTT(30)
<1>5. Scanned(t, j + 1, q + 1, From(rl, 2), Append(v, Head(rl)))
  BY <1>1, <1>3, ScanOn
<1>6. NoEnd(t, j + 1, q + 1 - 1)
  <2> SUFFICES ASSUME NEW e \in CRLFs(t), j + 1 <= e, e <= q + 1 - 1 PROVE FALSE
    BY DEF NoEnd
  <2>1. e \in Nat /\ t[e] = "cr" /\ t[e + 1] = "lf"
    BY EndIs
  <2>2. e = q
    <3>1. ~(e <= q - 1)
      BY <1>3 DEF NoEnd
    <3> QED
      BY <1>4, <2>1, <3>1
  <2> QED
    BY <1>4, <2>1, <2>2
<1>7. q + 1 \in 1 .. Len(t) + 1
  BY <1>4
<1>8. VersionAt(t, i, j, q + 1, From(rl, 2), m, p, Append(v, Head(rl)))
  BY <1>2, <1>5, <1>6, SMTT(30) DEF VersionAt
<1> QED
  BY <1>2, <1>7, <1>8 DEF InVersion

(* The whole request line.                                                 *)
LineRead(t, rl, m, p, v, i, j, k) ==
  /\ FirstSpace(t, 1, i) /\ m = SubSeq(t, 1, i - 1) /\ m \in Methods
  /\ FirstSpace(t, i + 1, j) /\ p = SubSeq(t, i + 1, j - 1) /\ j > i + 1
  /\ FirstEnd(t, j + 1, k) /\ v = SubSeq(t, j + 1, k - 1)
  /\ From(rl, 3) = From(t, k + 2)

(* The version ends at the first end of a line after the second space.     *)
LEMMA VersionEnd ==
  ASSUME NEW t \in Text, NEW rl, NEW m, NEW p, NEW v, InVersion(t, rl, m, p, v),
         Len(rl) > 1, rl[1] = "cr", rl[2] = "lf"
  PROVE  \E i, j, k \in 1 .. Len(t) : LineRead(t, rl, m, p, v, i, j, k)
<1>1. rl # <<>>
  OBVIOUS
<1>2. PICK i, j, q \in 1 .. Len(t) + 1 : VersionAt(t, i, j, q, rl, m, p, v)
  BY <1>1 DEF InVersion
<1>3. /\ FirstSpace(t, 1, i) /\ m = SubSeq(t, 1, i - 1) /\ m \in Methods
      /\ FirstSpace(t, i + 1, j) /\ p = SubSeq(t, i + 1, j - 1) /\ p # <<>>
      /\ Scanned(t, j + 1, q, rl, v) /\ NoEnd(t, j + 1, q - 1)
  BY <1>2 DEF VersionAt
<1>4. /\ Len(t) \in Nat /\ q + 1 \in 1 .. Len(t) /\ q \in Nat /\ j + 1 \in 1 .. q
      /\ rl[1] = t[q] /\ rl[2] = t[q + 1]
  <2>1. PICK a : a = j + 1 /\ Scanned(t, a, q, rl, v)
    BY <1>3
  <2>2. /\ Len(t) \in Nat /\ q + 1 \in 1 .. Len(t) /\ q \in Nat /\ a \in 1 .. q
        /\ rl[1] = t[q] /\ rl[2] = t[q + 1]
    BY <2>1, ScanTwo
  <2> QED
    BY <2>1, <2>2
<1>5. q \in 1 .. Len(t) - 1 /\ q \in 1 .. Len(t) /\ j + 1 <= q
  BY <1>4
<1>6. i \in 1 .. Len(t) /\ j \in 1 .. Len(t)
  <2>1. i \in 1 .. Len(t)
    BY <1>3 DEF FirstSpace
  <2>2. j \in i + 1 .. Len(t)
    BY <1>3 DEF FirstSpace
  <2> QED
    BY <1>4, <2>1, <2>2
<1>7. FirstEnd(t, j + 1, q) /\ v = SubSeq(t, j + 1, q - 1)
  BY <1>3, <1>4, <1>5 DEF FirstEnd, CRLFs, Scanned
<1>8. j > i + 1
  BY <1>3, <1>6, EmptyPath
<1>9. From(rl, 3) = From(t, q + 2)
  BY <1>3, ScanPast
<1> QED
  BY <1>3, <1>5, <1>6, <1>7, <1>8, <1>9 DEF LineRead

LEMMA StartsAre ==
  ASSUME NEW r \in Text, NEW x \in LineStarts(r)
  PROVE  x \in Nat /\ 1 <= x /\ x \in 1 .. Len(r) + 1 /\ Len(r) \in Nat
<1>1. Len(r) \in Nat
  BY TextIs
<1>2. CASE x = 1
  BY <1>1, <1>2
<1>3. CASE x # 1
  <2>1. PICK e \in CRLFs(r) : x = e + 2
    BY <1>3 DEF LineStarts
  <2>2. e \in Nat /\ e <= Len(r) - 1
    BY EndIs
  <2> QED
    BY <1>1, <2>1, <2>2
<1> QED
  BY <1>2, <1>3

LEMMA LinesBegin ==
  ASSUME NEW r \in Text
  PROVE  LineAtPos(r, 1, 1, r, <<>>, NoHeaders)
<1>1. 1 \in LineStarts(r)
  BY DEF LineStarts
<1>2. NoEnd(r, 1, 1 - 1)
  <2>1. \A e \in CRLFs(r) : e \in Nat
    BY EndIs
  <2> QED
    BY <2>1 DEF NoEnd
<1>3. \A e \in LineStarts(r) \cap CRLFs(r) : 1 <= e
  BY StartsAre
<1>4. LinesBefore(r, 1) = {}
  <2>1. \A x \in HeaderLines(r) : x \in Nat /\ 1 <= x
    BY StartsAre DEF HeaderLines
  <2> QED
    BY <2>1 DEF LinesBefore
<1>5. HeadersOf(r, LinesBefore(r, 1), NoHeaders)
  BY <1>4 DEF HeadersOf, NoHeaders
<1> QED
  BY <1>1, <1>2, <1>3, <1>5, ScanStart DEF LineAtPos

LEMMA VersionToLine ==
  ASSUME NEW t \in Text, NEW rl, NEW m, NEW p, NEW v, InVersion(t, rl, m, p, v),
         Len(rl) > 1, rl[1] = "cr", rl[2] = "lf", IsVersion(v)
  PROVE  InLine(t, From(rl, 3), m, p, v, <<>>, NoHeaders)
<1>0. PICK i, j, k \in 1 .. Len(t) : LineRead(t, rl, m, p, v, i, j, k)
  BY VersionEnd
<1>1. /\ FirstSpace(t, 1, i) /\ m = SubSeq(t, 1, i - 1) /\ m \in Methods
      /\ FirstSpace(t, i + 1, j) /\ p = SubSeq(t, i + 1, j - 1) /\ j > i + 1
      /\ FirstEnd(t, j + 1, k) /\ v = SubSeq(t, j + 1, k - 1)
      /\ From(rl, 3) = From(t, k + 2)
  BY <1>0 DEF LineRead
<1>2. LineParts(t, i, j, k)
  BY <1>1 DEF LineParts
<1>3. PICK l : l = [sp1 |-> i, sp2 |-> j, end |-> k]
  OBVIOUS
<1>4. l \in RequestLines(t) /\ l.sp1 = i /\ l.sp2 = j /\ l.end = k
  BY <1>2, <1>3, LineIs
<1>5. From(t, k + 2) \in Text
  <2>1. k \in CRLFs(t)
    BY <1>1 DEF FirstEnd
  <2>2. Len(t) \in Nat /\ k \in Nat /\ k <= Len(t) - 1
    BY <2>1, EndIs
  <2>3. k + 2 \in 1 .. Len(t) + 1
    BY <2>2
  <2> QED
    BY <2>3, FromType
<1>6. LineAtPos(From(t, l.end + 2), 1, 1, From(rl, 3), <<>>, NoHeaders)
  BY <1>1, <1>4, <1>5, LinesBegin
<1> QED
  BY <1>1, <1>4, <1>6 DEF InLine

LEMMA VersionBad ==
  ASSUME NEW t \in Text, NEW rl, NEW m, NEW p, NEW v, InVersion(t, rl, m, p, v),
         Len(rl) > 1, rl[1] = "cr", rl[2] = "lf", ~IsVersion(v)
  PROVE  RequestLines(t) = {}
<1> SUFFICES ASSUME NEW l \in RequestLines(t) PROVE FALSE
  OBVIOUS
<1>1. PICK i, j, k \in 1 .. Len(t) :
           /\ FirstSpace(t, 1, i) /\ FirstSpace(t, i + 1, j)
           /\ FirstEnd(t, j + 1, k) /\ v = SubSeq(t, j + 1, k - 1)
  BY VersionEnd DEF LineRead
<1>2. /\ FirstSpace(t, 1, l.sp1) /\ FirstSpace(t, l.sp1 + 1, l.sp2)
      /\ FirstEnd(t, l.sp2 + 1, l.end) /\ IsVersion(SubSeq(t, l.sp2 + 1, l.end - 1))
  BY LineFound DEF LineParts
<1>3. i + 1 \in Nat /\ j + 1 \in Nat
  BY TextIs
<1>4. i = l.sp1
  BY <1>1, <1>2, OneFirstSpace
<1>5. j = l.sp2
  BY <1>1, <1>2, <1>3, <1>4, OneFirstSpace
<1>6. k = l.end
  BY <1>1, <1>2, <1>3, <1>5, OneFirstEnd
<1> QED
  BY <1>1, <1>2, <1>5, <1>6

LEMMA VersionOut ==
  ASSUME NEW t \in Text, NEW rl, NEW m, NEW p, NEW v, InVersion(t, rl, m, p, v),
         ~(Len(rl) > 1)
  PROVE  RequestLines(t) = {}
<1>1. CASE \E i \in 1 .. Len(t) : FirstSpace(t, 1, i) /\ NoSpace(t, i + 1, Len(t))
  BY <1>1, OneSpaceBad
<1>2. CASE \E i, j, q \in 1 .. Len(t) + 1 : VersionAt(t, i, j, q, rl, m, p, v)
  <2> SUFFICES ASSUME NEW l \in RequestLines(t) PROVE FALSE
    OBVIOUS
  <2>1. PICK i, j, q \in 1 .. Len(t) + 1 : VersionAt(t, i, j, q, rl, m, p, v)
    BY <1>2
  <2>2. /\ FirstSpace(t, 1, i) /\ FirstSpace(t, i + 1, j)
        /\ Scanned(t, j + 1, q, rl, v) /\ NoEnd(t, j + 1, q - 1)
    BY <2>1 DEF VersionAt
  <2>3. /\ FirstSpace(t, 1, l.sp1) /\ FirstSpace(t, l.sp1 + 1, l.sp2)
        /\ FirstEnd(t, l.sp2 + 1, l.end)
    BY LineFound DEF LineParts
  <2>4. i + 1 \in Nat /\ Len(t) \in Nat /\ q \in Nat /\ q >= Len(t)
    BY <2>2, ScanFacts, TextIs
  <2>5. i = l.sp1
    BY <2>2, <2>3, OneFirstSpace
  <2>6. j = l.sp2
    BY <2>2, <2>3, <2>4, <2>5, OneFirstSpace
  <2>7. PICK e : e = l.end /\ e \in CRLFs(t) /\ j + 1 <= e
    BY <2>3, <2>6 DEF FirstEnd
  <2>8. e \in Nat /\ e <= Len(t) - 1
    BY <2>7, EndIs
  <2>9. e <= q - 1
    BY <2>4, <2>8
  <2> QED
    BY <2>2, <2>7, <2>9 DEF NoEnd
<1> QED
  BY <1>1, <1>2 DEF InVersion

-----------------------------------------------------------------------------
(* The loop over the lines                                                 *)

(* Ends of lines do not overlap.                                           *)
LEMMA EndsApart ==
  ASSUME NEW r \in Text, NEW e \in CRLFs(r), NEW s \in LineStarts(r), e < s
  PROVE  e + 2 <= s
<1>1. e \in Nat /\ 1 <= e /\ r[e] = "cr"
  BY EndIs
<1>2. s \in Nat
  BY StartsAre
<1>3. s # 1
  BY <1>1, <1>2
<1>4. PICK d \in CRLFs(r) : s = d + 2
  BY <1>3 DEF LineStarts
<1>5. d \in Nat /\ r[d + 1] = "lf"
  BY EndIs
<1>6. e # d + 1
  BY <1>1, <1>5
<1> QED
  BY <1>1, <1>2, <1>4, <1>5, <1>6

LEMMA MinIs ==
  ASSUME NEW S \in SUBSET Nat, NEW x \in S, \A y \in S : x <= y
  PROVE  Min(S) = x
<1>1. Min(S) \in S /\ \A y \in S : Min(S) <= y
  BY MinType
<1>2. Min(S) <= x /\ x <= Min(S) /\ x \in Nat /\ Min(S) \in Nat
  BY <1>1
<1> QED
  BY <1>2

LEMMA MaxIs ==
  ASSUME NEW n \in Nat, NEW S \in SUBSET (1 .. n), NEW x \in S, \A y \in S : y <= x
  PROVE  Max(S) = x
<1>1. Max(S) \in S /\ \A y \in S : Max(S) >= y
  BY MaxType
<1>2. Max(S) <= x /\ Max(S) >= x /\ x \in 1 .. n /\ Max(S) \in 1 .. n
  BY <1>1
<1> QED
  BY <1>2

(* A line up to its end, or without one.                                   *)
LEMMA LineWithEnd ==
  ASSUME NEW r \in Text, NEW s \in LineStarts(r), NEW k, FirstEnd(r, s, k)
  PROVE  LineAt(r, s) = SubSeq(r, s, k - 1)
<1> DEFINE E == {e \in CRLFs(r) : e >= s} \cup {Len(r)}
<1>1. k \in CRLFs(r) /\ s <= k /\ NoEnd(r, s, k - 1)
  BY DEF FirstEnd
<1>2. s \in Nat /\ Len(r) \in Nat /\ k \in Nat /\ k <= Len(r) - 1
  BY <1>1, StartsAre, EndIs
<1>3. E \in SUBSET Nat
  BY <1>2, EndIs
<1>4. k \in E
  BY <1>1, <1>2
<1>5. \A y \in E : k <= y
  <2> TAKE y \in E
  <2>1. CASE y = Len(r)
    BY <1>2, <2>1
  <2>2. CASE y \in CRLFs(r) /\ y >= s
    <3>1. y \in Nat
      BY <2>2, EndIs
    <3>2. ~(y <= k - 1)
      BY <1>1, <1>2, <2>2, <3>1 DEF NoEnd
    <3> QED
      BY <1>2, <3>1, <3>2
  <2> QED
    BY <2>1, <2>2
<1> HIDE DEF E
<1>6. Min(E) = k
  BY <1>3, <1>4, <1>5, MinIs
<1> QED
  BY <1>6 DEF LineAt, E

LEMMA LineWithoutEnd ==
  ASSUME NEW r \in Text, NEW s \in LineStarts(r), \A e \in CRLFs(r) : ~(s <= e)
  PROVE  LineAt(r, s) = SubSeq(r, s, Len(r) - 1)
<1> DEFINE E == {e \in CRLFs(r) : e >= s} \cup {Len(r)}
<1>1. s \in Nat /\ Len(r) \in Nat
  BY StartsAre
<1>2. \A e \in CRLFs(r) : e \in Nat /\ ~(e >= s)
  BY <1>1, EndIs
<1>3. E = {Len(r)}
  BY <1>2
<1>4. Min({Len(r)}) = Len(r)
  BY <1>1, MinIs
<1> QED
  BY <1>3, <1>4 DEF LineAt

HasColon(l) == \E i \in DOMAIN l : l[i] = ":"

LEMMA NoColon ==
  ASSUME NEW l, ~HasColon(l), NEW h
  PROVE  Header(h, l) = h
<1>1. {i \in DOMAIN l : l[i] = ":"} = {}
  BY DEF HasColon
<1> QED
  BY <1>1 DEF Header

(* One more line, after all of S.                                          *)
LEMMA HeaderOne ==
  ASSUME NEW r, NEW S, NEW h, HeadersOf(r, S, h), NEW s \in Nat, NEW T,
         \A x \in S : x \in Nat /\ x < s,
         \A x : x \in T <=> x \in S \/ x = s,
         HasColon(LineAt(r, s))
  PROVE  HeadersOf(r, T, Header(h, LineAt(r, s)))
<1>1. PICK l, name, value : l = LineAt(r, s) /\ name = HeaderName(l) /\ value = HeaderValue(l)
  OBVIOUS
<1>2. PICK g : g = Header(h, l)
  OBVIOUS
<1>3. g = [n \in DOMAIN h \cup {name} |-> IF n = name THEN value ELSE h[n]]
  <2>1. {i \in DOMAIN l : l[i] = ":"} # {}
    BY <1>1 DEF HasColon
  <2> QED
    BY <1>1, <1>2, <2>1 DEF Header, HeaderName, HeaderValue
<1>4. DOMAIN g = DOMAIN h \cup {name}
  BY <1>3
<1>5. DOMAIN g = {HeaderName(LineAt(r, x)) : x \in T}
  BY <1>1, <1>4 DEF HeadersOf
<1>6. g = [n \in DOMAIN g |-> g[n]]
  BY <1>3
<1>7. ASSUME NEW n \in DOMAIN g
      PROVE  \E x \in T : /\ HeaderName(LineAt(r, x)) = n
                          /\ \A y \in T : HeaderName(LineAt(r, y)) = n => y <= x
                          /\ g[n] = HeaderValue(LineAt(r, x))
  <2>1. CASE n = name
    <3>1. g[n] = value
      BY <1>3, <1>4, <2>1
    <3>2. \A y \in T : y <= s
      OBVIOUS
    <3> QED
      BY <1>1, <2>1, <3>1, <3>2
  <2>2. CASE n # name
    <3>1. n \in DOMAIN h /\ g[n] = h[n]
      BY <1>3, <1>4, <2>2
    <3>2. PICK x \in S : /\ HeaderName(LineAt(r, x)) = n
                         /\ \A y \in S : HeaderName(LineAt(r, y)) = n => y <= x
                         /\ h[n] = HeaderValue(LineAt(r, x))
      BY <3>1 DEF HeadersOf
    <3>3. \A y \in T : HeaderName(LineAt(r, y)) = n => y <= x
      BY <1>1, <2>2, <3>2
    <3> QED
      BY <3>1, <3>2, <3>3
  <2> QED
    BY <2>1, <2>2
<1>8. HeadersOf(r, T, g)
  BY <1>5, <1>6, <1>7 DEF HeadersOf
<1> QED
  BY <1>1, <1>2, <1>8

LEMMA HeadersAre ==
  ASSUME NEW r \in Text, NEW h, HeadersOf(r, HeaderLines(r), h)
  PROVE  h = Headers(r)
<1>1. DOMAIN h = {HeaderName(LineAt(r, s)) : s \in HeaderLines(r)}
  BY DEF HeadersOf
<1>2. ASSUME NEW n \in DOMAIN h
      PROVE  h[n] = HeaderValue(LineAt(r, Max({s \in HeaderLines(r) : HeaderName(LineAt(r, s)) = n})))
  <2> DEFINE S == {s \in HeaderLines(r) : HeaderName(LineAt(r, s)) = n}
  <2>1. PICK x \in HeaderLines(r) :
               /\ HeaderName(LineAt(r, x)) = n
               /\ \A y \in HeaderLines(r) : HeaderName(LineAt(r, y)) = n => y <= x
               /\ h[n] = HeaderValue(LineAt(r, x))
    BY DEF HeadersOf
  <2>2. Len(r) + 1 \in Nat
    BY TextIs
  <2>3. S \in SUBSET (1 .. Len(r) + 1)
    BY StartsAre DEF HeaderLines
  <2>4. x \in S /\ \A y \in S : y <= x
    BY <2>1
  <2> HIDE DEF S
  <2>5. Max(S) = x
    BY <2>2, <2>3, <2>4, MaxIs
  <2> QED
    BY <2>1, <2>5 DEF S
<1>3. h = [n \in DOMAIN h |-> h[n]]
  BY DEF HeadersOf
<1> QED
  BY <1>1, <1>2, <1>3 DEF Headers

LEMMA LineFacts ==
  ASSUME NEW r \in Text, NEW s, NEW q, NEW rl, NEW ln, NEW h, LineAtPos(r, s, q, rl, ln, h)
  PROVE  /\ s \in LineStarts(r) /\ s \in Nat /\ 1 <= s /\ Scanned(r, s, q, rl, ln)
         /\ NoEnd(r, s, q - 1) /\ q \in Nat /\ s <= q /\ q <= Len(r) + 1 /\ Len(r) \in Nat
         /\ q > Len(r) => s = q
         /\ \A e \in LineStarts(r) \cap CRLFs(r) : s <= e
         /\ HeadersOf(r, LinesBefore(r, s), h)
<1>1. s \in LineStarts(r) /\ Scanned(r, s, q, rl, ln)
  BY DEF LineAtPos
<1>2. s \in Nat /\ 1 <= s
  BY <1>1, StartsAre
<1>3. Len(r) \in Nat /\ q \in 1 .. Len(r) + 1 /\ s \in 1 .. q /\ q \in Nat
  BY <1>1, ScanFacts
<1>4. s <= q /\ q <= Len(r) + 1
  BY <1>3
<1> QED
  BY <1>1, <1>2, <1>3, <1>4 DEF LineAtPos

LEMMA LineOn ==
  ASSUME NEW r \in Text, NEW s, NEW q, NEW rl, NEW ln, NEW h, LineAtPos(r, s, q, rl, ln, h),
         Len(rl) > 1, ~(rl[1] = "cr" /\ rl[2] = "lf")
  PROVE  LineAtPos(r, s, q + 1, From(rl, 2), Append(ln, Head(rl)), h)
<1>1. /\ s \in LineStarts(r) /\ Scanned(r, s, q, rl, ln) /\ NoEnd(r, s, q - 1)
      /\ \A e \in LineStarts(r) \cap CRLFs(r) : s <= e
      /\ HeadersOf(r, LinesBefore(r, s), h)
  BY LineFacts
<1>2. /\ Len(r) \in Nat /\ q + 1 \in 1 .. Len(r) /\ q \in Nat
      /\ rl[1] = r[q] /\ rl[2] = r[q + 1]
  BY <1>1, ScanTwo
<1>3. Scanned(r, s, q + 1, From(rl, 2), Append(ln, Head(rl)))
  <2>1. rl # <<>>
    OBVIOUS
  <2> QED
    BY <1>1, <2>1, ScanOn
<1>4. PICK z : z = q + 1
  OBVIOUS
<1>5. NoEnd(r, s, z - 1)
  <2> SUFFICES ASSUME NEW e \in CRLFs(r), s <= e, e <= z - 1 PROVE FALSE
    BY DEF NoEnd
  <2>1. e \in Nat /\ r[e] = "cr" /\ r[e + 1] = "lf"
    BY EndIs
  <2>2. e = q
    <3>1. ~(e <= q - 1)
      BY <1>1 DEF NoEnd
    <3> QED
      BY <1>2, <1>4, <2>1, <3>1
  <2> QED
    BY <1>2, <2>1, <2>2
<1>6. ~(z > Len(r))
  BY <1>2, <1>4
<1>7. /\ Scanned(r, s, z, From(rl, 2), Append(ln, Head(rl)))
      /\ NoEnd(r, s, z - 1) /\ ~(z > Len(r))
  BY <1>3, <1>5, <1>6, <1>4
<1>8. LineAtPos(r, s, z, From(rl, 2), Append(ln, Head(rl)), h)
  BY <1>1, <1>7 DEF LineAtPos
<1> QED
  BY <1>4, <1>8

(* The lines that start before the one after s.                            *)
LEMMA LineNext ==
  ASSUME NEW r \in Text, NEW s, NEW q, NEW rl, NEW ln, NEW h, LineAtPos(r, s, q, rl, ln, h),
         Len(rl) > 1, rl[1] = "cr", rl[2] = "lf", ln # <<>>
  PROVE  LineAtPos(r, q + 2, q + 2, From(rl, 3), <<>>, Header(h, ln))
<1>1. /\ s \in LineStarts(r) /\ s \in Nat /\ 1 <= s /\ Scanned(r, s, q, rl, ln)
      /\ NoEnd(r, s, q - 1) /\ s <= q
      /\ \A e \in LineStarts(r) \cap CRLFs(r) : s <= e
      /\ HeadersOf(r, LinesBefore(r, s), h)
  BY LineFacts
<1>2. /\ Len(r) \in Nat /\ q + 1 \in 1 .. Len(r) /\ q \in Nat
      /\ rl[1] = r[q] /\ rl[2] = r[q + 1]
  BY <1>1, ScanTwo
<1>3. q \in CRLFs(r)
  BY <1>1, <1>2 DEF CRLFs
<1>4. s < q
  <2>1. s # q
    <3> SUFFICES ASSUME s = q PROVE FALSE
      OBVIOUS
    <3>1. ln = SubSeq(r, s, s - 1)
      BY <1>1 DEF Scanned
    <3> QED
      BY <1>1, <3>1, EmptyPiece
  <2> QED
    BY <1>1, <1>2, <2>1
<1>5. FirstEnd(r, s, q) /\ LineAt(r, s) = ln
  <2>1. FirstEnd(r, s, q)
    BY <1>1, <1>3 DEF FirstEnd
  <2> QED
    BY <1>1, <2>1, LineWithEnd DEF Scanned
<1>6. q + 2 \in LineStarts(r)
  BY <1>3 DEF LineStarts
<1>7. ASSUME NEW x \in LineStarts(r), x < q + 2 PROVE x <= s
  <2>1. CASE x = 1
    BY <1>1, <2>1
  <2>2. CASE x # 1
    <3>1. PICK e \in CRLFs(r) : x = e + 2
      BY <2>2 DEF LineStarts
    <3>2. e \in Nat
      BY EndIs
    <3>3. e <= q - 1
      BY <1>2, <1>7, <3>1, <3>2
    <3>4. ~(s <= e)
      BY <1>1, <3>3 DEF NoEnd
    <3>5. e < s
      BY <1>1, <3>2, <3>4
    <3> QED
      BY <1>1, <3>1, <3>5, EndsApart
  <2> QED
    BY <2>1, <2>2
<1>8. ASSUME NEW e \in LineStarts(r) \cap CRLFs(r) PROVE q + 2 <= e
  <2>1. e \in Nat /\ s <= e
    BY <1>1, EndIs
  <2>2. ~(e < q + 2)
    <3> SUFFICES ASSUME e < q + 2 PROVE FALSE
      OBVIOUS
    <3>1. e <= s
      BY <1>7
    <3>2. e = s
      BY <1>1, <2>1, <3>1
    <3>3. s <= e /\ e <= q - 1
      BY <1>1, <1>2, <1>4, <3>2
    <3> QED
      BY <1>1, <3>3 DEF NoEnd
  <2> QED
    BY <1>2, <2>1, <2>2
<1>9. s < BlankLine(r) /\ s < Len(r)
  <2> DEFINE B == (LineStarts(r) \cap CRLFs(r)) \cup {Len(r) + 1}
  <2>1. B \in SUBSET Nat /\ B # {}
    BY <1>2, EndIs
  <2>2. \A e \in B : s < e
    <3>1. ASSUME NEW e \in LineStarts(r) \cap CRLFs(r) PROVE s < e
      <4>1. q + 2 <= e /\ e \in Nat
        BY <1>8, EndIs
      <4> QED
        BY <1>1, <1>2, <1>4, <4>1
    <3>2. s < Len(r) + 1
      BY <1>1, <1>2, <1>4
    <3> QED
      BY <3>1, <3>2
  <2> HIDE DEF B
  <2>3. Min(B) \in B
    BY <2>1, MinType
  <2>4. s < Min(B)
    BY <2>2, <2>3
  <2>5. s < Len(r)
    BY <1>1, <1>2, <1>4
  <2> QED
    BY <2>4, <2>5 DEF BlankLine, B
<1>10. HeadersOf(r, LinesBefore(r, q + 2), Header(h, ln))
  <2>1. \A x \in HeaderLines(r) : x \in LineStarts(r) /\ x \in Nat
    BY StartsAre DEF HeaderLines
  <2>2. s < q + 2
    BY <1>1, <1>2, <1>4
  <2>3. \A x \in HeaderLines(r) : x < q + 2 <=> x < s \/ x = s
    <3> TAKE x \in HeaderLines(r)
    <3>1. x \in LineStarts(r) /\ x \in Nat
      BY <2>1
    <3>2. x < q + 2 => x <= s
      BY <1>7, <3>1
    <3> QED
      BY <1>1, <1>2, <2>2, <3>1, <3>2
  <2>4. CASE HasColon(ln)
    <3>1. s \in HeaderLines(r)
      BY <1>1, <1>5, <1>9, <2>4 DEF HeaderLines, HasColon
    <3>2. \A x : x \in LinesBefore(r, q + 2) <=> x \in LinesBefore(r, s) \/ x = s
      BY <2>3, <3>1 DEF LinesBefore
    <3>3. \A x \in LinesBefore(r, s) : x \in Nat /\ x < s
      BY <2>1 DEF LinesBefore
    <3>4. HasColon(LineAt(r, s))
      BY <1>5, <2>4
    <3>5. HeadersOf(r, LinesBefore(r, q + 2), Header(h, LineAt(r, s)))
      BY <1>1, <3>2, <3>3, <3>4, HeaderOne
    <3> QED
      BY <1>5, <3>5
  <2>5. CASE ~HasColon(ln)
    <3>1. s \notin HeaderLines(r)
      BY <1>5, <2>5 DEF HeaderLines, HasColon
    <3>2. \A x : x \in LinesBefore(r, q + 2) <=> x \in LinesBefore(r, s)
      BY <2>3, <3>1 DEF LinesBefore
    <3>3. LinesBefore(r, q + 2) = LinesBefore(r, s)
      BY <3>2
    <3>4. Header(h, ln) = h
      BY <2>5, NoColon
    <3> QED
      BY <1>1, <3>3, <3>4
  <2> QED
    BY <2>4, <2>5
<1>11. Scanned(r, q + 2, q + 2, From(rl, 3), <<>>)
  BY <1>1, ScanPast
<1>12. PICK z \in Nat : z = q + 2
  BY <1>2
<1>13. NoEnd(r, z, z - 1)
  <2>1. \A e \in CRLFs(r) : e \in Nat
    BY EndIs
  <2> QED
    BY <2>1 DEF NoEnd
<1>14. /\ z \in LineStarts(r) /\ Scanned(r, z, z, From(rl, 3), <<>>) /\ NoEnd(r, z, z - 1)
       /\ \A e \in LineStarts(r) \cap CRLFs(r) : z <= e
       /\ HeadersOf(r, LinesBefore(r, z), Header(h, ln))
  BY <1>6, <1>8, <1>10, <1>11, <1>12, <1>13
<1>15. LineAtPos(r, z, z, From(rl, 3), <<>>, Header(h, ln))
  BY <1>14 DEF LineAtPos
<1> QED
  BY <1>12, <1>15

(* An empty line ends the headers.                                         *)
LEMMA LinesEnd ==
  ASSUME NEW r \in Text, NEW s, NEW q, NEW rl, NEW ln, NEW h, LineAtPos(r, s, q, rl, ln, h),
         Len(rl) > 1, rl[1] = "cr", rl[2] = "lf", ln = <<>>
  PROVE  h = Headers(r) /\ From(rl, 3) = From(r, BlankLine(r) + 2)
<1>1. /\ s \in LineStarts(r) /\ s \in Nat /\ 1 <= s /\ Scanned(r, s, q, rl, ln) /\ s <= q
      /\ \A e \in LineStarts(r) \cap CRLFs(r) : s <= e
      /\ HeadersOf(r, LinesBefore(r, s), h)
  BY LineFacts
<1>2. /\ Len(r) \in Nat /\ q + 1 \in 1 .. Len(r) /\ q \in Nat
      /\ rl[1] = r[q] /\ rl[2] = r[q + 1]
  BY <1>1, ScanTwo
<1>3. s = q
  <2>1. PICK b : b = q - 1
    OBVIOUS
  <2>2. s \in 1 .. Len(r) + 1 /\ b \in s - 1 .. Len(r)
    BY <1>1, <1>2, <2>1
  <2>3. Len(SubSeq(r, s, b)) = b - s + 1
    BY <2>2, PieceIs
  <2>4. SubSeq(r, s, b) = <<>>
    BY <1>1, <2>1 DEF Scanned
  <2>5. b - s + 1 = 0
    BY <2>3, <2>4
  <2> QED
    BY <1>1, <1>2, <2>1, <2>5
<1>4. s \in LineStarts(r) \cap CRLFs(r)
  BY <1>1, <1>2, <1>3 DEF CRLFs
<1>5. BlankLine(r) = s
  <2> DEFINE B == (LineStarts(r) \cap CRLFs(r)) \cup {Len(r) + 1}
  <2>1. B \in SUBSET Nat /\ s \in B
    BY <1>2, <1>4, EndIs
  <2>2. \A e \in B : s <= e
    <3>1. s <= Len(r) + 1
      BY <1>1, <1>2, <1>3
    <3> QED
      BY <1>1, <3>1
  <2> HIDE DEF B
  <2>3. Min(B) = s
    BY <2>1, <2>2, MinIs
  <2> QED
    BY <2>3 DEF BlankLine, B
<1>6. LinesBefore(r, s) = HeaderLines(r)
  <2>1. \A x \in HeaderLines(r) : x < s
    BY <1>5 DEF HeaderLines
  <2> QED
    BY <2>1 DEF LinesBefore
<1>7. h = Headers(r)
  BY <1>1, <1>6, HeadersAre
<1>8. From(rl, 3) = From(r, q + 2)
  BY <1>1, ScanPast
<1> QED
  BY <1>3, <1>5, <1>7, <1>8

(* The text ends in the headers.                                           *)
LEMMA LinesOut ==
  ASSUME NEW r \in Text, NEW s, NEW q, NEW rl, NEW ln, NEW h, LineAtPos(r, s, q, rl, ln, h),
         ~(Len(rl) > 1)
  PROVE  Header(h, ln) = Headers(r) /\ From(r, BlankLine(r) + 2) = <<>>
<1>1. /\ s \in LineStarts(r) /\ s \in Nat /\ 1 <= s /\ Scanned(r, s, q, rl, ln)
      /\ NoEnd(r, s, q - 1) /\ q \in Nat /\ s <= q /\ q <= Len(r) + 1 /\ Len(r) \in Nat
      /\ q > Len(r) => s = q
      /\ \A e \in LineStarts(r) \cap CRLFs(r) : s <= e
      /\ HeadersOf(r, LinesBefore(r, s), h)
  BY LineFacts
<1>2. q >= Len(r)
  BY <1>1, ScanFacts
<1>3. ASSUME NEW e \in CRLFs(r) PROVE ~(s <= e) /\ e \in Nat
  <2>1. e \in Nat /\ e <= Len(r) - 1
    BY EndIs
  <2>2. e <= q - 1
    BY <1>1, <1>2, <2>1
  <2> QED
    BY <1>1, <2>1, <2>2 DEF NoEnd
<1>4. BlankLine(r) = Len(r) + 1
  <2>1. LineStarts(r) \cap CRLFs(r) = {}
    BY <1>1, <1>3
  <2>2. Min({Len(r) + 1}) = Len(r) + 1
    <3>1. PICK n \in Nat : n = Len(r) + 1
      BY <1>1
    <3>2. Min({n}) = n
      BY MinIs
    <3> QED
      BY <3>1, <3>2
  <2>3. (LineStarts(r) \cap CRLFs(r)) \cup {Len(r) + 1} = {Len(r) + 1}
    BY <2>1
  <2> QED
    BY <2>2, <2>3 DEF BlankLine
<1>5. From(r, BlankLine(r) + 2) = <<>>
  <2>1. BlankLine(r) + 2 \in Int /\ Len(r) \in Int /\ Len(r) < BlankLine(r) + 2
    BY <1>1, <1>4
  <2> QED
    BY <2>1, SubSeqEmpty DEF From
<1>6. \A x \in LineStarts(r) : x <= s /\ x \in Nat
  <2> TAKE x \in LineStarts(r)
  <2>1. CASE x = 1
    BY <1>1, <2>1
  <2>2. CASE x # 1
    <3>1. PICK e \in CRLFs(r) : x = e + 2
      BY <2>2 DEF LineStarts
    <3>2. e \in Nat /\ e < s
      BY <1>1, <1>3
    <3> QED
      BY <1>1, <3>1, <3>2, EndsApart
  <2> QED
    BY <2>1, <2>2
<1>7. \A x \in HeaderLines(r) : x \in LineStarts(r) /\ x \in Nat /\ (x < s \/ x = s)
  <2>1. \A x \in HeaderLines(r) : x \in LineStarts(r)
    BY DEF HeaderLines
  <2> QED
    <3>1. \A x \in Nat : x <= s => x < s \/ x = s
      BY <1>1
    <3> QED
      BY <1>6, <2>1, <3>1
<1>8. ln = LineAt(r, s) \/ (s > Len(r) /\ ln = <<>>)
  <2>1. LineAt(r, s) = SubSeq(r, s, Len(r) - 1)
    BY <1>1, <1>3, LineWithoutEnd
  <2>2. ln = SubSeq(r, s, q - 1)
    BY <1>1 DEF Scanned
  <2>3. CASE q = Len(r)
    BY <2>1, <2>2, <2>3
  <2>4. CASE q # Len(r)
    <3>1. q > Len(r) /\ s = q
      BY <1>1, <1>2, <2>4
    <3>2. ln = <<>>
      BY <1>1, <2>2, <3>1, EmptyPiece
    <3> QED
      BY <3>1, <3>2
  <2> QED
    BY <2>3, <2>4
<1>9. s \in HeaderLines(r) <=> HasColon(ln)
  <2>1. CASE s < Len(r)
    <3>1. ln = LineAt(r, s)
      BY <1>1, <1>8, <2>1
    <3>2. s < BlankLine(r)
      BY <1>1, <1>4, <2>1
    <3> QED
      BY <1>1, <2>1, <3>1, <3>2 DEF HeaderLines, HasColon
  <2>2. CASE ~(s < Len(r))
    <3>1. s \notin HeaderLines(r)
      BY <2>2 DEF HeaderLines
    <3>2. ln = <<>>
      <4>1. CASE q = s
        <5>1. ln = SubSeq(r, s, s - 1)
          BY <1>1, <4>1 DEF Scanned
        <5> QED
          BY <1>1, <5>1, EmptyPiece
      <4>2. CASE q # s
        BY <1>1, <1>2, <2>2, <4>2
      <4> QED
        BY <4>1, <4>2
    <3>3. ~HasColon(<<>>)
      BY DEF HasColon
    <3> QED
      BY <3>1, <3>2, <3>3
  <2> QED
    BY <2>1, <2>2
<1>10. HeadersOf(r, HeaderLines(r), Header(h, ln))
  <2>1. CASE HasColon(ln)
    <3>1. s \in HeaderLines(r)
      BY <1>9, <2>1
    <3>2. ln = LineAt(r, s)
      <4>1. s < Len(r)
        BY <3>1 DEF HeaderLines
      <4> QED
        BY <1>1, <1>8, <4>1
    <3>3. \A x : x \in HeaderLines(r) <=> x \in LinesBefore(r, s) \/ x = s
      BY <1>7, <3>1 DEF LinesBefore
    <3>4. \A x \in LinesBefore(r, s) : x \in Nat /\ x < s
      BY <1>7 DEF LinesBefore
    <3>5. HasColon(LineAt(r, s))
      BY <2>1, <3>2
    <3>6. HeadersOf(r, HeaderLines(r), Header(h, LineAt(r, s)))
      BY <1>1, <3>3, <3>4, <3>5, HeaderOne
    <3> QED
      BY <3>2, <3>6
  <2>2. CASE ~HasColon(ln)
    <3>1. \A x : x \in HeaderLines(r) <=> x \in LinesBefore(r, s)
      BY <1>7, <1>9, <2>2 DEF LinesBefore
    <3>2. HeaderLines(r) = LinesBefore(r, s)
      BY <3>1
    <3>3. Header(h, ln) = h
      BY <2>2, NoColon
    <3> QED
      BY <1>1, <3>2, <3>3
  <2> QED
    BY <2>1, <2>2
<1> QED
  BY <1>5, <1>10, HeadersAre

LEMMA ParsedBad ==
  ASSUME NEW t, RequestLines(t) = {}
  PROVE  Parsed(t) = invalid_request
  BY DEF Parsed

LEMMA ParsedGood ==
  ASSUME NEW t \in Text, NEW l \in RequestLines(t), NEW r, r = From(t, l.end + 2)
  PROVE  Parsed(t) =
           request(TRUE, SubSeq(t, 1, l.sp1 - 1), SubSeq(t, l.sp1 + 1, l.sp2 - 1),
                   SubSeq(t, l.sp2 + 1, l.end - 1), Headers(r), From(r, BlankLine(r) + 2))
<1>1. PICK x : x = (CHOOSE y \in RequestLines(t) : TRUE) /\ x \in RequestLines(t)
  OBVIOUS
<1>2. LineParts(t, l.sp1, l.sp2, l.end) /\ LineParts(t, x.sp1, x.sp2, x.end)
  BY <1>1, LineFound
<1>3. x.sp1 = l.sp1 /\ x.sp2 = l.sp2 /\ x.end = l.end
  BY <1>2, OneLine
<1>4. Parsed(t) =
        request(TRUE, SubSeq(t, 1, x.sp1 - 1), SubSeq(t, x.sp1 + 1, x.sp2 - 1),
                SubSeq(t, x.sp2 + 1, x.end - 1), Headers(From(t, x.end + 2)),
                From(From(t, x.end + 2), BlankLine(From(t, x.end + 2)) + 2))
  BY <1>1 DEF Parsed
<1> QED
  BY <1>3, <1>4

LEMMA RestIsText ==
  ASSUME NEW t \in Text, NEW l \in RequestLines(t)
  PROVE  From(t, l.end + 2) \in Text
<1>1. PICK k : k = l.end /\ k \in CRLFs(t)
  BY LineFound DEF LineParts, FirstEnd
<1>2. Len(t) \in Nat /\ k \in Nat /\ k <= Len(t) - 1
  BY <1>1, EndIs
<1>3. k + 2 \in 1 .. Len(t) + 1
  BY <1>2
<1>4. From(t, k + 2) \in Text
  BY <1>3, FromType
<1> QED
  BY <1>1, <1>4

(* The loop over the lines, in terms of the whole text.                    *)
LEMMA LineStep ==
  ASSUME NEW t \in Text, NEW rl, NEW m, NEW p, NEW v, NEW ln, NEW h,
         InLine(t, rl, m, p, v, ln, h)
  PROVE  /\ Len(rl) > 1 /\ ~(rl[1] = "cr" /\ rl[2] = "lf") =>
              InLine(t, From(rl, 2), m, p, v, Append(ln, Head(rl)), h)
         /\ Len(rl) > 1 /\ rl[1] = "cr" /\ rl[2] = "lf" /\ ln # <<>> =>
              InLine(t, From(rl, 3), m, p, v, <<>>, Header(h, ln))
         /\ Len(rl) > 1 /\ rl[1] = "cr" /\ rl[2] = "lf" /\ ln = <<>> =>
              Parsed(t) = request(TRUE, m, p, v, h, From(rl, 3))
         /\ ~(Len(rl) > 1) =>
              Parsed(t) = request(TRUE, m, p, v, Header(h, ln), <<>>)
<1>1. PICK l \in RequestLines(t) :
        /\ m = SubSeq(t, 1, l.sp1 - 1) /\ p = SubSeq(t, l.sp1 + 1, l.sp2 - 1)
        /\ v = SubSeq(t, l.sp2 + 1, l.end - 1)
        /\ \E s, q : LineAtPos(From(t, l.end + 2), s, q, rl, ln, h)
  BY DEF InLine
<1>2. PICK r : r = From(t, l.end + 2)
  OBVIOUS
<1>3. r \in Text
  BY <1>1, <1>2, RestIsText
<1>4. PICK s, q : LineAtPos(r, s, q, rl, ln, h)
  BY <1>1, <1>2
<1>5. ASSUME NEW rl2, NEW ln2, NEW h2, NEW s2, NEW q2, LineAtPos(r, s2, q2, rl2, ln2, h2)
      PROVE  InLine(t, rl2, m, p, v, ln2, h2)
  BY <1>1, <1>2, <1>5 DEF InLine
<1>6. Parsed(t) = request(TRUE, m, p, v, Headers(r), From(r, BlankLine(r) + 2))
  BY <1>1, <1>2, ParsedGood
<1>7. ASSUME Len(rl) > 1, ~(rl[1] = "cr" /\ rl[2] = "lf")
      PROVE  InLine(t, From(rl, 2), m, p, v, Append(ln, Head(rl)), h)
  <2>1. LineAtPos(r, s, q + 1, From(rl, 2), Append(ln, Head(rl)), h)
    BY <1>3, <1>4, <1>7, LineOn
  <2> QED
    BY <1>5, <2>1
<1>8. ASSUME Len(rl) > 1, rl[1] = "cr", rl[2] = "lf", ln # <<>>
      PROVE  InLine(t, From(rl, 3), m, p, v, <<>>, Header(h, ln))
  <2>1. LineAtPos(r, q + 2, q + 2, From(rl, 3), <<>>, Header(h, ln))
    BY <1>3, <1>4, <1>8, LineNext
  <2> QED
    BY <1>5, <2>1
<1>9. ASSUME Len(rl) > 1, rl[1] = "cr", rl[2] = "lf", ln = <<>>
      PROVE  Parsed(t) = request(TRUE, m, p, v, h, From(rl, 3))
  <2>1. h = Headers(r) /\ From(rl, 3) = From(r, BlankLine(r) + 2)
    BY <1>3, <1>4, <1>9, LinesEnd
  <2> QED
    BY <1>6, <2>1
<1>10. ASSUME ~(Len(rl) > 1)
       PROVE  Parsed(t) = request(TRUE, m, p, v, Header(h, ln), <<>>)
  <2>1. Header(h, ln) = Headers(r) /\ From(r, BlankLine(r) + 2) = <<>>
    BY <1>3, <1>4, <1>10, LinesOut
  <2> QED
    BY <1>6, <2>1
<1> QED
  BY <1>7, <1>8, <1>9, <1>10

-----------------------------------------------------------------------------
(* What parse_request_line returns                                         *)

LEMMA ParseInit == Init => ParseInv
<1> SUFFICES ASSUME Init PROVE ParseInv
  OBVIOUS
<1> QED
  BY DEF Init, ParseInv, ParseAt, Answered

LEMMA ParseRead ==
  ASSUME Inv, handle_read
  PROVE  ParseInv'
<1>1. Inv'
  BY HandleReadInv
<1>2. PICK t : t = CString(data_copy') /\ request_line' = t
  BY DEF handle_read
<1>3. data_copy' \in Text
  BY <1>1 DEF Inv, TypeOK
<1>4. t \in Text
  BY <1>2, <1>3, CStringType
<1>5. InMethod(t, t, <<>>)
  <2>1. 1 \in 1 .. Len(t) + 1
    BY <1>4, TextIs
  <2>2. NoSpace(t, 1, 1 - 1)
    BY NoSpaceEmpty
  <2> QED
    BY <1>4, <2>1, <2>2, ScanStart DEF InMethod
<1>6. /\ pc' = "method" /\ method' = <<>> /\ path' = <<>> /\ HTTP_version' = <<>>
      /\ line' = <<>> /\ headers' = NoHeaders /\ body' = <<>>
  BY DEF handle_read
<1>7. ParseAt(t)'
  BY <1>2, <1>5, <1>6 DEF ParseAt, Answered
<1> QED
  BY <1>2, <1>7 DEF ParseInv, ParseAt

LEMMA ParseMethod ==
  ASSUME Inv, ParseInv, method_char
  PROVE  ParseInv'
<1>1. PICK t : t = CString(data_copy)
  OBVIOUS
<1>2. t \in Text /\ data_copy' = data_copy
  BY <1>1, CStringType DEF Inv, TypeOK, method_char
<1>3. /\ InMethod(t, request_line, method) /\ path = <<>> /\ HTTP_version = <<>>
      /\ line = <<>> /\ headers = NoHeaders /\ body = <<>>
  BY <1>1 DEF ParseInv, ParseAt, method_char
<1>4. UNCHANGED <<path, HTTP_version, line, headers, body>>
  BY DEF method_char
<1>5. CASE AtChar /\ method' = Append(method, Head(request_line)) /\ Advance(1) /\ Goto("method")
  <2>1. request_line' = From(request_line, 2)
    BY <1>5 DEF Advance
  <2>2. InMethod(t, request_line', method')
    BY <1>2, <1>3, <1>5, <2>1, MethodOn DEF AtChar
  <2>3. pc' = "method"
    BY <1>5 DEF Goto
  <2> QED
    BY <1>1, <1>2, <1>3, <1>4, <2>2, <2>3 DEF ParseInv, ParseAt, Answered
<1>6. CASE /\ AtSpace /\ Advance(1) /\ UNCHANGED method
           /\ IF Supported(method) THEN Goto("path") ELSE Return(invalid_request)
  <2>1. request_line' = From(request_line, 2)
    BY <1>6 DEF Advance
  <2>2. CASE Supported(method)
    <3>1. InPath(t, request_line', method', path')
      BY <1>2, <1>3, <1>4, <1>6, <2>1, <2>2, MethodToPath DEF AtSpace, Supported
    <3>2. pc' = "path"
      BY <1>6, <2>2 DEF Goto
    <3> QED
      BY <1>1, <1>2, <1>3, <1>4, <3>1, <3>2 DEF ParseInv, ParseAt, Answered
  <2>3. CASE ~Supported(method)
    <3>1. Parsed(t) = invalid_request
      BY <1>2, <1>3, <1>6, <2>3, MethodBad, ParsedBad DEF AtSpace, Supported
    <3>2. pc' = "idle" /\ req' = invalid_request
      BY <1>6, <2>3 DEF Return
    <3> QED
      BY <1>1, <1>2, <3>1, <3>2 DEF ParseInv, ParseAt, Answered
  <2> QED
    BY <2>2, <2>3
<1>7. CASE AtEnd /\ Goto("path") /\ UNCHANGED <<method, request_line>>
  <2>1. InPath(t, request_line', method', path')
    BY <1>2, <1>3, <1>4, <1>7, MethodOut DEF AtEnd
  <2>2. pc' = "path"
    BY <1>7 DEF Goto
  <2> QED
    BY <1>1, <1>2, <1>3, <1>4, <2>1, <2>2 DEF ParseInv, ParseAt, Answered
<1> QED
  BY <1>5, <1>6, <1>7 DEF method_char

LEMMA ParsePath ==
  ASSUME Inv, ParseInv, path_char
  PROVE  ParseInv'
<1>1. PICK t : t = CString(data_copy)
  OBVIOUS
<1>2. t \in Text /\ data_copy' = data_copy
  BY <1>1, CStringType DEF Inv, TypeOK, path_char
<1>3. /\ InPath(t, request_line, method, path) /\ HTTP_version = <<>>
      /\ line = <<>> /\ headers = NoHeaders /\ body = <<>>
  BY <1>1 DEF ParseInv, ParseAt, path_char
<1>4. UNCHANGED <<method, HTTP_version, line, headers, body>>
  BY DEF path_char
<1>5. CASE AtChar /\ path' = Append(path, Head(request_line)) /\ Advance(1) /\ Goto("path")
  <2>1. request_line' = From(request_line, 2)
    BY <1>5 DEF Advance
  <2>2. InPath(t, request_line', method', path')
    BY <1>2, <1>3, <1>4, <1>5, <2>1, PathOn DEF AtChar
  <2>3. pc' = "path"
    BY <1>5 DEF Goto
  <2> QED
    BY <1>1, <1>2, <1>3, <1>4, <2>2, <2>3 DEF ParseInv, ParseAt, Answered
<1>6. CASE /\ UNCHANGED path
           /\ \/ AtSpace /\ Advance(1)
              \/ AtEnd /\ UNCHANGED request_line
           /\ IF HasPath THEN Goto("version") ELSE Return(invalid_request)
  <2>1. CASE HasPath
    <3>1. InVersion(t, request_line', method', path', HTTP_version')
      <4>1. CASE AtSpace /\ Advance(1)
        <5>1. request_line' = From(request_line, 2)
          BY <4>1 DEF Advance
        <5> QED
          BY <1>2, <1>3, <1>4, <1>6, <2>1, <4>1, <5>1, PathToVersion DEF AtSpace, HasPath
      <4>2. CASE AtEnd /\ UNCHANGED request_line
        BY <1>2, <1>3, <1>4, <1>6, <2>1, <4>2, PathOut DEF AtEnd, HasPath
      <4> QED
        BY <1>6, <4>1, <4>2
    <3>2. pc' = "version"
      BY <1>6, <2>1 DEF Goto
    <3> QED
      BY <1>1, <1>2, <1>3, <1>4, <3>1, <3>2 DEF ParseInv, ParseAt, Answered
  <2>2. CASE ~HasPath
    <3>1. RequestLines(t) = {}
      <4>1. CASE AtSpace
        BY <1>2, <1>3, <2>2, <4>1, PathBad DEF AtSpace, HasPath
      <4>2. CASE AtEnd
        BY <1>2, <1>3, <2>2, <4>2, PathOut DEF AtEnd, HasPath
      <4> QED
        BY <1>6, <4>1, <4>2
    <3>2. pc' = "idle" /\ req' = invalid_request
      BY <1>6, <2>2 DEF Return
    <3> QED
      BY <1>1, <1>2, <3>1, <3>2, ParsedBad DEF ParseInv, ParseAt, Answered
  <2> QED
    BY <2>1, <2>2
<1>7. \/ AtChar /\ path' = Append(path, Head(request_line)) /\ Advance(1) /\ Goto("path")
      \/ /\ UNCHANGED path
         /\ \/ AtSpace /\ Advance(1)
            \/ AtEnd /\ UNCHANGED request_line
         /\ IF HasPath THEN Goto("version") ELSE Return(invalid_request)
  BY Zenon DEF path_char
<1> QED
  BY <1>5, <1>6, <1>7

LEMMA ParseVersion ==
  ASSUME Inv, ParseInv, version_char
  PROVE  ParseInv'
<1>1. PICK t : t = CString(data_copy)
  OBVIOUS
<1>2. t \in Text /\ data_copy' = data_copy /\ HTTP_version \in Text
  BY <1>1, CStringType DEF Inv, TypeOK, version_char
<1>3. /\ InVersion(t, request_line, method, path, HTTP_version)
      /\ line = <<>> /\ headers = NoHeaders /\ body = <<>>
  BY <1>1 DEF ParseInv, ParseAt, version_char
<1>4. UNCHANGED <<method, path, line, headers, body>>
  BY DEF version_char
<1>5. CASE /\ VersionEnds /\ Advance(2) /\ UNCHANGED HTTP_version
           /\ IF validate_http_version(HTTP_version)
                THEN Goto("line") ELSE Return(invalid_request)
  <2>1. request_line' = From(request_line, 3)
    BY <1>5 DEF Advance
  <2>2. Len(request_line) > 1 /\ request_line[1] = "cr" /\ request_line[2] = "lf"
    BY <1>5 DEF VersionEnds, AtCRLF, More
  <2>3. CASE validate_http_version(HTTP_version)
    <3>1. IsVersion(HTTP_version)
      BY <1>2, <2>3, ValidatedVersion
    <3>2. InLine(t, request_line', method', path', HTTP_version', line', headers')
      BY <1>2, <1>3, <1>4, <1>5, <2>1, <2>2, <3>1, VersionToLine
    <3>3. pc' = "line"
      BY <1>5, <2>3 DEF Goto
    <3> QED
      BY <1>1, <1>2, <1>3, <1>4, <3>2, <3>3 DEF ParseInv, ParseAt, Answered
  <2>4. CASE ~validate_http_version(HTTP_version)
    <3>1. ~IsVersion(HTTP_version)
      BY <1>2, <2>4, VersionValidated
    <3>2. Parsed(t) = invalid_request
      BY <1>2, <1>3, <2>2, <3>1, VersionBad, ParsedBad
    <3>3. pc' = "idle" /\ req' = invalid_request
      BY <1>5, <2>4 DEF Return
    <3> QED
      BY <1>1, <1>2, <3>2, <3>3 DEF ParseInv, ParseAt, Answered
  <2> QED
    BY <2>3, <2>4
<1>6. CASE /\ More /\ ~VersionEnds
           /\ HTTP_version' = Append(HTTP_version, Head(request_line))
           /\ Advance(1) /\ Goto("version")
  <2>1. request_line' = From(request_line, 2)
    BY <1>6 DEF Advance
  <2>2. Len(request_line) > 1 /\ ~(request_line[1] = "cr" /\ request_line[2] = "lf")
    BY <1>6 DEF VersionEnds, AtCRLF, More
  <2>3. InVersion(t, request_line', method', path', HTTP_version')
    BY <1>2, <1>3, <1>4, <1>6, <2>1, <2>2, VersionOn
  <2>4. pc' = "version"
    BY <1>6 DEF Goto
  <2> QED
    BY <1>1, <1>2, <1>3, <1>4, <2>3, <2>4 DEF ParseInv, ParseAt, Answered
<1>7. CASE ~More /\ ~VersionEnds /\ Return(invalid_request)
  <2>1. Parsed(t) = invalid_request
    BY <1>2, <1>3, <1>7, VersionOut, ParsedBad DEF More
  <2>2. pc' = "idle" /\ req' = invalid_request
    BY <1>7 DEF Return
  <2> QED
    BY <1>1, <1>2, <2>1, <2>2 DEF ParseInv, ParseAt, Answered
<1> QED
  BY <1>5, <1>6, <1>7 DEF version_char

LEMMA ParseHeader ==
  ASSUME Inv, ParseInv, header_char
  PROVE  ParseInv'
<1>1. PICK t : t = CString(data_copy)
  OBVIOUS
<1>2. t \in Text /\ data_copy' = data_copy
  BY <1>1, CStringType DEF Inv, TypeOK, header_char
<1>3. InLine(t, request_line, method, path, HTTP_version, line, headers) /\ body = <<>>
  BY <1>1 DEF ParseInv, ParseAt, header_char
<1>4. UNCHANGED <<method, path, HTTP_version>>
  BY DEF header_char
<1>5. CASE /\ More /\ ~AtCRLF
           /\ line' = Append(line, Head(request_line))
           /\ Advance(1) /\ Goto("line")
           /\ UNCHANGED <<headers, body>>
  <2>1. request_line' = From(request_line, 2)
    BY <1>5 DEF Advance
  <2>2. Len(request_line) > 1 /\ ~(request_line[1] = "cr" /\ request_line[2] = "lf")
    BY <1>5 DEF AtCRLF, More
  <2>3. InLine(t, request_line', method', path', HTTP_version', line', headers')
    BY <1>2, <1>3, <1>4, <1>5, <2>1, <2>2, LineStep
  <2>4. pc' = "line" /\ body' = <<>>
    BY <1>3, <1>5 DEF Goto
  <2> QED
    BY <1>1, <1>2, <2>3, <2>4 DEF ParseInv, ParseAt, Answered
<1>6. CASE /\ AtCRLF /\ line # <<>>
           /\ headers' = Header(headers, line) /\ line' = <<>>
           /\ Advance(2) /\ Goto("line")
           /\ UNCHANGED body
  <2>1. request_line' = From(request_line, 3)
    BY <1>6 DEF Advance
  <2>2. Len(request_line) > 1 /\ request_line[1] = "cr" /\ request_line[2] = "lf"
    BY <1>6 DEF AtCRLF, More
  <2>3. InLine(t, request_line', method', path', HTTP_version', line', headers')
    BY <1>2, <1>3, <1>4, <1>6, <2>1, <2>2, LineStep
  <2>4. pc' = "line" /\ body' = <<>>
    BY <1>3, <1>6 DEF Goto
  <2> QED
    BY <1>1, <1>2, <2>3, <2>4 DEF ParseInv, ParseAt, Answered
<1>7. CASE /\ AtCRLF /\ line = <<>>
           /\ Valid(From(request_line, 3))
  <2>1. Len(request_line) > 1 /\ request_line[1] = "cr" /\ request_line[2] = "lf"
    BY <1>7 DEF AtCRLF, More
  <2>2. pc' = "idle"
        /\ req' = request(TRUE, method, path, HTTP_version, headers, From(request_line, 3))
    BY <1>7 DEF Valid, Return
  <2>3. req' = Parsed(t)
    BY <1>2, <1>3, <1>7, <2>1, <2>2, LineStep
  <2> QED
    BY <1>1, <1>2, <2>2, <2>3 DEF ParseInv, ParseAt, Answered
<1>8. CASE /\ ~More
           /\ headers' = Header(headers, line) /\ line' = <<>>
           /\ Return(request(TRUE, method, path, HTTP_version, headers', body))
  <2>1. pc' = "idle"
        /\ req' = request(TRUE, method, path, HTTP_version, Header(headers, line), <<>>)
    BY <1>3, <1>8 DEF Return
  <2>2. req' = Parsed(t)
    BY <1>2, <1>3, <1>8, <2>1, LineStep DEF More
  <2> QED
    BY <1>1, <1>2, <2>1, <2>2 DEF ParseInv, ParseAt, Answered
<1> QED
  BY <1>5, <1>6, <1>7, <1>8 DEF header_char

LEMMA ParseStep ==
  ASSUME Inv, ParseInv, [Next]_vars
  PROVE  ParseInv'
<1>1. CASE UNCHANGED vars
  BY <1>1 DEF vars, locals, ParseInv, ParseAt, Answered
<1> QED
  BY <1>1, ParseRead, ParseMethod, ParsePath, ParseVersion, ParseHeader
     DEF Next, parse_request_line

LEMMA ParseInvariance == Spec => []ParseInv
<1>1. Init => Inv /\ ParseInv
  BY InitInv, ParseInit
<1>2. Inv /\ ParseInv /\ [Next]_vars => (Inv /\ ParseInv)'
  BY StepInv, ParseStep
<1> QED
  BY <1>1, <1>2, PTL DEF Spec

(* For everything that a peer may send, of any length and wherever it is   *)
(* cut: parse_request_line returns the request line, the headers and the   *)
(* body that the positions of the separators give, and rejects all else.   *)
THEOREM RequestsParsed == Spec => []ParsesRequests
<1>1. ParseInv => ParsesRequests
  BY DEF ParseInv, ParseAt, ParsesRequests
<1> QED
  BY <1>1, ParseInvariance, PTL

-----------------------------------------------------------------------------
(* A request that a read has cut                                           *)

Begins(t, u) ==
  /\ t \in Text /\ u \in Text
  /\ Len(t) <= Len(u) /\ \A n \in 1 .. Len(t) : t[n] = u[n]

LEMMA BeginsPiece ==
  ASSUME NEW t, NEW u, Begins(t, u), NEW a \in 1 .. Len(t) + 1, NEW b \in a - 1 .. Len(t)
  PROVE  SubSeq(t, a, b) = SubSeq(u, a, b)
<1>1. t \in Text /\ u \in Text /\ Len(t) \in Nat /\ Len(u) \in Nat /\ Len(t) <= Len(u)
      /\ \A n \in 1 .. Len(t) : t[n] = u[n]
  BY TextIs DEF Begins
<1>2. a \in Nat /\ b \in Int /\ a >= 1 /\ b >= a - 1 /\ b <= Len(t)
  BY <1>1
<1>3. a \in 1 .. Len(u) + 1 /\ b \in a - 1 .. Len(u)
  BY <1>1, <1>2
<1>4. PICK x : x = SubSeq(t, a, b)
  OBVIOUS
<1>5. PICK y : y = SubSeq(u, a, b)
  OBVIOUS
<1>6. x \in Text /\ Len(x) = b - a + 1 /\ \A n \in 1 .. b - a + 1 : x[n] = t[a + n - 1]
  BY <1>1, <1>4, PieceIs
<1>7. y \in Text /\ Len(y) = b - a + 1 /\ \A n \in 1 .. b - a + 1 : y[n] = u[a + n - 1]
  BY <1>1, <1>3, <1>5, PieceIs
<1>8. ASSUME NEW n \in 1 .. Len(x) PROVE x[n] = y[n]
  <2>1. PICK m : m = a + n - 1
    OBVIOUS
  <2>2. n \in 1 .. b - a + 1 /\ m \in 1 .. Len(t)
    BY <1>1, <1>2, <1>6, <2>1
  <2>3. x[n] = t[m] /\ y[n] = u[m]
    BY <1>6, <1>7, <2>1, <2>2
  <2> QED
    BY <1>1, <2>2, <2>3
<1> QED
  BY <1>4, <1>5, <1>6, <1>7, <1>8, SameText

LEMMA BeginsRest ==
  ASSUME NEW t, NEW u, Begins(t, u), NEW q \in 1 .. Len(t) + 1
  PROVE  Begins(From(t, q), From(u, q))
<1>1. t \in Text /\ u \in Text /\ Len(t) \in Nat /\ Len(u) \in Nat /\ Len(t) <= Len(u)
      /\ \A n \in 1 .. Len(t) : t[n] = u[n]
  BY TextIs DEF Begins
<1>2. q \in Nat /\ q >= 1 /\ q \in 1 .. Len(u) + 1
  BY <1>1
<1>3. PICK x : x = From(t, q)
  OBVIOUS
<1>4. PICK y : y = From(u, q)
  OBVIOUS
<1>5. x \in Text /\ Len(x) = Len(t) - q + 1 /\ \A n \in 1 .. Len(t) - q + 1 : x[n] = t[q + n - 1]
  BY <1>1, <1>3, FromIs
<1>6. y \in Text /\ Len(y) = Len(u) - q + 1 /\ \A n \in 1 .. Len(u) - q + 1 : y[n] = u[q + n - 1]
  BY <1>1, <1>2, <1>4, FromIs
<1>7. ASSUME NEW n \in 1 .. Len(x) PROVE x[n] = y[n]
  <2>1. PICK m : m = q + n - 1
    OBVIOUS
  <2>2. n \in 1 .. Len(t) - q + 1 /\ n \in 1 .. Len(u) - q + 1 /\ m \in 1 .. Len(t)
    BY <1>1, <1>2, <1>5, <2>1
  <2>3. x[n] = t[m] /\ y[n] = u[m]
    BY <1>5, <1>6, <2>1, <2>2
  <2> QED
    BY <1>1, <2>2, <2>3
<1>8. Len(x) <= Len(y)
  BY <1>1, <1>2, <1>5, <1>6
<1> QED
  BY <1>3, <1>4, <1>5, <1>6, <1>7, <1>8 DEF Begins

(* What strlen sees of the beginning of a text is the beginning of what it *)
(* sees of the text.                                                       *)
LEMMA BeginsString ==
  ASSUME NEW d \in Text, NEW x \in Text
  PROVE  Begins(CString(d), CString(d \o x))
<1>1. PICK w : w = d \o x
  OBVIOUS
<1>2. /\ w \in Text /\ Len(d) \in Nat /\ Len(w) \in Nat /\ Len(d) <= Len(w)
      /\ \A n \in 1 .. Len(d) : w[n] = d[n]
  BY <1>1 DEF Text
<1> DEFINE N(s) == {i \in DOMAIN s : s[i] = "nul"} \cup {Len(s) + 1}
<1>3. PICK m : m = Min(N(d))
  OBVIOUS
<1>4. PICK n : n = Min(N(w))
  OBVIOUS
<1>5. DOMAIN d = 1 .. Len(d) /\ DOMAIN w = 1 .. Len(w)
  BY <1>2, TextIs
<1>6. m \in N(d) /\ \A y \in N(d) : m <= y
  <2>1. N(d) \in SUBSET Nat /\ N(d) # {}
    BY <1>2, <1>5
  <2> HIDE DEF N
  <2> QED
    BY <1>3, <2>1, MinType
<1>7. n \in N(w)
  <2>1. N(w) \in SUBSET Nat /\ N(w) # {}
    BY <1>2, <1>5
  <2> HIDE DEF N
  <2> QED
    BY <1>4, <2>1, MinType
<1>8. m \in 1 .. Len(d) + 1 /\ n \in 1 .. Len(w) + 1
  BY <1>2, <1>5, <1>6, <1>7
<1>9. m <= n
  <2>1. m <= Len(d) + 1
    BY <1>2, <1>8
  <2>2. CASE n <= Len(d)
    <3>1. n \in 1 .. Len(d) /\ n # Len(w) + 1
      BY <1>2, <1>8, <2>2
    <3>2. w[n] = "nul"
      BY <1>7, <3>1
    <3>3. d[n] = "nul"
      BY <1>2, <3>1, <3>2
    <3>4. n \in N(d)
      BY <1>5, <3>1, <3>3
    <3> QED
      BY <1>6, <3>4
  <2>3. CASE n > Len(d)
    BY <1>2, <1>8, <2>1, <2>3
  <2> QED
    BY <1>2, <1>8, <2>2, <2>3
<1>10. PICK a, b : a = m - 1 /\ b = n - 1
  OBVIOUS
<1>11. a \in Nat /\ b \in Nat /\ a <= b /\ a <= Len(d) /\ b <= Len(w)
  BY <1>2, <1>8, <1>9, <1>10
<1>12. CString(d) = SubSeq(d, 1, a) /\ CString(w) = SubSeq(w, 1, b)
  BY <1>3, <1>4, <1>10 DEF CString
<1>13. PICK y, z : y = SubSeq(d, 1, a) /\ z = SubSeq(w, 1, b)
  OBVIOUS
<1>14. y \in Text /\ Len(y) = a /\ \A k \in 1 .. a : y[k] = d[k]
  <2>1. 1 \in 1 .. Len(d) + 1 /\ a \in 1 - 1 .. Len(d)
    BY <1>2, <1>11
  <2>2. y \in Text /\ Len(y) = a - 1 + 1 /\ \A k \in 1 .. a - 1 + 1 : y[k] = d[1 + k - 1]
    BY <1>13, <2>1, PieceIs
  <2> QED
    BY <1>11, <2>2
<1>15. z \in Text /\ Len(z) = b /\ \A k \in 1 .. b : z[k] = w[k]
  <2>1. 1 \in 1 .. Len(w) + 1 /\ b \in 1 - 1 .. Len(w)
    BY <1>2, <1>11
  <2>2. z \in Text /\ Len(z) = b - 1 + 1 /\ \A k \in 1 .. b - 1 + 1 : z[k] = w[1 + k - 1]
    BY <1>2, <1>13, <2>1, PieceIs
  <2> QED
    BY <1>11, <2>2
<1>16. ASSUME NEW k \in 1 .. Len(y) PROVE y[k] = z[k]
  <2>1. k \in 1 .. a /\ k \in 1 .. b /\ k \in 1 .. Len(d)
    BY <1>2, <1>11, <1>14
  <2> QED
    BY <1>2, <1>14, <1>15, <2>1
<1>17. Begins(y, z)
  BY <1>11, <1>14, <1>15, <1>16 DEF Begins
<1> QED
  BY <1>1, <1>12, <1>13, <1>17

LEMMA BeginsEnds ==
  ASSUME NEW t, NEW u, Begins(t, u), NEW e
  PROVE  /\ e \in CRLFs(t) => e \in CRLFs(u)
         /\ e \in CRLFs(u) /\ e < Len(t) => e \in CRLFs(t)
<1>1. t \in Text /\ u \in Text /\ Len(t) \in Nat /\ Len(u) \in Nat /\ Len(t) <= Len(u)
      /\ \A n \in 1 .. Len(t) : t[n] = u[n]
  BY TextIs DEF Begins
<1>2. ASSUME e \in CRLFs(t) PROVE e \in CRLFs(u)
  <2>1. PICK d : d = e + 1
    OBVIOUS
  <2>2. e \in 1 .. Len(t) /\ d \in 1 .. Len(t) /\ e <= Len(t) - 1 /\ t[e] = "cr" /\ t[d] = "lf"
    BY <1>1, <1>2, <2>1, EndIs
  <2>3. u[e] = "cr" /\ u[d] = "lf"
    BY <1>1, <2>2
  <2>4. e \in 1 .. Len(u) - 1
    BY <1>1, <2>2
  <2> QED
    BY <2>1, <2>3, <2>4 DEF CRLFs
<1>3. ASSUME e \in CRLFs(u), e < Len(t) PROVE e \in CRLFs(t)
  <2>1. PICK d : d = e + 1
    OBVIOUS
  <2>2. e \in 1 .. Len(u) /\ u[e] = "cr" /\ u[d] = "lf"
    BY <1>1, <1>3, <2>1, EndIs
  <2>3. e \in 1 .. Len(t) /\ d \in 1 .. Len(t) /\ e \in 1 .. Len(t) - 1
    BY <1>1, <1>3, <2>1, <2>2
  <2>4. t[e] = "cr" /\ t[d] = "lf"
    BY <1>1, <2>2, <2>3
  <2> QED
    BY <2>1, <2>3, <2>4 DEF CRLFs
<1> QED
  BY <1>2, <1>3

LEMMA BeginsSpace ==
  ASSUME NEW t, NEW u, Begins(t, u), NEW a \in Nat, a >= 1, NEW i, FirstSpace(t, a, i)
  PROVE  FirstSpace(u, a, i)
<1>1. Len(t) \in Nat /\ Len(u) \in Nat /\ Len(t) <= Len(u)
      /\ \A n \in 1 .. Len(t) : t[n] = u[n]
  BY TextIs DEF Begins
<1>2. i \in a .. Len(t) /\ t[i] = "sp" /\ NoSpace(t, a, i - 1)
  BY DEF FirstSpace
<1>3. i \in 1 .. Len(t) /\ i \in a .. Len(u)
  BY <1>1, <1>2
<1>4. \A n \in a .. i - 1 : n \in 1 .. Len(t)
  BY <1>1, <1>3
<1>5. NoSpace(u, a, i - 1)
  BY <1>1, <1>2, <1>4 DEF NoSpace
<1> QED
  BY <1>1, <1>2, <1>3, <1>5 DEF FirstSpace

LEMMA BeginsLine ==
  ASSUME NEW t, NEW u, Begins(t, u), NEW i, NEW j, NEW k, LineParts(t, i, j, k)
  PROVE  /\ LineParts(u, i, j, k)
         /\ SubSeq(t, 1, i - 1) = SubSeq(u, 1, i - 1)
         /\ SubSeq(t, i + 1, j - 1) = SubSeq(u, i + 1, j - 1)
         /\ SubSeq(t, j + 1, k - 1) = SubSeq(u, j + 1, k - 1)
         /\ Begins(From(t, k + 2), From(u, k + 2))
<1>1. t \in Text /\ u \in Text /\ Len(t) \in Nat
  BY TextIs DEF Begins
<1>2. FirstSpace(t, 1, i) /\ SubSeq(t, 1, i - 1) \in Methods /\ FirstSpace(t, i + 1, j)
      /\ j > i + 1 /\ FirstEnd(t, j + 1, k) /\ IsVersion(SubSeq(t, j + 1, k - 1))
  BY DEF LineParts
<1>3. i \in Nat /\ 1 <= i /\ i <= Len(t)
  BY <1>1, <1>2 DEF FirstSpace
<1>4. j \in Nat /\ j <= Len(t)
  BY <1>1, <1>2, <1>3 DEF FirstSpace
<1>5. k \in CRLFs(t) /\ j + 1 <= k /\ NoEnd(t, j + 1, k - 1)
  BY <1>2 DEF FirstEnd
<1>6. k \in Nat /\ k <= Len(t) - 1
  BY <1>1, <1>5, EndIs
<1>7. SubSeq(t, 1, i - 1) = SubSeq(u, 1, i - 1)
  <2>1. PICK b : b = i - 1
    OBVIOUS
  <2>2. 1 \in 1 .. Len(t) + 1 /\ b \in 1 - 1 .. Len(t)
    BY <1>1, <1>3, <2>1
  <2> QED
    BY <2>1, <2>2, BeginsPiece
<1>8. SubSeq(t, i + 1, j - 1) = SubSeq(u, i + 1, j - 1)
  <2>1. PICK a, b : a = i + 1 /\ b = j - 1
    OBVIOUS
  <2>2. a \in 1 .. Len(t) + 1 /\ b \in a - 1 .. Len(t)
    BY <1>1, <1>2, <1>3, <1>4, <2>1
  <2> QED
    BY <2>1, <2>2, BeginsPiece
<1>9. SubSeq(t, j + 1, k - 1) = SubSeq(u, j + 1, k - 1)
  <2>1. PICK a, b : a = j + 1 /\ b = k - 1
    OBVIOUS
  <2>2. a \in 1 .. Len(t) + 1 /\ b \in a - 1 .. Len(t)
    BY <1>1, <1>4, <1>5, <1>6, <2>1
  <2> QED
    BY <2>1, <2>2, BeginsPiece
<1>10. Begins(From(t, k + 2), From(u, k + 2))
  <2>1. PICK q : q = k + 2
    OBVIOUS
  <2>2. q \in 1 .. Len(t) + 1
    BY <1>1, <1>6, <2>1
  <2> QED
    BY <2>1, <2>2, BeginsRest
<1>11. FirstSpace(u, 1, i)
  BY <1>2, BeginsSpace
<1>12. FirstSpace(u, i + 1, j)
  <2>1. PICK a : a = i + 1
    OBVIOUS
  <2>2. a \in Nat /\ a >= 1
    BY <1>3, <2>1
  <2> QED
    BY <1>2, <2>1, <2>2, BeginsSpace
<1>13. FirstEnd(u, j + 1, k)
  <2>1. k \in CRLFs(u)
    BY <1>5, BeginsEnds
  <2>2. ASSUME NEW e \in CRLFs(u), j + 1 <= e, e <= k - 1 PROVE FALSE
    <3>1. e \in Nat
      BY <1>1, <2>2, EndIs
    <3>2. e < Len(t)
      BY <1>1, <1>6, <2>2, <3>1
    <3>3. e \in CRLFs(t)
      BY <2>2, <3>2, BeginsEnds
    <3> QED
      BY <1>5, <2>2, <3>3 DEF NoEnd
  <2>3. NoEnd(u, j + 1, k - 1)
    BY <2>2 DEF NoEnd
  <2> QED
    BY <1>5, <2>1, <2>3 DEF FirstEnd
<1> QED
  BY <1>2, <1>7, <1>8, <1>9, <1>10, <1>11, <1>12, <1>13 DEF LineParts

(* Where lines start and where the headers end.                            *)
LEMMA BeginsStarts ==
  ASSUME NEW r, NEW w, Begins(r, w), NEW s
  PROVE  /\ s \in LineStarts(r) => s \in LineStarts(w)
         /\ s \in LineStarts(w) /\ s < Len(r) => s \in LineStarts(r)
<1>1. \A e \in CRLFs(w) : e \in Nat
  BY EndIs DEF Begins
<1>2. Len(r) \in Nat
  BY TextIs DEF Begins
<1>3. \A e \in CRLFs(r) : e \in CRLFs(w)
  BY BeginsEnds
<1>4. \A e \in CRLFs(w) : e < Len(r) => e \in CRLFs(r)
  BY BeginsEnds
<1>5. ASSUME s \in LineStarts(w), s < Len(r), s # 1 PROVE s \in LineStarts(r)
  <2>1. PICK e \in CRLFs(w) : s = e + 2
    BY <1>5 DEF LineStarts
  <2>2. e < Len(r)
    BY <1>1, <1>2, <1>5, <2>1
  <2> QED
    BY <1>4, <2>1, <2>2 DEF LineStarts
<1> QED
  BY <1>3, <1>5 DEF LineStarts

LEMMA BlankIs ==
  ASSUME NEW r \in Text
  PROVE  /\ BlankLine(r) \in (LineStarts(r) \cap CRLFs(r)) \cup {Len(r) + 1}
         /\ \A b \in LineStarts(r) \cap CRLFs(r) : BlankLine(r) <= b
         /\ BlankLine(r) \in Nat /\ BlankLine(r) <= Len(r) + 1
<1> DEFINE B == (LineStarts(r) \cap CRLFs(r)) \cup {Len(r) + 1}
<1>1. Len(r) + 1 \in Nat /\ \A b \in CRLFs(r) : b \in Nat
  BY TextIs, EndIs
<1>2. B \in SUBSET Nat /\ B # {}
  BY <1>1
<1>3. BlankLine(r) = Min(B)
  BY DEF BlankLine
<1>4. Len(r) + 1 \in B
  OBVIOUS
<1>5. Min(B) \in B /\ \A y \in B : Min(B) <= y
  <2> HIDE DEF B
  <2> QED
    BY <1>2, MinType
<1> QED
  BY <1>2, <1>3, <1>4, <1>5

LEMMA BeginsBlank ==
  ASSUME NEW r, NEW w, Begins(r, w), NEW b \in LineStarts(w) \cap CRLFs(w), b < Len(r)
  PROVE  b \in LineStarts(r) \cap CRLFs(r)
  BY BeginsStarts, BeginsEnds

(* A header line that was cut keeps its name.                              *)
LEMMA BeginsName ==
  ASSUME NEW l, NEW m, Begins(l, m), HasColon(l)
  PROVE  HasColon(m) /\ HeaderName(l) = HeaderName(m)
<1> DEFINE C(s) == {i \in DOMAIN s : s[i] = ":"}
<1>1. l \in Text /\ m \in Text /\ Len(l) \in Nat /\ Len(m) \in Nat /\ Len(l) <= Len(m)
      /\ (\A n \in 1 .. Len(l) : l[n] = m[n])
      /\ DOMAIN l = 1 .. Len(l) /\ DOMAIN m = 1 .. Len(m)
  BY TextIs DEF Begins
<1>2. C(l) \in SUBSET Nat /\ C(m) \in SUBSET Nat /\ C(l) # {}
  BY <1>1 DEF HasColon
<1>3. PICK c : c = Min(C(l))
  OBVIOUS
<1>4. c \in C(l) /\ \A y \in C(l) : c <= y
  <2> HIDE DEF C
  <2> QED
    BY <1>2, <1>3, MinType
<1>5. c \in 1 .. Len(l) /\ c \in 1 .. Len(m) /\ l[c] = ":" /\ m[c] = ":"
  BY <1>1, <1>4
<1>6. c \in C(m)
  BY <1>1, <1>5
<1>7. ASSUME NEW y \in C(m) PROVE c <= y
  <2>1. y \in 1 .. Len(m) /\ m[y] = ":"
    BY <1>1
  <2>2. CASE y <= Len(l)
    <3>1. y \in 1 .. Len(l)
      BY <1>1, <2>1, <2>2
    <3>2. y \in C(l)
      BY <1>1, <2>1, <3>1
    <3> QED
      BY <1>4, <3>2
  <2>3. CASE y > Len(l)
    BY <1>1, <1>5, <2>1, <2>3
  <2> QED
    BY <1>1, <2>1, <2>2, <2>3
<1>8. Min(C(m)) = c
  <2> HIDE DEF C
  <2> QED
    BY <1>2, <1>6, <1>7, MinIs
<1>9. HasColon(m)
  BY <1>6 DEF HasColon
<1>10. SubSeq(l, 1, c - 1) = SubSeq(m, 1, c - 1)
  <2>1. PICK b : b = c - 1
    OBVIOUS
  <2>2. 1 \in 1 .. Len(l) + 1 /\ b \in 1 - 1 .. Len(l)
    BY <1>1, <1>5, <2>1
  <2> QED
    BY <2>1, <2>2, BeginsPiece
<1> QED
  BY <1>3, <1>8, <1>9, <1>10 DEF HeaderName

(* The end of the line that starts at s.                                   *)
LineEnd(r, s) == Min({e \in CRLFs(r) : e >= s} \cup {Len(r)})

LEMMA LineEndIs ==
  ASSUME NEW r \in Text, NEW s \in Nat, s <= Len(r)
  PROVE  /\ LineEnd(r, s) \in {e \in CRLFs(r) : e >= s} \cup {Len(r)}
         /\ \A y \in {e \in CRLFs(r) : e >= s} \cup {Len(r)} : LineEnd(r, s) <= y
         /\ LineEnd(r, s) \in s .. Len(r)
<1> DEFINE E == {e \in CRLFs(r) : e >= s} \cup {Len(r)}
<1>1. Len(r) \in Nat /\ \A e \in CRLFs(r) : e \in Nat /\ e <= Len(r)
  <2>1. Len(r) \in Nat
    BY TextIs
  <2>2. \A e \in CRLFs(r) : e \in Nat /\ e \in 1 .. Len(r)
    BY EndIs
  <2> QED
    BY <2>1, <2>2
<1>2. E \in SUBSET Nat /\ E # {} /\ \A y \in E : y \in s .. Len(r)
  BY <1>1
<1>3. Min(E) \in E /\ \A y \in E : Min(E) <= y
  <2> HIDE DEF E
  <2> QED
    BY <1>2, MinType
<1> QED
  BY <1>2, <1>3 DEF LineEnd

LEMMA BeginsLineAt ==
  ASSUME NEW r, NEW w, Begins(r, w), NEW s \in Nat, 1 <= s, s <= Len(r)
  PROVE  Begins(LineAt(r, s), LineAt(w, s))
<1>1. r \in Text /\ w \in Text /\ Len(r) \in Nat /\ Len(w) \in Nat /\ Len(r) <= Len(w)
      /\ \A n \in 1 .. Len(r) : r[n] = w[n]
  BY TextIs DEF Begins
<1>2. PICK x, y : x = LineEnd(r, s) /\ y = LineEnd(w, s)
  OBVIOUS
<1>3. s <= Len(w)
  BY <1>1
<1>4. /\ x \in s .. Len(r)
      /\ \A z \in {e \in CRLFs(r) : e >= s} \cup {Len(r)} : x <= z
  BY <1>1, <1>2, LineEndIs
<1>5. y \in s .. Len(w) /\ y \in {e \in CRLFs(w) : e >= s} \cup {Len(w)}
  BY <1>1, <1>2, <1>3, LineEndIs
<1>6. x <= y
  <2>1. x <= Len(r)
    BY <1>4
  <2>2. CASE y < Len(r)
    <3>1. y \in CRLFs(w) /\ y >= s
      BY <1>1, <1>5, <2>2
    <3>2. y \in CRLFs(r)
      BY <2>2, <3>1, BeginsEnds
    <3> QED
      BY <1>4, <3>1, <3>2
  <2>3. CASE ~(y < Len(r))
    BY <1>1, <1>4, <1>5, <2>1, <2>3
  <2> QED
    BY <2>2, <2>3
<1>7. PICK a, b : a = x - 1 /\ b = y - 1
  OBVIOUS
<1>8. PICK f, g : f = SubSeq(r, s, a) /\ g = SubSeq(w, s, b)
  OBVIOUS
<1>9. LineAt(r, s) = f /\ LineAt(w, s) = g
  BY <1>2, <1>7, <1>8 DEF LineAt, LineEnd
<1>10. s \in 1 .. Len(r) + 1 /\ a \in s - 1 .. Len(r) /\ a \in Int /\ a <= Len(r)
  BY <1>1, <1>4, <1>7
<1>11. s \in 1 .. Len(w) + 1 /\ b \in s - 1 .. Len(w) /\ b \in Int /\ a <= b
  BY <1>1, <1>3, <1>4, <1>5, <1>6, <1>7
<1>12. f \in Text /\ Len(f) = a - s + 1 /\ \A n \in 1 .. a - s + 1 : f[n] = r[s + n - 1]
  BY <1>1, <1>8, <1>10, PieceIs
<1>13. g \in Text /\ Len(g) = b - s + 1 /\ \A n \in 1 .. b - s + 1 : g[n] = w[s + n - 1]
  BY <1>1, <1>8, <1>11, PieceIs
<1>14. ASSUME NEW n \in 1 .. Len(f) PROVE f[n] = g[n]
  <2>1. PICK z : z = s + n - 1
    OBVIOUS
  <2>2. n \in 1 .. a - s + 1 /\ n \in 1 .. b - s + 1 /\ z \in 1 .. Len(r)
    BY <1>1, <1>10, <1>11, <1>12, <2>1
  <2>3. f[n] = r[z] /\ g[n] = w[z]
    BY <1>12, <1>13, <2>1, <2>2
  <2> QED
    BY <1>1, <2>2, <2>3
<1>15. Len(f) <= Len(g)
  BY <1>10, <1>11, <1>12, <1>13
<1> QED
  BY <1>9, <1>12, <1>13, <1>14, <1>15 DEF Begins

LEMMA BeginsHeaders ==
  ASSUME NEW r, NEW w, Begins(r, w)
  PROVE  DOMAIN Headers(r) \subseteq DOMAIN Headers(w)
<1>1. r \in Text /\ w \in Text /\ Len(r) \in Nat /\ Len(w) \in Nat /\ Len(r) <= Len(w)
  BY TextIs DEF Begins
<1>2. ASSUME NEW s \in HeaderLines(r)
      PROVE  s \in HeaderLines(w) /\ HeaderName(LineAt(r, s)) = HeaderName(LineAt(w, s))
  <2>1. /\ s \in LineStarts(r) /\ s < BlankLine(r) /\ s < Len(r) /\ HasColon(LineAt(r, s))
    BY DEF HeaderLines, HasColon
  <2>2. s \in Nat /\ 1 <= s /\ s <= Len(r) /\ s < Len(w)
    BY <1>1, <2>1, StartsAre
  <2>3. Begins(LineAt(r, s), LineAt(w, s))
    BY <2>2, BeginsLineAt
  <2>4. HasColon(LineAt(w, s)) /\ HeaderName(LineAt(r, s)) = HeaderName(LineAt(w, s))
    BY <2>1, <2>3, BeginsName
  <2>5. s \in LineStarts(w)
    BY <2>1, BeginsStarts
  <2>6. s < BlankLine(w)
    <3>1. PICK b : b = BlankLine(w)
      OBVIOUS
    <3>2. b \in Nat /\ b \in (LineStarts(w) \cap CRLFs(w)) \cup {Len(w) + 1}
      BY <1>1, <3>1, BlankIs
    <3>3. ASSUME b <= s PROVE FALSE
      <4>1. b < Len(r) /\ b # Len(w) + 1
        BY <1>1, <2>1, <2>2, <3>2, <3>3
      <4>2. b \in LineStarts(r) \cap CRLFs(r)
        BY <3>2, <4>1, BeginsBlank
      <4>3. BlankLine(r) \in Nat /\ BlankLine(r) <= b
        BY <1>1, <4>2, BlankIs
      <4> QED
        BY <2>1, <2>2, <3>2, <3>3, <4>3
    <3> QED
      BY <2>2, <3>1, <3>2, <3>3
  <2> QED
    BY <2>2, <2>4, <2>5, <2>6 DEF HeaderLines, HasColon
<1>3. /\ DOMAIN Headers(r) = {HeaderName(LineAt(r, s)) : s \in HeaderLines(r)}
      /\ DOMAIN Headers(w) = {HeaderName(LineAt(w, s)) : s \in HeaderLines(w)}
  BY DEF Headers
<1> QED
  BY <1>2, <1>3

(* Begins of a body, in the words of SplitReadsAgree.                      *)
LEMMA BeginsIs ==
  ASSUME NEW x, NEW y, Begins(x, y)
  PROVE  x = SubSeq(y, 1, Len(x))
<1>1. x \in Text /\ Len(x) \in Nat
  BY TextIs DEF Begins
<1>2. 1 \in 1 .. Len(x) + 1 /\ Len(x) \in 1 - 1 .. Len(x)
  BY <1>1
<1>3. SubSeq(x, 1, Len(x)) = SubSeq(y, 1, Len(x))
  BY <1>2, BeginsPiece
<1>4. SubSeq(x, 1, Len(x)) = x
  BY <1>1 DEF Text
<1> QED
  BY <1>3, <1>4

(* The body, if the blank line has come; nothing else passes for it.       *)
LEMMA BeginsBody ==
  ASSUME NEW r, NEW w, Begins(r, w), NEW x, x = From(r, BlankLine(r) + 2)
  PROVE  x = SubSeq(From(w, BlankLine(w) + 2), 1, Len(x))
<1>1. r \in Text /\ w \in Text /\ Len(r) \in Nat /\ Len(w) \in Nat /\ Len(r) <= Len(w)
  BY TextIs DEF Begins
<1>2. PICK b : b = BlankLine(r)
  OBVIOUS
<1>3. /\ b \in (LineStarts(r) \cap CRLFs(r)) \cup {Len(r) + 1} /\ b \in Nat
      /\ \A e \in LineStarts(r) \cap CRLFs(r) : b <= e
  BY <1>1, <1>2, BlankIs
<1>4. CASE b = Len(r) + 1
  <2>1. PICK q : q = b + 2
    OBVIOUS
  <2>2. q \in Int /\ Len(r) < q
    BY <1>1, <1>4, <2>1
  <2>3. x = <<>>
    BY <1>1, <1>2, <2>1, <2>2, SubSeqEmpty DEF From
  <2>4. Len(x) = 0
    BY <2>3
  <2>5. SubSeq(From(w, BlankLine(w) + 2), 1, 0) = <<>>
    BY SubSeqEmpty
  <2> QED
    BY <2>3, <2>4, <2>5
<1>5. CASE b \in LineStarts(r) \cap CRLFs(r)
  <2>1. b <= Len(r) - 1
    BY <1>1, <1>5, EndIs
  <2>2. b \in LineStarts(w) \cap CRLFs(w)
    BY <1>5, BeginsStarts, BeginsEnds
  <2>3. PICK c : c = BlankLine(w)
    OBVIOUS
  <2>4. c \in Nat /\ c <= b /\ c \in (LineStarts(w) \cap CRLFs(w)) \cup {Len(w) + 1}
    BY <1>1, <2>2, <2>3, BlankIs
  <2>5. c < Len(r) /\ c # Len(w) + 1
    BY <1>1, <1>3, <2>1, <2>4
  <2>6. c \in LineStarts(r) \cap CRLFs(r)
    BY <2>4, <2>5, BeginsBlank
  <2>7. b <= c
    BY <1>3, <2>6
  <2>8. b = c
    BY <1>3, <2>4, <2>7
  <2>9. PICK q : q = b + 2
    OBVIOUS
  <2>10. q \in 1 .. Len(r) + 1
    BY <1>1, <1>3, <2>1, <2>9
  <2>11. Begins(From(r, q), From(w, q))
    BY <2>10, BeginsRest
  <2> QED
    BY <1>2, <2>3, <2>8, <2>9, <2>11, BeginsIs
<1> QED
  BY <1>3, <1>4, <1>5

(* The parts of a request that the beginning of a text gives.              *)
LEMMA BeginsParsed ==
  ASSUME NEW t, NEW u, Begins(t, u), NEW q, q = Parsed(t), NEW whole, whole = Parsed(u),
         q.valid
  PROVE  /\ whole.valid
         /\ q.method = whole.method /\ q.path = whole.path
         /\ q.http_version = whole.http_version
         /\ DOMAIN q.headers \subseteq DOMAIN whole.headers
         /\ q.body = SubSeq(whole.body, 1, Len(q.body))
<1>1. t \in Text /\ u \in Text
  BY DEF Begins
<1>2. RequestLines(t) # {}
  <2>1. invalid_request.valid = FALSE
    BY DEF invalid_request, request
  <2> QED
    BY <2>1, ParsedBad
<1>3. PICK l \in RequestLines(t) : TRUE
  BY <1>2
<1>4. PICK i, j, k : i = l.sp1 /\ j = l.sp2 /\ k = l.end
  OBVIOUS
<1>5. LineParts(t, i, j, k)
  BY <1>1, <1>3, <1>4, LineFound
<1>6. /\ LineParts(u, i, j, k)
      /\ SubSeq(t, 1, i - 1) = SubSeq(u, 1, i - 1)
      /\ SubSeq(t, i + 1, j - 1) = SubSeq(u, i + 1, j - 1)
      /\ SubSeq(t, j + 1, k - 1) = SubSeq(u, j + 1, k - 1)
      /\ Begins(From(t, k + 2), From(u, k + 2))
  BY <1>5, BeginsLine
<1>7. PICK r, w : r = From(t, k + 2) /\ w = From(u, k + 2)
  OBVIOUS
<1>8. PICK m : m = [sp1 |-> i, sp2 |-> j, end |-> k]
  OBVIOUS
<1>9. m \in RequestLines(u) /\ m.sp1 = i /\ m.sp2 = j /\ m.end = k
  BY <1>1, <1>6, <1>8, LineIs
<1>10. q = request(TRUE, SubSeq(t, 1, i - 1), SubSeq(t, i + 1, j - 1), SubSeq(t, j + 1, k - 1),
                   Headers(r), From(r, BlankLine(r) + 2))
  BY <1>1, <1>3, <1>4, <1>7, ParsedGood
<1>11. whole = request(TRUE, SubSeq(u, 1, i - 1), SubSeq(u, i + 1, j - 1),
                       SubSeq(u, j + 1, k - 1), Headers(w), From(w, BlankLine(w) + 2))
  BY <1>1, <1>7, <1>9, ParsedGood
<1>12. /\ q.method = SubSeq(t, 1, i - 1) /\ q.path = SubSeq(t, i + 1, j - 1)
       /\ q.http_version = SubSeq(t, j + 1, k - 1)
       /\ q.headers = Headers(r) /\ q.body = From(r, BlankLine(r) + 2)
  <2>1. PICK a, b, c, h, d :
          /\ a = SubSeq(t, 1, i - 1) /\ b = SubSeq(t, i + 1, j - 1)
          /\ c = SubSeq(t, j + 1, k - 1) /\ h = Headers(r) /\ d = From(r, BlankLine(r) + 2)
    OBVIOUS
  <2>2. q = request(TRUE, a, b, c, h, d)
    BY <1>10, <2>1
  <2>3. q.method = a /\ q.path = b /\ q.http_version = c /\ q.headers = h /\ q.body = d
    BY <2>2 DEF request
  <2> QED
    BY <2>1, <2>3, Zenon
<1>13. /\ whole.valid /\ whole.method = SubSeq(u, 1, i - 1)
       /\ whole.path = SubSeq(u, i + 1, j - 1)
       /\ whole.http_version = SubSeq(u, j + 1, k - 1)
       /\ whole.headers = Headers(w) /\ whole.body = From(w, BlankLine(w) + 2)
  <2>1. PICK a, b, c, h, d :
          /\ a = SubSeq(u, 1, i - 1) /\ b = SubSeq(u, i + 1, j - 1)
          /\ c = SubSeq(u, j + 1, k - 1) /\ h = Headers(w) /\ d = From(w, BlankLine(w) + 2)
    OBVIOUS
  <2>2. whole = request(TRUE, a, b, c, h, d)
    BY <1>11, <2>1
  <2>3. /\ whole.valid /\ whole.method = a /\ whole.path = b
        /\ whole.http_version = c /\ whole.headers = h /\ whole.body = d
    BY <2>2 DEF request
  <2> QED
    BY <2>1, <2>3, Zenon
<1>14. Begins(r, w)
  BY <1>6, <1>7
<1>15. DOMAIN q.headers \subseteq DOMAIN whole.headers
  BY <1>12, <1>13, <1>14, BeginsHeaders
<1>16. q.body = SubSeq(whole.body, 1, Len(q.body))
  BY <1>12, <1>13, <1>14, BeginsBody
<1> QED
  BY <1>6, <1>12, <1>13, <1>15, <1>16

(* Wherever a read ends: if what it delivered is taken as a request, then  *)
(* the whole has that method, path and version, has each of its headers,   *)
(* and a body that begins with its body.                                   *)
THEOREM SplitReadsSafe == Spec => []SplitReadsAgree
<1>1. Inv /\ ParseInv => SplitReadsAgree
  <2> SUFFICES ASSUME Inv, ParseInv, Answered, req.valid
               PROVE  LET whole == Parsed(CString(data_copy \o stream)) IN
                        /\ whole.valid
                        /\ req.method = whole.method /\ req.path = whole.path
                        /\ req.http_version = whole.http_version
                        /\ DOMAIN req.headers \subseteq DOMAIN whole.headers
                        /\ req.body = SubSeq(whole.body, 1, Len(req.body))
    BY DEF SplitReadsAgree
  <2>1. req = Parsed(CString(data_copy))
    BY DEF ParseInv, ParseAt
  <2>2. data_copy \in Text /\ stream \in Text
    BY InvParts
  <2>3. Begins(CString(data_copy), CString(data_copy \o stream))
    BY <2>2, BeginsString
  <2> QED
    BY <2>1, <2>3, BeginsParsed
<1> QED
  BY <1>1, Invariance, ParseInvariance, PTL

=============================================================================
