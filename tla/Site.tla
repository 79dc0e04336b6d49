-------------------------------- MODULE Site --------------------------------
(***************************************************************************)
(* What a running server answers under its configuration: the router of    *)
(* session::handle_read, which takes one location of handler_paths a step, *)
(* createByName with the constructors of the handlers that have a          *)
(* location, and static_handler::HandleRequest.  Locations, roots and      *)
(* paths are sequences of characters.                                      *)
(***************************************************************************)
EXTENDS Startup

CONSTANTS
  Alphabet,    \* the characters of locations and paths, in the order of their codes
  Paths,       \* paths of valid requests
  Files        \* the regular files that can be read, without double slashes

Characters == {Alphabet[i] : i \in DOMAIN Alphabet}

ASSUME AlphabetAssumption == Alphabet \in Seq(STRING)

ASSUME PathAssumption == Paths \subseteq Seq(Characters) \ {<<>>}

ASSUME LocationAssumption ==
  \A c \in Configs : \A b \in DOMAIN c :
    get_key_value(c[b], <<"location">>) \in Seq(Characters)

VARIABLES
  at,            \* where the thread is
  path,          \* the path of the request
  rest,          \* locations that the router has not looked at
  name, block,   \* what it has found
  handler_root, location,          \* members of the handler
  reply          \* the last reply of a static handler

siteVars == <<at, path, rest, name, block, handler_root, location, reply>>

NoReply == [code |-> 0, mime |-> "", file |-> <<>>, checked |-> TRUE]

Init ==
  /\ StartInit
  /\ at = "idle" /\ path = <<>> /\ rest = {} /\ name = <<>> /\ block = 0
  /\ handler_root = <<>> /\ location = <<>>
  /\ reply = NoReply

StartsWith(s, prefix) == Len(prefix) <= Len(s) /\ SubSeq(s, 1, Len(prefix)) = prefix

-----------------------------------------------------------------------------
(* The router                                                              *)

handle_read ==
  /\ phase = "running" /\ at = "idle"
  /\ path' \in Paths
  /\ rest' = DOMAIN handler_paths /\ name' = <<>> /\ block' = 0
  /\ reply' = NoReply
  /\ at' = "route"
  /\ UNCHANGED <<startVars, handler_root, location>>

Rank(c) == CHOOSE i \in DOMAIN Alphabet : Alphabet[i] = c

(* std::less<std::string>                                                  *)
Less(s, t) ==
  \E n \in 0 .. Len(s) :
    /\ n < Len(t) /\ SubSeq(s, 1, n) = SubSeq(t, 1, n)
    /\ n = Len(s) \/ Rank(s[n + 1]) < Rank(t[n + 1])

First_mutant(S) == CHOOSE s \in S : \A t \in S \ {s} : Less(t, s)

(* The next element of a std::map.                                         *)
First(S) == CHOOSE s \in S : \A t \in S \ {s} : Less(s, t)

Matches_mutant(l) ==                   \* find anywhere in the path
  path = l \/ \E n \in DOMAIN path : StartsWith(SubSeq(path, n, Len(path)), Append(l, "/"))

Matches(l) == path = l \/ StartsWith(path, Append(l, "/"))

route ==
  /\ at = "route" /\ rest # {}
  /\ LET l == First(rest) IN
       \/ /\ Matches(l)
          /\ name' = handler_paths[l].type /\ block' = handler_paths[l].block
          /\ at' = "create"
          /\ UNCHANGED rest
       \/ /\ ~Matches(l)
          /\ rest' = rest \ {l}
          /\ UNCHANGED <<name, block, at>>
  /\ UNCHANGED <<startVars, path, handler_root, location, reply>>

no_handler ==
  /\ at = "route" /\ rest = {}
  /\ at' = "create"
  /\ UNCHANGED <<startVars, path, rest, name, block, handler_root, location, reply>>

-----------------------------------------------------------------------------
(* createByName and the constructors                                       *)

Get(key) == get_key_value(config[block], <<key>>)

(* The root of static_handler and of meme_handler, for which "." also      *)
(* stands for itself.                                                      *)
Absolute(root) == root[1] = "/" \/ (name = <<"meme">> /\ root = <<".">>)

HandlerRoot(root) ==
  IF root = <<>> THEN server_root
  ELSE IF Absolute(root) THEN root ELSE server_root \o root

createByName ==
  /\ at = "create"
  /\ \/ /\ name \in {<<"static">>, <<"meme">>}
        /\ handler_root' = HandlerRoot(Get("root")) /\ location' = Get("location")
     \/ /\ name = <<"proxy">>
        /\ handler_root' = <<>> /\ location' = Get("location")
     \/ /\ name \notin {<<"static">>, <<"meme">>, <<"proxy">>}
        /\ handler_root' = <<>> /\ location' = <<>>
  /\ at' = "handle"
  /\ UNCHANGED <<startVars, path, rest, name, block, reply>>

-----------------------------------------------------------------------------
(* static_handler::HandleRequest                                           *)

(* One slash in place of several, as the file system reads a name.         *)
Collapse(s) ==
  LET kept == {i \in DOMAIN s : ~(s[i] = "/" /\ i > 1 /\ s[i - 1] = "/")}
  IN [n \in 1 .. Cardinality(kept) |->
        s[CHOOSE i \in kept : Cardinality({j \in kept : j <= i}) = n]]

(* boost::filesystem: what follows the last dot of the last segment.       *)
extension(file) ==
  LET slashes == {i \in DOMAIN file : file[i] = "/"} \cup {0}
      dots == {i \in DOMAIN file : i > Max(slashes) /\ file[i] = "."}
  IN IF dots = {} \/ Len(file) - Max(slashes) = Cardinality(dots) THEN <<>>
     ELSE SubSeq(file, Max(dots), Len(file))

(* compare(".jpg") is not 0 unless the extension is .jpg, so the branches  *)
(* for .png and .zip are never reached and .jpg is sent as text.           *)
mime_type(ext) ==
  CASE ext = <<".", "html">> -> "text/html"
    [] ext \in {<<".", "txt">>, <<".", "jpg">>} -> "text/plain"
    [] OTHER -> "image/jpeg"

WithoutLocation == SubSeq(path, Len(location) + 1, Len(path))

HandleRequest ==
  /\ at = "handle" /\ name = <<"static">>
  /\ LET passed_double_check == StartsWith(path, location)
         file == handler_root \o (IF passed_double_check THEN WithoutLocation ELSE <<>>)
         found == passed_double_check /\ Collapse(file) \in Files
     IN reply' = [code |-> IF found THEN 200 ELSE 404,
                  mime |-> IF found THEN mime_type(extension(file)) ELSE "text/plain",
                  file |-> file, checked |-> passed_double_check]
  /\ at' = "idle"
  /\ UNCHANGED <<startVars, path, rest, name, block, handler_root, location>>

(* The other handlers: Server, MemeStore and Proxy.                        *)
OtherHandler ==
  /\ at = "handle" /\ name # <<"static">>
  /\ at' = "idle"
  /\ UNCHANGED <<startVars, path, rest, name, block, handler_root, location, reply>>

Serve == handle_read \/ route \/ no_handler \/ createByName \/ HandleRequest \/ OtherHandler

vars == <<startVars, siteVars>>

Starting == Start /\ UNCHANGED siteVars

Next == Starting \/ Serve

Spec == Init /\ [][Next]_vars

(* main is one thread, and nothing in it waits before the server runs.     *)
FairSpec == Spec /\ WF_vars(Starting)

-----------------------------------------------------------------------------
(* Properties                                                              *)

Routed == at \in {"create", "handle"}

(* The locations that are the path or one of the directories above it.     *)
Above == {l \in DOMAIN handler_paths :
            l = path \/ \E n \in DOMAIN path : path[n] = "/" /\ l = SubSeq(path, 1, n - 1)}

(* Of the locations above a path the router takes the shortest, and no     *)
(* other: "/static2/index.html" does not fall under "/static", and a       *)
(* location below another one is never reached.                            *)
ShortestLocation ==
  Routed =>
    IF Above = {} THEN name = <<>> /\ block = 0
    ELSE \E l \in Above : /\ \A m \in Above : Len(l) <= Len(m)
                          /\ [type |-> name, block |-> block] = handler_paths[l]

(* "should always start with location": a handler finds in its own block   *)
(* the location it was routed by, so what static_handler, proxy_handler    *)
(* and meme_handler cut off the path is there.                             *)
LocationChecked ==
  /\ at = "handle" => StartsWith(path, location)
  /\ reply.checked

(* A relative root is below the server root, an absolute one is not, and   *)
(* the file is what the path has after the location: "URLs starting with   *)
(* '/static' would serve files out of '/usr/src/projects/static'".         *)
FileBelowRoot ==
  at = "idle" /\ reply.code # 0 =>
    LET own == get_key_value(config[block], <<"root">>)
        top == get_key_value(config[1], <<"root">>)
        base == IF top = <<>> THEN <<".">> ELSE top
        root == IF own # <<>> /\ own[1] = "/" THEN own ELSE base \o <<"/">> \o own
    IN \E l \in Above :
         /\ l = get_key_value(config[block], <<"location">>)
         /\ Collapse(reply.file) = Collapse(root \o SubSeq(path, Len(l) + 1, Len(path)))

=============================================================================
