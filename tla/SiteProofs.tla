----------------------------- MODULE SiteProofs -----------------------------
(* From a configuration to the file that is sent, for every configuration, *)
(* every set of paths and every file system.                               *)
EXTENDS Site, SequenceTheorems, Induction

-----------------------------------------------------------------------------
(* The inductive invariant                                                 *)

Phases == {"parsed", "handlers", "constructing", "constructed", "running", "exited"}

(* The port on its way from the configuration to the acceptor, and the     *)
(* root of the server.                                                     *)
PortInv ==
  /\ phase \in {"parsed", "handlers"} => port = -1 /\ acceptor = -1
  /\ phase \in {"constructing", "constructed", "running"} =>
       /\ port = IF config = <<>> THEN -1 ELSE ToShort(get_port(config[1]))
       /\ config # <<>> => server_root = RootPath(get_key_value(config[1], <<"root">>))
  /\ phase \in {"constructed", "running"} =>
       acceptor = IF port = -1 THEN -1 ELSE ToUnsigned(port)
  /\ phase = "running" => acceptor # -1

(* A call of get_handler_paths is in a block of the configuration, and     *)
(* what it has collected is filed under the location of its own block.     *)
WalkInv ==
  /\ calls \in Seq((1 .. Len(config)) \X (Nat \ {0}))
  /\ IsFiniteSet(DOMAIN handler_paths)
  /\ \A l \in DOMAIN handler_paths :
       /\ handler_paths[l].block \in DOMAIN config
       /\ get_key_value(config[handler_paths[l].block], <<"location">>) = l
       /\ handler_paths[l] = [type |-> handler_paths[l].type, block |-> handler_paths[l].block]

StartInv ==
  /\ phase \in Phases
  /\ config \in Configs \cup {<<>>}
  /\ phase = "handlers" => config # <<>>
  /\ PortInv
  /\ WalkInv

(* A request has been routed, and perhaps answered by a static handler.    *)
Served == Routed \/ reply.code # 0

Unmatched == name = <<>> /\ block = 0 /\ \A l \in DOMAIN handler_paths : ~Matches(l)

(* The router has stopped at the first match of the map.                   *)
MatchedBy(l) ==
  /\ Matches(l) /\ name = handler_paths[l].type /\ block = handler_paths[l].block
  /\ \A m \in DOMAIN handler_paths \ {l} : Matches(m) => Less(l, m)

RouteInv ==
  /\ at \in {"idle", "route", "create", "handle"}
  /\ at # "idle" \/ reply.code # 0 => phase = "running" /\ path \in Paths
  /\ at # "idle" => reply = NoReply
  /\ at = "route" =>
       /\ name = <<>> /\ block = 0 /\ rest \subseteq DOMAIN handler_paths
       /\ \A l \in DOMAIN handler_paths \ rest : ~Matches(l)
  /\ Served => Unmatched \/ \E l \in DOMAIN handler_paths : MatchedBy(l)

(* What the constructor of the handler has read in its block.              *)
HandlerInv ==
  /\ at = "handle" =>
       /\ location = IF name \in {<<"static">>, <<"meme">>, <<"proxy">>}
                       THEN Get("location") ELSE <<>>
       /\ name = <<"static">> => handler_root = HandlerRoot(Get("root"))
  /\ reply.checked = TRUE
  /\ reply.code # 0 =>
       /\ name = <<"static">>
       /\ reply.file = HandlerRoot(Get("root"))
                         \o SubSeq(path, Len(Get("location")) + 1, Len(path))

Inv == StartInv /\ RouteInv /\ HandlerInv

-----------------------------------------------------------------------------
(* Starting                                                                *)

(* A configuration, its blocks and their children.                         *)
LEMMA Blocks ==
  ASSUME StartInv, config # <<>>
  PROVE  /\ config \in Configs /\ Len(config) \in Nat \ {0} /\ DOMAIN config = 1 .. Len(config)
         /\ \A b \in DOMAIN config :
              /\ config[b] \in Seq(Statements) /\ Len(config[b]) \in Nat
              /\ \A i \in 1 .. Len(config[b]) :
                   /\ config[b][i] \in Statements
                   /\ config[b][i].child # 0 => config[b][i].child \in DOMAIN config
<1>1. config \in Configs
  BY DEF StartInv
<1>2. config \in Seq(Seq(Statements)) /\ IsTree(config)
  BY <1>1, ConfigAssumption
<1>3. Len(config) \in Nat \ {0} /\ DOMAIN config = 1 .. Len(config)
  BY <1>2
<1>4. \A b \in DOMAIN config : config[b] \in Seq(Statements)
  BY <1>2, <1>3
<1>5. \A b \in DOMAIN config : DOMAIN config[b] = 1 .. Len(config[b]) /\ Len(config[b]) \in Nat
  BY <1>4
<1>6. \A b \in DOMAIN config : \A i \in 1 .. Len(config[b]) :
        config[b][i].child # 0 => config[b][i].child \in b + 1 .. Len(config)
  BY <1>2, <1>5 DEF IsTree
<1>7. \A b \in DOMAIN config : \A i \in 1 .. Len(config[b]) :
        config[b][i].child # 0 => config[b][i].child \in DOMAIN config
  BY <1>3, <1>6
<1> QED
  BY <1>1, <1>3, <1>4, <1>5, <1>7

LEMMA StartInitial == StartInit => StartInv
<1> SUFFICES ASSUME StartInit PROVE StartInv
  OBVIOUS
<1>1. DOMAIN handler_paths = {}
  BY DEF StartInit
<1>2. IsFiniteSet(DOMAIN handler_paths)
  BY <1>1, FS_EmptySet
<1>3. calls \in Seq((1 .. Len(config)) \X (Nat \ {0}))
  BY DEF StartInit
<1>4. WalkInv
  BY <1>1, <1>2, <1>3 DEF WalkInv
<1>5. PortInv
  BY DEF StartInit, PortInv
<1> QED
  BY <1>4, <1>5 DEF StartInit, StartInv, Phases

(* The three ways on from a statement, or from the end of a block.         *)
LEMMA WalkStep ==
  ASSUME StartInv, get_handler_paths
  PROVE  WalkInv'
<1> DEFINE Calls == (1 .. Len(config)) \X (Nat \ {0})
<1>1. config # <<>> /\ calls # <<>> /\ config' = config /\ calls \in Seq(Calls)
  BY DEF get_handler_paths, StartInv, WalkInv
<1>2. Depth \in 1 .. Len(calls) /\ calls[Depth] \in Calls /\ Depth \in Nat \ {0}
  BY <1>1 DEF Depth
<1>3. /\ calls[Depth][1] \in DOMAIN config /\ Position \in Nat \ {0}
      /\ calls[Depth] = <<calls[Depth][1], Position>>
  <2>1. PICK b \in 1 .. Len(config), i \in Nat \ {0} : calls[Depth] = <<b, i>>
    BY <1>2
  <2>2. DOMAIN config = 1 .. Len(config)
    BY <1>1, Blocks
  <2> QED
    BY <2>1, <2>2 DEF Position
<1>4. Position <= Len(Block) =>
        /\ Current \in Statements
        /\ Current.child # 0 => Current.child \in DOMAIN config
  BY <1>1, <1>3, Blocks, SMTT(30) DEF Block, Current
<1>5. Following \in Seq(Calls)
  <2>1. [calls[Depth] EXCEPT ![2] = @ + 1] = <<calls[Depth][1], Position + 1>>
    BY <1>3
  <2>2. [calls[Depth] EXCEPT ![2] = @ + 1] \in Calls
    <3>1. calls[Depth][1] \in 1 .. Len(config) /\ Position + 1 \in Nat \ {0}
      BY <1>1, <1>3, Blocks
    <3> QED
      BY <2>1, <3>1
  <2>3. Following = [calls EXCEPT ![Depth] = [calls[Depth] EXCEPT ![2] = @ + 1]]
    BY <1>2 DEF Following
  <2> HIDE DEF Calls
  <2> QED
    BY <1>1, <1>2, <2>2, <2>3, ExceptSeq
<1>6. calls' \in Seq(Calls)
  <2>1. CASE calls' = SubSeq(calls, 1, Depth - 1)
    <3> HIDE DEF Calls
    <3> QED
      BY <1>1, <1>2, <2>1 DEF Depth
  <2>2. CASE calls' = Following
    BY <1>5, <2>2
  <2>3. CASE /\ Position <= Len(Block) /\ Current.child # 0
             /\ calls' = Append(Following, <<Current.child, 1>>)
    <3>1. <<Current.child, 1>> \in Calls
      BY <1>1, <1>4, <2>3, Blocks
    <3> HIDE DEF Calls
    <3> QED
      BY <1>5, <2>3, <3>1
  <2> QED
    BY <2>1, <2>2, <2>3 DEF get_handler_paths
<1>7. CASE handler_paths' = handler_paths
  BY <1>1, <1>6, <1>7 DEF StartInv, WalkInv
<1>8. CASE /\ Position <= Len(Block) /\ IsHandler(Current)
           /\ handler_paths' = Put(Current)
  <2> DEFINE L == Location(Current)
  <2>1. DOMAIN handler_paths' = DOMAIN handler_paths \cup {L} /\ handler_paths'[L] = Entry(Current)
    BY <1>8 DEF Put
  <2>2. \A l \in DOMAIN handler_paths \ {L} : handler_paths'[l] = handler_paths[l]
    BY <1>8 DEF Put
  <2>3. IsFiniteSet(DOMAIN handler_paths \cup {L})
    BY FS_AddElement DEF StartInv, WalkInv
  <2>4. /\ handler_paths'[L].block \in DOMAIN config
        /\ get_key_value(config[handler_paths'[L].block], <<"location">>) = L
        /\ handler_paths'[L] = [type |-> handler_paths'[L].type,
                                block |-> handler_paths'[L].block]
    BY <1>4, <1>8, <2>1 DEF Entry, Location, IsHandler
  <2> HIDE DEF L
  <2>5. \A l \in DOMAIN handler_paths' :
          /\ handler_paths'[l].block \in DOMAIN config
          /\ get_key_value(config[handler_paths'[l].block], <<"location">>) = l
          /\ handler_paths'[l] = [type |-> handler_paths'[l].type,
                                  block |-> handler_paths'[l].block]
    BY <2>1, <2>2, <2>4 DEF StartInv, WalkInv
  <2>6. IsFiniteSet(DOMAIN handler_paths')
    BY <2>1, <2>3
  <2> QED
    BY <1>1, <1>6, <2>5, <2>6 DEF WalkInv
<1> QED
  BY <1>7, <1>8 DEF get_handler_paths

LEMMA StartStep == StartInv /\ Start => StartInv'
<1> SUFFICES ASSUME StartInv, Start PROVE StartInv'
  OBVIOUS
<1> USE DEF StartInv, Phases
<1>1. CASE set_config_params
  <2>1. calls' \in Seq((1 .. Len(config)) \X (Nat \ {0}))
    <3>1. CASE config # <<>>
      <4> DEFINE Calls == (1 .. Len(config)) \X (Nat \ {0})
      <4>1. <<1, 1>> \in Calls
        BY <3>1, Blocks
      <4>2. calls' = << <<1, 1>> >>
        BY <1>1, <3>1 DEF set_config_params
      <4> HIDE DEF Calls
      <4>3. calls' \in Seq(Calls)
        BY <4>1, <4>2
      <4> QED
        BY <4>3 DEF Calls
    <3>2. CASE config = <<>>
      BY <1>1, <3>2 DEF set_config_params, WalkInv
    <3> QED
      BY <3>1, <3>2
  <2>2. WalkInv'
    BY <1>1, <2>1 DEF set_config_params, params, WalkInv
  <2>3. PortInv'
    BY <1>1 DEF set_config_params, params, PortInv
  <2> QED
    BY <1>1, <2>2, <2>3 DEF set_config_params
<1>2. CASE get_handler_paths
  <2>1. WalkInv'
    BY <1>2, WalkStep
  <2>2. PortInv'
    BY <1>2 DEF get_handler_paths, PortInv
  <2> QED
    BY <1>2, <2>1, <2>2 DEF get_handler_paths
<1>3. CASE config_params
  <2>1. WalkInv'
    BY <1>3 DEF config_params, WalkInv
  <2>2. PortInv'
    BY <1>3 DEF config_params, PortInv
  <2> QED
    BY <1>3, <2>1, <2>2 DEF config_params
<1>4. CASE server \/ init
  <2>1. WalkInv'
    BY <1>4 DEF server, init, params, WalkInv
  <2>2. PortInv'
    BY <1>4 DEF server, init, params, PortInv
  <2> QED
    BY <1>4, <2>1, <2>2 DEF server, init, params
<1> QED
  BY <1>1, <1>2, <1>3, <1>4 DEF Start

LEMMA StartNext == StartInv /\ [Next]_vars => StartInv'
<1>1. StartInv /\ UNCHANGED startVars => StartInv'
  BY DEF StartInv, startVars, params, PortInv, WalkInv
<1>2. Serve => UNCHANGED startVars
  BY DEF Serve, handle_read, route, no_handler, createByName, HandleRequest, OtherHandler
<1> QED
  BY <1>1, <1>2, StartStep DEF Next, Starting, vars

LEMMA StartInvariance == Spec => []StartInv
  BY StartInitial, StartNext, PTL DEF Spec, Init

(* What the conversions do to a port of the configuration.                 *)
LEMMA RangeIs ==
  ASSUME NEW a \in Int, NEW b \in Int, NEW n \in a .. b
  PROVE  n \in Int /\ a <= n /\ n <= b
  OBVIOUS

LEMMA PortsAre == \A n \in Ports : n \in Int /\ 0 <= n /\ n <= 65534
<1> DEFINE top == 65534
<1>1. Ports = 0 .. top /\ top \in Int /\ 0 \in Int
  BY DEF Ports
<1> HIDE DEF top
<1>2. \A n \in Ports : n \in Int /\ 0 <= n /\ n <= top
  BY <1>1, RangeIs
<1> QED
  BY <1>2 DEF top

LEMMA PortConversion ==
  /\ \A n \in Int : 0 <= n /\ n <= 65534 => ToShort(n) # -1 /\ ToUnsigned(ToShort(n)) = n
  /\ ToShort(-1) = -1
<1>1. ASSUME NEW n \in Int, 0 <= n, n <= 65534
      PROVE  ToShort(n) # -1 /\ ToUnsigned(ToShort(n)) = n
  <2>1. n % 65536 = n
    BY <1>1
  <2>2. CASE n <= 32767
    BY <1>1, <2>1, <2>2 DEF ToShort, ToUnsigned
  <2>3. CASE n > 32767
    <3>1. ToShort(n) = n - 65536
      BY <1>1, <2>1, <2>3 DEF ToShort
    <3>2. (n - 65536) % 65536 = n
      BY <1>1, <2>3
    <3> QED
      BY <1>1, <2>3, <3>1, <3>2 DEF ToUnsigned
  <2> QED
    BY <1>1, <2>2, <2>3
<1>2. ASSUME NEW d \in Nat, d > 1, NEW m \in Int, m + 1 = 0
      PROVE  m % d = d - 1
  BY <1>2
<1>3. ToShort(-1) = -1
  <2>1. ASSUME NEW m \in Int, m + 1 = 0
        PROVE  ToShort(m) = m
    <3>1. m % 65536 = 65535
      BY <1>2, <2>1
    <3> QED
      BY <2>1, <3>1 DEF ToShort
  <2>2. (-1) + 1 = 0 /\ -1 \in Int
    OBVIOUS
  <2> QED
    BY <2>1, <2>2
<1> QED
  BY <1>1, <1>3

(* A port below 65535 that the configuration names survives the way from   *)
(* int through short to unsigned short, and a server without a usable port *)
(* does not run.                                                           *)
THEOREM PortSurvives == Spec => []PortKept
<1>1. StartInv => PortKept
  <2> SUFFICES ASSUME StartInv PROVE PortKept
    OBVIOUS
  <2>1. /\ phase \in {"constructed", "running"} =>
             /\ port = IF config = <<>> THEN -1 ELSE ToShort(ConfiguredPort)
             /\ acceptor = IF port = -1 THEN -1 ELSE ToUnsigned(port)
        /\ phase = "running" => acceptor # -1
    BY DEF StartInv, PortInv, ConfiguredPort
  <2>2. config = <<>> => ConfiguredPort = -1
    BY DEF ConfiguredPort
  <2>3. ASSUME phase \in {"constructed", "running"}, ConfiguredPort \in Ports
        PROVE  acceptor = ConfiguredPort
    <3>1. ConfiguredPort \in Int /\ 0 <= ConfiguredPort /\ ConfiguredPort <= 65534
      BY <2>3, PortsAre
    <3>2. ToShort(ConfiguredPort) # -1 /\ ToUnsigned(ToShort(ConfiguredPort)) = ConfiguredPort
      BY <3>1, PortConversion
    <3>3. config # <<>>
      BY <2>2, <3>1
    <3> QED
      BY <2>1, <2>3, <3>2, <3>3
  <2>4. ASSUME phase = "running", ConfiguredPort = -1
        PROVE  FALSE
    <3>1. port = -1
      BY <2>1, <2>4, PortConversion
    <3> QED
      BY <2>1, <2>4, <3>1
  <2> QED
    BY <2>3, <2>4 DEF PortKept
<1> QED
  BY <1>1, StartInvariance, PTL

-----------------------------------------------------------------------------
(* The order of std::map                                                   *)

LEMMA RankIs ==
  \A c \in Characters : Rank(c) \in Nat /\ Alphabet[Rank(c)] = c
<1>1. DOMAIN Alphabet \subseteq Nat
  BY AlphabetAssumption
<1> QED
  BY <1>1 DEF Rank, Characters

LEMMA RankInjective ==
  ASSUME NEW c \in Characters, NEW d \in Characters
  PROVE  c # d => Rank(c) < Rank(d) \/ Rank(d) < Rank(c)
  BY RankIs

(* Two prefixes of a length are equal if their characters are.             *)
LEMMA PrefixEqual ==
  ASSUME NEW S, NEW s \in Seq(S), NEW t \in Seq(S), NEW n \in Nat, n <= Len(s), n <= Len(t)
  PROVE  SubSeq(s, 1, n) = SubSeq(t, 1, n) <=> \A i \in 1 .. n : s[i] = t[i]
<1>1. /\ SubSeq(s, 1, n) = [i \in 1 .. n |-> s[i]]
      /\ SubSeq(t, 1, n) = [i \in 1 .. n |-> t[i]]
  BY SubSeqRestrict
<1> QED
  BY <1>1

(* s comes before t at position n.                                         *)
Before(s, t, n) ==
  /\ n <= Len(s) /\ n < Len(t) /\ \A i \in 1 .. n : s[i] = t[i]
  /\ n = Len(s) \/ Rank(s[n + 1]) < Rank(t[n + 1])

LEMMA LessIs ==
  ASSUME NEW s \in Seq(Characters), NEW t \in Seq(Characters)
  PROVE  Less(s, t) <=> \E n \in Nat : Before(s, t, n)
<1>1. ASSUME NEW n \in 0 .. Len(s), n < Len(t)
      PROVE  SubSeq(s, 1, n) = SubSeq(t, 1, n) <=> \A i \in 1 .. n : s[i] = t[i]
  BY <1>1, PrefixEqual
<1>2. ASSUME Less(s, t) PROVE \E n \in Nat : Before(s, t, n)
  BY <1>1, <1>2 DEF Less, Before
<1>3. ASSUME NEW n \in Nat, Before(s, t, n) PROVE Less(s, t)
  BY <1>1, <1>3 DEF Less, Before
<1> QED
  BY <1>2, <1>3

LEMMA LessTotal ==
  ASSUME NEW s \in Seq(Characters), NEW t \in Seq(Characters), s # t
  PROVE  Less(s, t) \/ Less(t, s)
<1> DEFINE D == {i \in Nat : i >= 1 /\ i <= Len(s) /\ i <= Len(t) /\ s[i] # t[i]}
<1>1. CASE D = {}
  <2>1. \A i \in Nat : i >= 1 /\ i <= Len(s) /\ i <= Len(t) => s[i] = t[i]
    BY <1>1
  <2>2. Len(s) < Len(t) => Before(s, t, Len(s))
    BY <2>1 DEF Before
  <2>3. Len(t) < Len(s) => Before(t, s, Len(t))
    BY <2>1 DEF Before
  <2>4. Len(s) = Len(t) => s = t
    BY <2>1, SeqEqual
  <2> QED
    BY <2>2, <2>3, <2>4, LessIs
<1>2. CASE D # {}
  <2>1. PICK d \in D : \A i \in D : d <= i
    BY <1>2, SmallestNat
  <2>2. d - 1 \in Nat /\ d - 1 < Len(s) /\ d - 1 < Len(t) /\ (d - 1) + 1 = d
    OBVIOUS
  <2>3. \A i \in 1 .. d - 1 : s[i] = t[i]
    BY <2>1
  <2>4. s[d] \in Characters /\ t[d] \in Characters /\ s[d] # t[d]
    OBVIOUS
  <2>5. Rank(s[d]) < Rank(t[d]) \/ Rank(t[d]) < Rank(s[d])
    BY <2>4, RankInjective
  <2> HIDE DEF D
  <2>6. Before(s, t, d - 1) \/ Before(t, s, d - 1)
    BY <2>2, <2>3, <2>5 DEF Before
  <2> QED
    BY <2>2, <2>6, LessIs
<1> QED
  BY <1>1, <1>2

LEMMA LessTransitive ==
  ASSUME NEW s \in Seq(Characters), NEW t \in Seq(Characters), NEW u \in Seq(Characters),
         Less(s, t), Less(t, u)
  PROVE  Less(s, u)
<1>1. PICK n \in Nat : Before(s, t, n)
  BY LessIs
<1>2. PICK m \in Nat : Before(t, u, m)
  BY LessIs
<1>3. CASE n < m
  <2>1. Before(s, u, n)
    BY <1>1, <1>2, <1>3 DEF Before
  <2> QED
    BY <2>1, LessIs
<1>4. CASE m < n
  <2>1. m < Len(t) /\ m < Len(s)
    BY <1>1, <1>4 DEF Before
  <2>2. Before(s, u, m)
    BY <1>1, <1>2, <1>4, <2>1 DEF Before
  <2> QED
    BY <2>2, LessIs
<1>5. CASE m = n
  <2>1. n < Len(t) /\ n < Len(u) /\ n <= Len(s) /\ \A i \in 1 .. n : s[i] = u[i]
    BY <1>1, <1>2, <1>5 DEF Before
  <2>2. CASE n = Len(s)
    BY <2>1, <2>2, LessIs DEF Before
  <2>3. CASE n < Len(s)
    <3>1. s[n + 1] \in Characters /\ t[n + 1] \in Characters /\ u[n + 1] \in Characters
      BY <2>1, <2>3
    <3>2. Rank(s[n + 1]) < Rank(t[n + 1]) /\ Rank(t[n + 1]) < Rank(u[n + 1])
      BY <1>1, <1>2, <1>5, <2>1, <2>3 DEF Before
    <3>3. Rank(s[n + 1]) < Rank(u[n + 1])
      BY <3>1, <3>2, RankIs
    <3> QED
      BY <2>1, <3>3, LessIs DEF Before
  <2> QED
    BY <2>1, <2>2, <2>3
<1> QED
  BY <1>3, <1>4, <1>5

(* A finite map has a first key.                                           *)
IsFirst(s, S) == s \in S /\ \A t \in S \ {s} : Less(s, t)

LEMMA FirstExists ==
  ASSUME NEW S \in SUBSET Seq(Characters), IsFiniteSet(S), S # {}
  PROVE  \E s \in S : IsFirst(s, S)
<1> DEFINE bad == {T \in SUBSET S : T # {} /\ ~\E s \in T : IsFirst(s, T)}
<1> SUFFICES ASSUME bad # {} PROVE FALSE
  OBVIOUS
<1>1. PICK T \in bad : \A U \in SUBSET T : U # T => U \notin bad
  <2>1. bad \in SUBSET (SUBSET S)
    OBVIOUS
  <2> HIDE DEF bad
  <2> QED
    BY <2>1, SmallestSubset
<1>2. PICK x \in T : TRUE
  OBVIOUS
<1>3. CASE T \ {x} = {}
  BY <1>2, <1>3 DEF IsFirst
<1>4. CASE T \ {x} # {}
  <2>1. PICK y \in T \ {x} : IsFirst(y, T \ {x})
    BY <1>1, <1>2, <1>4
  <2>2. x \in Seq(Characters) /\ y \in Seq(Characters) /\ T \subseteq Seq(Characters) /\ x # y
    OBVIOUS
  <2>3. CASE Less(y, x)
    <3>1. IsFirst(y, T)
      BY <2>1, <2>3 DEF IsFirst
    <3> QED
      BY <3>1
  <2>4. CASE Less(x, y)
    <3>1. \A t \in T \ {x} : t # y => Less(y, t)
      BY <2>1 DEF IsFirst
    <3>2. \A t \in T \ {x} : Less(x, t)
      BY <2>2, <2>4, <3>1, LessTransitive
    <3>3. IsFirst(x, T)
      BY <3>2 DEF IsFirst
    <3> QED
      BY <3>3
  <2> QED
    BY <2>2, <2>3, <2>4, LessTotal
<1> QED
  BY <1>3, <1>4

LEMMA FirstIs ==
  ASSUME NEW S \in SUBSET Seq(Characters), IsFiniteSet(S), S # {}
  PROVE  First(S) \in S /\ \A t \in S \ {First(S)} : Less(First(S), t)
<1>1. \E s \in S : \A t \in S \ {s} : Less(s, t)
  BY FirstExists DEF IsFirst
<1> QED
  BY <1>1 DEF First

-----------------------------------------------------------------------------
(* Routing                                                                 *)

LEMMA Locations ==
  ASSUME StartInv
  PROVE  DOMAIN handler_paths \subseteq Seq(Characters)
<1> SUFFICES ASSUME NEW l \in DOMAIN handler_paths PROVE l \in Seq(Characters)
  OBVIOUS
<1>1. /\ handler_paths[l].block \in DOMAIN config
      /\ get_key_value(config[handler_paths[l].block], <<"location">>) = l
  BY DEF StartInv, WalkInv
<1>2. config \in Configs
  BY <1>1 DEF StartInv
<1> QED
  BY <1>1, <1>2, LocationAssumption

(* The two ways of saying that a path falls under a location.              *)
LEMMA MatchIs ==
  ASSUME NEW S, path \in Seq(S), NEW l \in Seq(S)
  PROVE  Matches(l) <=> \/ l = path
                        \/ \E n \in DOMAIN path : path[n] = "/" /\ l = SubSeq(path, 1, n - 1)
<1> DEFINE slashed == Append(l, "/")
           n == Len(l) + 1
<1>1. slashed \in Seq(S \cup {"/"}) /\ path \in Seq(S \cup {"/"}) /\ l \in Seq(S \cup {"/"})
  BY SeqMonotonic
<1>2. Len(slashed) = n /\ slashed[n] = "/" /\ \A i \in 1 .. Len(l) : slashed[i] = l[i]
  OBVIOUS
<1>3. n \in Nat /\ n >= 1 /\ n - 1 = Len(l) /\ DOMAIN path = 1 .. Len(path) /\ Len(path) \in Nat
  OBVIOUS
<1>4. SubSeq(slashed, 1, n) = slashed
  BY <1>1, <1>2, SubSeqFull
<1> HIDE DEF slashed, n
<1>5. n <= Len(path) =>
        (SubSeq(path, 1, n) = slashed <=> \A i \in 1 .. n : path[i] = slashed[i])
  BY <1>1, <1>2, <1>3, <1>4, PrefixEqual
<1>6. SubSeq(l, 1, Len(l)) = l
  BY SubSeqFull
<1>7. n <= Len(path) =>
        (SubSeq(path, 1, n - 1) = l <=> \A i \in 1 .. n - 1 : path[i] = l[i])
  BY <1>3, <1>6, PrefixEqual
<1>8. StartsWith(path, slashed) <=> /\ n <= Len(path) /\ path[n] = "/"
                                    /\ SubSeq(path, 1, n - 1) = l
  BY <1>2, <1>3, <1>5, <1>7 DEF StartsWith
<1>9. ASSUME NEW k \in DOMAIN path, l = SubSeq(path, 1, k - 1)
      PROVE  k = n
  <2>1. Len(SubSeq(path, 1, k - 1)) = k - 1
    BY <1>3, <1>9, SubSeqProperties
  <2> QED
    BY <1>3, <1>9, <2>1
<1> QED
  BY <1>3, <1>8, <1>9 DEF Matches, slashed

LEMMA MatchPrefix ==
  ASSUME NEW S, path \in Seq(S), NEW l \in Seq(S), Matches(l)
  PROVE  Len(l) <= Len(path) /\ (\A i \in 1 .. Len(l) : l[i] = path[i]) /\ StartsWith(path, l)
<1>1. CASE l = path
  <2>1. SubSeq(path, 1, Len(path)) = path
    BY SubSeqFull
  <2> QED
    BY <1>1, <2>1 DEF StartsWith
<1>2. ASSUME NEW n \in DOMAIN path, l = SubSeq(path, 1, n - 1)
      PROVE  /\ Len(l) <= Len(path) /\ StartsWith(path, l)
             /\ \A i \in 1 .. Len(l) : l[i] = path[i]
  <2>1. n \in Nat /\ n >= 1 /\ n <= Len(path) /\ Len(path) \in Nat
    BY <1>2
  <2>2. Len(l) = n - 1
    BY <1>2, <2>1, SubSeqProperties
  <2>3. l = [i \in 1 .. n - 1 |-> path[i]]
    BY <1>2, <2>1, SubSeqRestrict
  <2> QED
    BY <1>2, <2>1, <2>2, <2>3 DEF StartsWith
<1> QED
  BY <1>1, <1>2, MatchIs

(* Of two locations above a path the smaller one is the shorter one.       *)
LEMMA ShorterFirst ==
  ASSUME path \in Seq(Characters), NEW l \in Seq(Characters), NEW m \in Seq(Characters),
         Matches(l), Matches(m), Less(l, m)
  PROVE  Len(l) <= Len(m)
<1>1. PICK n \in Nat : Before(l, m, n)
  BY LessIs
<1>2. CASE n = Len(l)
  BY <1>1, <1>2 DEF Before
<1>3. CASE n < Len(l)
  <2>1. n + 1 \in 1 .. Len(l) /\ n + 1 \in 1 .. Len(m) /\ Rank(l[n + 1]) < Rank(m[n + 1])
    BY <1>1, <1>3 DEF Before
  <2>2. l[n + 1] = path[n + 1] /\ m[n + 1] = path[n + 1] /\ l[n + 1] \in Characters
    BY <2>1, MatchPrefix
  <2> QED
    BY <2>1, <2>2, RankIs
<1> QED
  BY <1>1, <1>2, <1>3 DEF Before

LEMMA RequestPath == ASSUME NEW p \in Paths PROVE p \in Seq(Characters)
  BY PathAssumption

LEMMA NoReplyIs == NoReply.code = 0 /\ NoReply.checked = TRUE
  BY DEF NoReply

LEMMA RouteInitial == Init => RouteInv /\ HandlerInv
  BY NoReplyIs DEF Init, RouteInv, HandlerInv, Served, Routed

(* Nothing is served before the server runs.                               *)
LEMMA RouteStart ==
  ASSUME RouteInv, HandlerInv, Starting
  PROVE  RouteInv' /\ HandlerInv'
<1>1. phase # "running" /\ UNCHANGED siteVars
  BY DEF Starting, Start, set_config_params, get_handler_paths, config_params, server, init
<1>2. at = "idle" /\ reply.code = 0
  BY <1>1 DEF RouteInv
<1> QED
  BY <1>1, <1>2 DEF RouteInv, HandlerInv, Served, Routed, siteVars

LEMMA RouteStep ==
  ASSUME StartInv, RouteInv, HandlerInv, route
  PROVE  RouteInv' /\ HandlerInv'
<1>0. PICK l : l = First(rest)
  OBVIOUS
<1>1. rest \subseteq DOMAIN handler_paths /\ rest # {} /\ at = "route"
  BY DEF route, RouteInv
<1>2. l \in rest /\ \A m \in rest \ {l} : Less(l, m)
  <2>1. IsFiniteSet(rest)
    BY <1>1, FS_Subset DEF StartInv, WalkInv
  <2> QED
    BY <1>0, <1>1, <2>1, Locations, FirstIs
<1>3. \A m \in DOMAIN handler_paths \ rest : ~Matches(m)
  BY <1>1 DEF RouteInv
<1>4. /\ reply = NoReply /\ phase = "running" /\ path \in Paths
      /\ UNCHANGED <<phase, handler_paths, path, reply>>
  BY <1>1 DEF RouteInv, route, startVars, params
<1>5. reply.code = 0 /\ reply.checked = TRUE
  BY <1>4, NoReplyIs
<1>6. \A m : Matches(m)' <=> Matches(m)
  BY <1>4 DEF Matches
<1>7. CASE Matches(l)
  <2>1. /\ name' = handler_paths[l].type /\ block' = handler_paths[l].block
        /\ at' = "create"
    BY <1>0, <1>7 DEF route
  <2>2. \A m \in DOMAIN handler_paths \ {l} : Matches(m) => Less(l, m)
    BY <1>2, <1>3
  <2>3. MatchedBy(l)' /\ l \in DOMAIN handler_paths'
    <3>1. l \in DOMAIN handler_paths
      BY <1>1, <1>2
    <3> QED
      BY <1>4, <1>6, <1>7, <2>1, <2>2, <3>1 DEF MatchedBy
  <2> QED
    BY <1>4, <1>5, <2>1, <2>3, NoReplyIs DEF RouteInv, HandlerInv
<1>8. CASE ~Matches(l)
  <2>1. rest' = rest \ {l} /\ UNCHANGED <<name, block, at>>
    BY <1>0, <1>8 DEF route
  <2>2. \A m \in DOMAIN handler_paths' \ rest' : ~Matches(m)'
    BY <1>3, <1>4, <1>6, <1>8, <2>1
  <2> QED
    BY <1>1, <1>4, <1>5, <2>1, <2>2 DEF RouteInv, HandlerInv, Served, Routed
<1> QED
  BY <1>7, <1>8

(* A static, meme or proxy handler was routed by the location in its block. *)
LEMMA OwnLocation ==
  ASSUME StartInv, RouteInv, Served, name # <<>>
  PROVE  /\ Get("location") \in DOMAIN handler_paths /\ Matches(Get("location"))
         /\ path \in Seq(Characters) /\ Get("location") \in Seq(Characters)
         /\ StartsWith(path, Get("location"))
<1>1. PICK l \in DOMAIN handler_paths : MatchedBy(l)
  BY DEF RouteInv, Served, Unmatched
<1>2. Get("location") = l
  BY <1>1 DEF MatchedBy, Get, StartInv, WalkInv
<1>3. path \in Seq(Characters)
  BY RequestPath DEF RouteInv, Served, Routed
<1> QED
  BY <1>1, <1>2, <1>3, Locations, MatchPrefix DEF MatchedBy

LEMMA ServeStep ==
  ASSUME StartInv, RouteInv, HandlerInv, Serve
  PROVE  RouteInv' /\ HandlerInv'
<1>1. UNCHANGED startVars /\ UNCHANGED <<phase, config, handler_paths, server_root>>
  BY DEF Serve, handle_read, route, no_handler, createByName, HandleRequest, OtherHandler,
     startVars, params
<1>2. CASE handle_read
  <2>1. RouteInv'
    BY <1>1, <1>2, NoReplyIs DEF handle_read, RouteInv, Served, Routed
  <2>2. HandlerInv'
    BY <1>2, NoReplyIs DEF handle_read, HandlerInv
  <2> QED
    BY <2>1, <2>2
<1>3. CASE route
  BY <1>3, RouteStep
<1>4. CASE no_handler
  <2>1. reply = NoReply /\ UNCHANGED <<reply, path, name, block>> /\ rest = {} /\ at' = "create"
        /\ at = "route"
    BY <1>4 DEF no_handler, RouteInv
  <2>2. Unmatched'
    BY <1>1, <2>1 DEF RouteInv, Unmatched, Matches
  <2>3. RouteInv'
    BY <1>1, <2>1, <2>2, NoReplyIs DEF RouteInv
  <2>4. HandlerInv'
    BY <2>1, NoReplyIs DEF HandlerInv
  <2> QED
    BY <2>3, <2>4
<1>5. CASE createByName
  <2>1. RouteInv'
    BY <1>1, <1>5, NoReplyIs DEF createByName, RouteInv, Served, Routed, Unmatched, MatchedBy,
       Matches
  <2>2. HandlerInv'
    <3>1. /\ reply' = NoReply /\ at' = "handle"
          /\ UNCHANGED <<name, block, config, server_root>>
      BY <1>1, <1>5 DEF createByName, RouteInv
    <3>2. \A key : Get(key)' = Get(key)
      BY <3>1 DEF Get
    <3>3. \A root : HandlerRoot(root)' = HandlerRoot(root)
      BY <3>1 DEF HandlerRoot, Absolute
    <3>4. /\ location' = IF name \in {<<"static">>, <<"meme">>, <<"proxy">>}
                           THEN Get("location") ELSE <<>>
          /\ name = <<"static">> => handler_root' = HandlerRoot(Get("root"))
      BY <1>5 DEF createByName
    <3> QED
      BY <3>1, <3>2, <3>3, <3>4, NoReplyIs DEF HandlerInv
  <2> QED
    BY <2>1, <2>2
<1>6. CASE HandleRequest
  <2>1. /\ at = "handle" /\ name = <<"static">> /\ at' = "idle"
        /\ UNCHANGED <<path, rest, name, block>>
    BY <1>6 DEF HandleRequest
  <2>2. StartsWith(path, location) /\ location = Get("location")
        /\ handler_root = HandlerRoot(Get("root"))
    <3>1. location = Get("location") /\ handler_root = HandlerRoot(Get("root"))
      BY <2>1 DEF HandlerInv
    <3>2. Served /\ name # <<>>
      BY <2>1 DEF Served, Routed
    <3> QED
      BY <3>1, <3>2, OwnLocation
  <2>3. /\ reply'.checked = TRUE /\ reply'.code \in {200, 404}
        /\ reply'.file = handler_root \o WithoutLocation
    BY <1>6, <2>2 DEF HandleRequest
  <2>4. RouteInv'
    BY <1>1, <2>1, <2>3 DEF RouteInv, Served, Routed, Unmatched, MatchedBy, Matches
  <2>5. HandlerInv'
    BY <1>1, <2>1, <2>2, <2>3 DEF HandlerInv, WithoutLocation, Get, HandlerRoot, Absolute
  <2> QED
    BY <2>4, <2>5
<1>7. CASE OtherHandler
  BY <1>1, <1>7, NoReplyIs DEF OtherHandler, RouteInv, HandlerInv, Served, Routed
<1> QED
  BY <1>2, <1>3, <1>4, <1>5, <1>6, <1>7 DEF Serve

LEMMA InvNext == Inv /\ [Next]_vars => Inv'
<1> SUFFICES ASSUME Inv, [Next]_vars PROVE Inv'
  OBVIOUS
<1>1. StartInv'
  BY StartNext DEF Inv
<1>2. CASE Starting \/ Serve
  BY <1>1, <1>2, RouteStart, ServeStep DEF Inv
<1>3. CASE UNCHANGED vars
  <2>1. RouteInv' /\ HandlerInv'
    BY <1>3 DEF Inv, RouteInv, HandlerInv, Served, Routed, Unmatched, MatchedBy, Matches,
       vars, startVars, params, siteVars, Get, HandlerRoot, Absolute
  <2> QED
    BY <1>1, <2>1 DEF Inv
<1> QED
  BY <1>2, <1>3 DEF Next

LEMMA Invariance == Spec => []Inv
<1>1. Init => Inv
  BY StartInitial, RouteInitial DEF Init, Inv
<1> QED
  BY <1>1, InvNext, PTL DEF Spec

(* A static, proxy or meme handler finds in its own block the location it  *)
(* was routed by, so what it cuts off the path is there: the double check  *)
(* of static_handler always passes.                                        *)
THEOREM LocationsChecked == Spec => []LocationChecked
<1>1. Inv => LocationChecked
  <2> SUFFICES ASSUME Inv PROVE LocationChecked
    OBVIOUS
  <2>1. ASSUME at = "handle" PROVE StartsWith(path, location)
    <3>1. CASE name \in {<<"static">>, <<"meme">>, <<"proxy">>}
      <4>1. location = Get("location") /\ Served /\ name # <<>>
        BY <2>1, <3>1 DEF Inv, HandlerInv, Served, Routed
      <4> QED
        BY <4>1, OwnLocation DEF Inv
    <3>2. CASE name \notin {<<"static">>, <<"meme">>, <<"proxy">>}
      <4>1. location = <<>> /\ path \in Seq(Characters)
        BY <2>1, <3>2, RequestPath DEF Inv, HandlerInv, RouteInv
      <4>2. SubSeq(path, 1, 0) = <<>>
        BY <4>1, SubSeqEmpty
      <4> QED
        BY <4>1, <4>2 DEF StartsWith
    <3> QED
      BY <3>1, <3>2
  <2>2. reply.checked = TRUE
    BY DEF Inv, HandlerInv
  <2> QED
    BY <2>1, <2>2, Zenon DEF LocationChecked
<1> QED
  BY <1>1, Invariance, PTL

(* Of the locations above the path of a request the router, which stops at *)
(* the first match in the order of the map, takes the shortest.            *)
THEOREM ShortestLocationServes == Spec => []ShortestLocation
<1>1. Inv => ShortestLocation
  <2> SUFFICES ASSUME Inv, Routed
               PROVE  IF Above = {} THEN name = <<>> /\ block = 0
                      ELSE \E l \in Above :
                             /\ \A m \in Above : Len(l) <= Len(m)
                             /\ [type |-> name, block |-> block] = handler_paths[l]
    BY DEF ShortestLocation
  <2>1. path \in Seq(Characters)
    BY RequestPath DEF Inv, RouteInv, Routed
  <2>2. \A l \in DOMAIN handler_paths : l \in Above <=> Matches(l)
    BY <2>1, Locations, MatchIs DEF Above, Inv
  <2>3. Above \subseteq DOMAIN handler_paths
    BY DEF Above
  <2>4. CASE Unmatched
    BY <2>2, <2>3, <2>4 DEF Unmatched
  <2>5. ASSUME NEW l \in DOMAIN handler_paths, MatchedBy(l)
        PROVE  /\ l \in Above /\ \A m \in Above : Len(l) <= Len(m)
               /\ [type |-> name, block |-> block] = handler_paths[l]
    <3>1. l \in Above
      BY <2>2, <2>5 DEF MatchedBy
    <3>2. ASSUME NEW m \in Above PROVE Len(l) <= Len(m)
      <4>1. l \in Seq(Characters) /\ m \in Seq(Characters) /\ Matches(m)
        BY <2>2, <2>3, Locations DEF Inv
      <4>2. CASE m = l
        BY <4>1, <4>2
      <4>3. CASE m # l
        BY <2>1, <2>3, <2>5, <4>1, <4>3, ShorterFirst DEF MatchedBy
      <4> QED
        BY <4>2, <4>3
    <3>3. [type |-> name, block |-> block] = handler_paths[l]
      BY <2>5 DEF MatchedBy, Inv, StartInv, WalkInv
    <3> QED
      BY <3>1, <3>2, <3>3
  <2> QED
    BY <2>4, <2>5 DEF Inv, RouteInv, Served
<1> QED
  BY <1>1, Invariance, PTL

-----------------------------------------------------------------------------
(* File names                                                              *)

(* The place of i among the members of J.                                  *)
Place(J, i) == Cardinality({j \in J : j <= i})

LEMMA PlaceIncreases ==
  ASSUME NEW J \in SUBSET Nat, IsFiniteSet(J), NEW i \in J, NEW k \in J, i < k
  PROVE  Place(J, i) < Place(J, k)
<1> DEFINE A == {j \in J : j <= i}
           B == {j \in J : j <= k}
<1>1. IsFiniteSet(A) /\ IsFiniteSet(B)
  BY FS_Subset
<1>2. k \in B /\ A \in SUBSET (B \ {k})
  <2>1. \A j \in J : j \in Nat
    OBVIOUS
  <2>2. k \in B
    BY <2>1
  <2>3. \A j \in A : j \in B /\ j # k
    BY <2>1
  <2> QED
    BY <2>2, <2>3
<1> HIDE DEF A, B
<1>3. /\ IsFiniteSet(B \ {k}) /\ Cardinality(B \ {k}) = Cardinality(B) - 1
      /\ Cardinality(B) \in Nat /\ Cardinality(A) \in Nat
  BY <1>1, <1>2, FS_RemoveElement, FS_CardinalityType
<1>4. Cardinality(A) <= Cardinality(B \ {k})
  BY <1>2, <1>3, FS_Subset
<1>5. Cardinality(A) < Cardinality(B)
  BY <1>3, <1>4
<1> QED
  BY <1>5 DEF Place, A, B

LEMMA PlaceType ==
  ASSUME NEW J \in SUBSET Nat, IsFiniteSet(J), NEW i \in J
  PROVE  Cardinality(J) \in Nat /\ Place(J, i) \in 1 .. Cardinality(J)
<1> DEFINE A == {j \in J : j <= i}
<1>1. i \in A /\ A \in SUBSET J
  OBVIOUS
<1> HIDE DEF A
<1>2. IsFiniteSet(A) /\ Cardinality(A) <= Cardinality(J)
  BY <1>1, FS_Subset
<1>3. Cardinality(A) \in Nat /\ Cardinality(J) \in Nat /\ Cardinality(A) # 0
  BY <1>1, <1>2, FS_CardinalityType, FS_EmptySet
<1>4. Cardinality(A) \in 1 .. Cardinality(J)
  BY <1>2, <1>3
<1> QED
  BY <1>3, <1>4 DEF Place, A

(* Every place is taken, by one member.                                    *)
LEMMA PlaceOnto ==
  ASSUME NEW J \in SUBSET Nat, IsFiniteSet(J), NEW n \in 1 .. Cardinality(J)
  PROVE  \E i \in J : Place(J, i) = n /\ \A k \in J : Place(J, k) = n => k = i
<1> DEFINE N == 1 .. Cardinality(J)
           f == [i \in J |-> Place(J, i)]
<1>1. \A i \in J, k \in J : i # k => Place(J, i) # Place(J, k)
  <2> SUFFICES ASSUME NEW i \in J, NEW k \in J, i # k PROVE Place(J, i) # Place(J, k)
    OBVIOUS
  <2>1. Place(J, i) \in Nat /\ Place(J, k) \in Nat
    BY PlaceType
  <2>2. CASE i < k
    BY <2>1, <2>2, PlaceIncreases
  <2>3. CASE k < i
    BY <2>1, <2>3, PlaceIncreases
  <2> QED
    BY <2>2, <2>3
<1>2. Cardinality(J) \in Nat
  BY FS_CardinalityType
<1>3. IsFiniteSet(N) /\ Cardinality(N) = Cardinality(J)
  BY <1>2, FS_Interval
<1>4. f \in [J -> N]
  BY PlaceType
<1>5. f \in Injection(J, N)
  BY <1>1, <1>4 DEF Injection, IsInjective
<1> HIDE DEF N, f
<1>6. f \in Surjection(J, N)
  BY <1>3, <1>5, FS_Injection
<1>7. n \in N
  BY DEF N
<1>8. PICK i \in J : f[i] = n
  BY <1>6, <1>7 DEF Surjection
<1> QED
  BY <1>1, <1>8 DEF f

(* Collapse, with its parts named.                                         *)
Kept(s) == {i \in DOMAIN s : ~(s[i] = "/" /\ i > 1 /\ s[i - 1] = "/")}
KeptAt(s, n) == CHOOSE i \in Kept(s) : Place(Kept(s), i) = n

LEMMA CollapseIs ==
  \A s : Collapse(s) = [n \in 1 .. Cardinality(Kept(s)) |-> s[KeptAt(s, n)]]
  BY DEF Collapse, Kept, KeptAt, Place

LEMMA KeptFinite ==
  ASSUME NEW S, NEW s \in Seq(S)
  PROVE  Kept(s) \in SUBSET Nat /\ IsFiniteSet(Kept(s))
<1>1. IsFiniteSet(1 .. Len(s)) /\ Kept(s) \in SUBSET (1 .. Len(s))
  BY FS_Interval DEF Kept
<1> QED
  BY <1>1, FS_Subset

LEMMA KeptAtIs ==
  ASSUME NEW S, NEW s \in Seq(S), NEW i \in Kept(s), NEW n, Place(Kept(s), i) = n
  PROVE  KeptAt(s, n) = i
<1>1. Kept(s) \in SUBSET Nat /\ IsFiniteSet(Kept(s))
  BY KeptFinite
<1>2. n \in 1 .. Cardinality(Kept(s))
  BY <1>1, PlaceType
<1>3. \E k \in Kept(s) : Place(Kept(s), k) = n /\ \A m \in Kept(s) : Place(Kept(s), m) = n => m = k
  BY <1>1, <1>2, PlaceOnto
<1> QED
  BY <1>3 DEF KeptAt

(* A second slash at the beginning is not seen.                            *)
LEMMA CollapseSlash ==
  ASSUME NEW S, NEW y \in Seq(S)
  PROVE  Collapse(<<"/", "/">> \o y) = Collapse(<<"/">> \o y)
<1> DEFINE A == S \cup {"/"}
           s == <<"/", "/">> \o y
           t == <<"/">> \o y
           J == Kept(t)
           K == Kept(s)
           F(i) == IF i = 1 THEN 1 ELSE i + 1
<1>1. y \in Seq(A) /\ <<"/", "/">> \in Seq(A) /\ <<"/">> \in Seq(A)
  BY SeqMonotonic
<1>2. /\ s \in Seq(A) /\ DOMAIN s = 1 .. Len(y) + 2 /\ s[1] = "/" /\ s[2] = "/"
      /\ \A i \in 3 .. Len(y) + 2 : s[i] = y[i - 2]
  BY <1>1
<1>3. /\ t \in Seq(A) /\ DOMAIN t = 1 .. Len(y) + 1 /\ t[1] = "/"
      /\ \A i \in 2 .. Len(y) + 1 : t[i] = y[i - 1]
  BY <1>1
<1>4. Len(y) \in Nat
  OBVIOUS
<1> HIDE DEF A, s, t
<1>5. \A i \in 1 .. Len(y) + 1 : s[i + 1] = t[i]
  BY <1>2, <1>3, <1>4
<1>6. 1 \in J /\ 1 \in K /\ 2 \notin K
  BY <1>2, <1>3, <1>4 DEF Kept
<1>7. \A i \in 2 .. Len(y) + 1 : i \in J <=> i + 1 \in K
  BY <1>2, <1>3, <1>4, <1>5 DEF Kept
<1>8. J \subseteq 1 .. Len(y) + 1 /\ K \subseteq 1 .. Len(y) + 2
  BY <1>2, <1>3 DEF Kept
<1>9. /\ J \in SUBSET Nat /\ IsFiniteSet(J) /\ K \in SUBSET Nat /\ IsFiniteSet(K)
  BY <1>2, <1>3, KeptFinite
<1> HIDE DEF J, K
<1>10. \A i \in J : F(i) \in K /\ s[F(i)] = t[i]
  BY <1>2, <1>3, <1>4, <1>5, <1>6, <1>7, <1>8
<1>11. \A k \in K : \E i \in J : k = F(i)
  <2> SUFFICES ASSUME NEW k \in K, k # 1 PROVE \E i \in J : k = F(i)
    BY <1>6
  <2>1. k \in 3 .. Len(y) + 2
    BY <1>4, <1>6, <1>8
  <2>2. k - 1 \in 2 .. Len(y) + 1 /\ (k - 1) + 1 = k
    BY <1>4, <2>1
  <2>3. k - 1 \in J /\ k = F(k - 1)
    BY <1>7, <2>2
  <2> QED
    BY <2>3
<1>12. ASSUME NEW m \in Nat
       PROVE  LET P == {j \in J : j <= m}
                  Q == {k \in K : k <= m + 1}
              IN  m >= 1 => Cardinality(P) = Cardinality(Q) /\ IsFiniteSet(P)
  <2> SUFFICES ASSUME m >= 1
               PROVE  LET P == {j \in J : j <= m}
                          Q == {k \in K : k <= m + 1}
                      IN  Cardinality(P) = Cardinality(Q) /\ IsFiniteSet(P)
    OBVIOUS
  <2> DEFINE P == {j \in J : j <= m}
             Q == {k \in K : k <= m + 1}
             f == [j \in P |-> F(j)]
  <2>1. IsFiniteSet(P)
    BY <1>9, FS_Subset
  <2>2. \A j \in P : F(j) \in Q
    BY <1>9, <1>10
  <2>3. \A j, k \in P : F(j) = F(k) => j = k
    <3>1. \A j \in P : j \in Nat /\ j >= 1
      BY <1>4, <1>8
    <3> QED
      BY <3>1
  <2>4. \A k \in Q : \E j \in P : k = F(j)
    BY <1>9, <1>11
  <2> HIDE DEF P, Q, F
  <2>5. f \in Injection(P, Q) /\ f \in Surjection(P, Q)
    BY <2>2, <2>3, <2>4 DEF Injection, IsInjective, Surjection
  <2>6. ExistsBijection(P, Q)
    BY <2>5 DEF ExistsBijection, Bijection
  <2>7. Cardinality(Q) = Cardinality(P)
    BY <2>1, <2>6, FS_Bijection
  <2> QED
    BY <2>1, <2>7 DEF P, Q
<1>13. Cardinality(J) = Cardinality(K)
  <2>1. J = {j \in J : j <= Len(y) + 1} /\ K = {k \in K : k <= (Len(y) + 1) + 1}
    <3>1. \A j \in J : j <= Len(y) + 1
      BY <1>4, <1>8
    <3>2. \A k \in K : k <= (Len(y) + 1) + 1
      BY <1>4, <1>8
    <3> QED
      BY <3>1, <3>2, Zenon
  <2>2. Cardinality({j \in J : j <= Len(y) + 1}) = Cardinality({k \in K : k <= (Len(y) + 1) + 1})
    BY <1>4, <1>12
  <2> QED
    BY <2>1, <2>2, Zenon
<1>14. \A i \in J : Place(K, F(i)) = Place(J, i)
  <2> SUFFICES ASSUME NEW i \in J PROVE Place(K, F(i)) = Place(J, i)
    OBVIOUS
  <2>1. i \in Nat /\ i >= 1
    BY <1>8
  <2>2. {k \in K : k <= F(i)} = {k \in K : k <= i + 1}
    <3>1. \A k \in K : k \in Nat /\ k # 2
      BY <1>6, <1>9
    <3>2. \A k \in K : k <= F(i) <=> k <= i + 1
      BY <2>1, <3>1
    <3> HIDE DEF F
    <3> QED
      BY <3>2
  <2>3. Cardinality({j \in J : j <= i}) = Cardinality({k \in K : k <= i + 1})
    BY <1>12, <2>1
  <2>4. Cardinality({k \in K : k <= F(i)}) = Cardinality({k \in K : k <= i + 1})
    BY <2>2, Zenon
  <2> HIDE DEF F
  <2> QED
    BY <2>3, <2>4 DEF Place
<1>15. \A n \in 1 .. Cardinality(J) : s[KeptAt(s, n)] = t[KeptAt(t, n)]
  <2> SUFFICES ASSUME NEW n \in 1 .. Cardinality(J) PROVE s[KeptAt(s, n)] = t[KeptAt(t, n)]
    OBVIOUS
  <2>1. PICK i \in J : Place(J, i) = n
    BY <1>9, PlaceOnto
  <2>2. KeptAt(t, n) = i
    BY <1>3, <2>1, KeptAtIs DEF J
  <2>3. F(i) \in K /\ Place(K, F(i)) = n /\ s[F(i)] = t[i]
    BY <1>10, <1>14, <2>1
  <2> HIDE DEF F
  <2>4. KeptAt(s, n) = F(i)
    BY <1>2, <2>3, KeptAtIs DEF K
  <2> QED
    BY <2>2, <2>3, <2>4
<1>16. Collapse(s) = Collapse(t)
  <2>1. /\ Collapse(s) = [n \in 1 .. Cardinality(K) |-> s[KeptAt(s, n)]]
        /\ Collapse(t) = [n \in 1 .. Cardinality(J) |-> t[KeptAt(t, n)]]
    BY CollapseIs DEF J, K
  <2> QED
    BY <1>13, <1>15, <2>1
<1> QED
  BY <1>16 DEF s, t

(* What a lookup finds is a token.                                         *)
LEMMA LookupType ==
  ASSUME NEW b \in Seq(Statements), NEW key
  PROVE  get_key_value(b, key) \in Seq(STRING)
<1> DEFINE found == {i \in DOMAIN b : IsPair(b[i], key) /\ b[i].child = 0}
<1>1. CASE found = {}
  <2>1. get_key_value(b, key) = <<>>
    BY <1>1 DEF get_key_value
  <2> QED
    BY <2>1, EmptySeq
<1>2. CASE found # {}
  <2>1. found \in SUBSET Nat
    OBVIOUS
  <2>2. Min(found) \in found
    <3> HIDE DEF found
    <3>1. \E x \in found : \A y \in found : x =< y
      BY <1>2, <2>1, SmallestNat
    <3> QED
      BY <3>1 DEF Min
  <2>3. b[Min(found)] \in Statements /\ IsPair(b[Min(found)], key)
    BY <2>2
  <2>4. b[Min(found)].tokens[2] \in Seq(STRING)
    BY <2>3 DEF Statements, IsPair
  <2> QED
    BY <1>2, <2>4 DEF get_key_value
<1> QED
  BY <1>1, <1>2

(* Two sequences of one element.                                           *)
LEMMA PairIs ==
  ASSUME NEW a, NEW b
  PROVE  <<a>> \o <<b>> = <<a, b>>
<1> DEFINE S == {a, b}
<1>1. <<a>> \in Seq(S) /\ <<b>> \in Seq(S) /\ <<a, b>> \in Seq(S)
  OBVIOUS
<1>2. Len(<<a>>) = 1 /\ Len(<<b>>) = 1 /\ Len(<<a, b>>) = 2
  OBVIOUS
<1>3. <<a>>[1] = a /\ <<b>>[1] = b /\ <<a, b>>[1] = a /\ <<a, b>>[2] = b
  OBVIOUS
<1> HIDE DEF S
<1> DEFINE u == <<a>>
           v == <<b>>
           w == <<a, b>>
<1>4. /\ u \in Seq(S) /\ v \in Seq(S) /\ w \in Seq(S)
      /\ Len(u) = 1 /\ Len(v) = 1 /\ Len(w) = 2
      /\ u[1] = w[1] /\ v[1] = w[2]
  BY <1>1, <1>2, <1>3
<1> HIDE DEF u, v, w
<1>5. u \o v \in Seq(S) /\ Len(u \o v) = 2 /\ (u \o v)[1] = w[1] /\ (u \o v)[2] = w[2]
  <2>1. /\ u \o v \in Seq(S) /\ Len(u \o v) = Len(u) + Len(v)
        /\ \A i \in 1 .. Len(u) + Len(v) :
             (u \o v)[i] = IF i <= Len(u) THEN u[i] ELSE v[i - Len(u)]
    BY <1>4, ConcatProperties, Zenon
  <2>2. /\ Len(u \o v) = 2
        /\ \A i \in 1 .. 2 : (u \o v)[i] = IF i <= 1 THEN u[i] ELSE v[i - 1]
    BY <1>4, <2>1
  <2>3. (u \o v)[1] = u[1] /\ (u \o v)[2] = v[1]
    BY <2>2
  <2> QED
    BY <1>4, <2>1, <2>2, <2>3
<1>6. \A i \in 1 .. Len(u \o v) : (u \o v)[i] = w[i]
  BY <1>5
<1>7. u \o v = w
  BY <1>4, <1>5, <1>6, SeqEqual
<1> QED
  BY <1>7 DEF u, v, w

(* The server root is the configured one with a slash, or just a slash.    *)
LEMMA RootPathIs ==
  ASSUME NEW S, NEW top \in Seq(S)
  PROVE  LET base == IF top = <<>> THEN <<".">> ELSE top
         IN  IF top = <<"/">> THEN RootPath(top) = <<"/">>
             ELSE RootPath(top) = base \o <<"/">>
<1>1. CASE top = <<"/">>
  <2>1. top # <<>> /\ top # <<".">>
    BY <1>1
  <2> QED
    BY <1>1, <2>1 DEF RootPath
<1>2. CASE top \in {<<>>, <<".">>}
  <2>1. <<".">> \o <<"/">> = <<".", "/">>
    BY PairIs
  <2>2. top # <<"/">> /\ (IF top = <<>> THEN <<".">> ELSE top) = <<".">>
    BY <1>2
  <2>3. RootPath(top) = <<".", "/">>
    BY <1>2 DEF RootPath
  <2> QED
    BY <2>1, <2>2, <2>3
<1>3. CASE top \notin {<<>>, <<".">>, <<"/">>}
  <2>1. Append(top, "/") = top \o <<"/">>
    <3>1. top \in Seq(S \cup {"/"})
      BY SeqMonotonic
    <3> QED
      BY <3>1, AppendIsConcat
  <2> QED
    BY <1>3, <2>1 DEF RootPath
<1> QED
  BY <1>1, <1>2, <1>3

(* A static handler sends the file below its own root, or below the root   *)
(* of the server, that the path names after the location, whatever         *)
(* slashes the configuration puts at the ends.                             *)
THEOREM FilesBelowRoot == Spec => []FileBelowRoot
<1>1. Inv => FileBelowRoot
  <2> SUFFICES ASSUME Inv, at = "idle", reply.code # 0
      PROVE  LET own == get_key_value(config[block], <<"root">>)
                 top == get_key_value(config[1], <<"root">>)
                 base == IF top = <<>> THEN <<".">> ELSE top
                 root == IF own # <<>> /\ own[1] = "/" THEN own ELSE base \o <<"/">> \o own
             IN \E l \in Above :
                  /\ l = get_key_value(config[block], <<"location">>)
                  /\ Collapse(reply.file) = Collapse(root \o SubSeq(path, Len(l) + 1, Len(path)))
    BY DEF FileBelowRoot
  <2> DEFINE own == get_key_value(config[block], <<"root">>)
             top == get_key_value(config[1], <<"root">>)
             base == IF top = <<>> THEN <<".">> ELSE top
             l == get_key_value(config[block], <<"location">>)
             tail == SubSeq(path, Len(l) + 1, Len(path))
             C == Characters \cup STRING
  <2>1. /\ name = <<"static">> /\ Served /\ name # <<>> /\ phase = "running"
        /\ reply.file = HandlerRoot(own) \o tail
    <3>1. name = <<"static">> /\ reply.file = HandlerRoot(own) \o tail
      BY DEF Inv, HandlerInv, Get
    <3>2. Served /\ phase = "running"
      BY DEF Inv, RouteInv, Served
    <3>3. <<"static">> # <<>>
      OBVIOUS
    <3> QED
      BY <3>1, <3>2, <3>3
  <2>2. l \in Above /\ l \in DOMAIN handler_paths /\ l \in Seq(Characters) /\ path \in Seq(Characters)
    <3>1. /\ l \in DOMAIN handler_paths /\ Matches(l)
          /\ path \in Seq(Characters) /\ l \in Seq(Characters)
      BY <2>1, OwnLocation DEF Inv, Get
    <3> HIDE DEF l
    <3> QED
      BY <3>1, MatchIs DEF Above
  <2>3. config # <<>> /\ server_root = RootPath(top)
    BY <2>1 DEF Inv, StartInv, PortInv
  <2>4. block \in DOMAIN config
    <3>1. PICK m \in DOMAIN handler_paths : MatchedBy(m)
      BY <2>1 DEF Inv, RouteInv, Unmatched
    <3> QED
      BY <3>1 DEF MatchedBy, Inv, StartInv, WalkInv
  <2>5. own \in Seq(STRING) /\ top \in Seq(STRING)
    <3>1. config[block] \in Seq(Statements) /\ config[1] \in Seq(Statements)
      <4>1. 1 \in DOMAIN config
        BY <2>3, Blocks DEF Inv
      <4> QED
        BY <2>3, <2>4, <4>1, Blocks DEF Inv
    <3> QED
      BY <3>1, LookupType
  <2>6. tail \in Seq(Characters)
    <3> HIDE DEF l
    <3>1. Len(l) \in Nat /\ Len(path) \in Nat
      BY <2>2
    <3>2. \A i \in Len(l) + 1 .. Len(path) : path[i] \in Characters
      BY <2>2, <3>1
    <3> QED
      BY <2>2, <3>1, <3>2
  <2>7. own \in Seq(C) /\ top \in Seq(C) /\ tail \in Seq(C)
    BY <2>5, <2>6, SeqMonotonic
  <2>8. HandlerRoot(own) = IF own = <<>> THEN RootPath(top)
                           ELSE IF own[1] = "/" THEN own ELSE RootPath(top) \o own
    BY <2>1, <2>3 DEF HandlerRoot, Absolute
  <2>9. IF top = <<"/">> THEN RootPath(top) = <<"/">> ELSE RootPath(top) = base \o <<"/">>
    BY <2>5, RootPathIs
  <2> DEFINE root == IF own # <<>> /\ own[1] = "/" THEN own ELSE base \o <<"/">> \o own
  <2>10. Collapse(HandlerRoot(own) \o tail) = Collapse(root \o tail)
    <3> HIDE DEF own, top, l, tail, C
    <3>1. CASE own # <<>> /\ own[1] = "/"
      BY <2>8, <3>1
    <3>2. CASE ~(own # <<>> /\ own[1] = "/")
      <4>1. RootPath(top) \in Seq(C \cup {".", "/"})
        <5>1. top \in Seq(C \cup {".", "/"}) /\ <<"/">> \in Seq(C \cup {".", "/"})
              /\ <<".">> \in Seq(C \cup {".", "/"})
          BY <2>7, SeqMonotonic
        <5>2. base \in Seq(C \cup {".", "/"})
          BY <5>1
        <5>3. base \o <<"/">> \in Seq(C \cup {".", "/"})
          BY <5>1, <5>2, ConcatProperties
        <5> QED
          BY <2>9, <5>1, <5>3
      <4>2. HandlerRoot(own) = RootPath(top) \o own
        BY <2>8, <3>2, <4>1, ConcatEmptySeq
      <4>3. root = base \o <<"/">> \o own
        BY <3>2
      <4>4. CASE top # <<"/">>
        BY <2>9, <4>2, <4>3, <4>4
      <4>5. CASE top = <<"/">>
        <5>1. base \o <<"/">> = <<"/", "/">> /\ RootPath(top) = <<"/">>
          <6>1. <<"/">> # <<>>
            OBVIOUS
          <6>2. base = <<"/">>
            BY <4>5, <6>1
          <6>3. base \o <<"/">> = <<"/", "/">>
            BY <6>2, PairIs
          <6> QED
            BY <2>9, <4>5, <6>3
        <5>2. own \o tail \in Seq(C)
          BY <2>7
        <5>3. (<<"/", "/">> \o own) \o tail = <<"/", "/">> \o (own \o tail)
              /\ (<<"/">> \o own) \o tail = <<"/">> \o (own \o tail)
          <6>1. /\ own \in Seq(C \cup {"/"}) /\ tail \in Seq(C \cup {"/"})
                /\ <<"/", "/">> \in Seq(C \cup {"/"}) /\ <<"/">> \in Seq(C \cup {"/"})
            BY <2>7, SeqMonotonic
          <6> QED
            BY <6>1, ConcatAssociative, SMTT(30)
        <5>4. Collapse(<<"/", "/">> \o (own \o tail)) = Collapse(<<"/">> \o (own \o tail))
          BY <5>2, CollapseSlash
        <5> QED
          BY <4>2, <4>3, <5>1, <5>3, <5>4
      <4> QED
        BY <4>4, <4>5
    <3> QED
      BY <3>1, <3>2
  <2> QED
    BY <2>1, <2>2, <2>10
<1> QED
  BY <1>1, Invariance, PTL

-----------------------------------------------------------------------------
(* Collecting the handlers                                                 *)

(* The definitions of Startup for a heap c.                                *)
VisitedIn(c) ==
  LET visited[b \in 1 .. Len(c)] ==
        \/ b = 1
        \/ \E a \in 1 .. b - 1 : \E i \in DOMAIN c[a] :
             c[a][i].child = b /\ visited[a] /\ ~IsHandler(c[a][i])
  IN {b \in 1 .. Len(c) : visited[b]}

LocationIn(c, s) == get_key_value(c[s.child], <<"location">>)

HandlersIn(c) ==
  {s \in UNION {{c[b][i] : i \in DOMAIN c[b]} : b \in VisitedIn(c)} :
     IsHandler(s) /\ LocationIn(c, s) # <<>>}

NoClash(c) == \A s, r \in HandlersIn(c) : LocationIn(c, s) # r.tokens[2]

(* The walk cs has passed the blocks up to m: of the blocks it is in it    *)
(* has passed the statements before its positions, of the others that it   *)
(* visits all.                                                             *)
Walked(c, cs, m) ==
  /\ m \in 1 .. Len(c)
  /\ \A k \in 1 .. Len(cs) : cs[k][1] \in VisitedIn(c) /\ cs[k][1] <= m
  /\ \A j, k \in 1 .. Len(cs) : j < k => cs[j][1] < cs[k][1]
  /\ \A k \in 1 .. Len(cs) : \A i \in 1 .. Len(c[cs[k][1]]) :
       c[cs[k][1]][i].child # 0 => (c[cs[k][1]][i].child <= m <=> i < cs[k][2])
  /\ \A b \in VisitedIn(c) :
       b <= m /\ (\A k \in 1 .. Len(cs) : cs[k][1] # b) =>
         \A i \in 1 .. Len(c[b]) : c[b][i].child <= m

Passed(c, m) == {s \in HandlersIn(c) : s.child <= m}

(* s is the last of the handlers at l in S.                                *)
LastAt(c, S, l, s) ==
  /\ s \in S /\ LocationIn(c, s) = l
  /\ \A r \in S : LocationIn(c, r) = l => r.child <= s.child

(* A map has the last handler of S at each location.                       *)
Collects(c, S, map) ==
  /\ DOMAIN map = {LocationIn(c, s) : s \in S}
  /\ map = [l \in DOMAIN map |-> map[l]]
  /\ \A l \in DOMAIN map : \E s : LastAt(c, S, l, s) /\ map[l] = Entry(s)

(* The map has what the walk has passed.                                   *)
CollectInv ==
  config # <<>> =>
    /\ phase = "parsed" => handler_paths = [l \in {} |-> <<>>]
    /\ phase = "handlers" =>
         \E m \in 1 .. Len(config) :
           /\ Walked(config, calls, m)
           /\ NoClash(config) => Collects(config, Passed(config, m), handler_paths)
    /\ phase \in {"constructing", "constructed", "running"} /\ NoClash(config) =>
         Collects(config, HandlersIn(config), handler_paths)

(* A configuration, as ConfigAssumption has it.                            *)
IsHeap(c) == c \in Seq(Seq(Statements)) /\ c # <<>> /\ IsTree(c) /\ InOrder(c)

LEMMA HeapFacts ==
  ASSUME NEW c, IsHeap(c)
  PROVE  /\ Len(c) \in Nat \ {0} /\ DOMAIN c = 1 .. Len(c)
         /\ \A b \in 1 .. Len(c) :
              /\ Len(c[b]) \in Nat /\ DOMAIN c[b] = 1 .. Len(c[b])
              /\ \A i \in 1 .. Len(c[b]) :
                   /\ c[b][i] \in Statements /\ c[b][i].child \in Nat
                   /\ c[b][i].child # 0 => c[b][i].child \in b + 1 .. Len(c)
<1>1. c \in Seq(Seq(Statements)) /\ c # <<>> /\ IsTree(c)
  BY DEF IsHeap
<1>2. Len(c) \in Nat \ {0} /\ DOMAIN c = 1 .. Len(c)
  BY <1>1
<1>3. \A b \in 1 .. Len(c) : c[b] \in Seq(Statements)
  BY <1>1
<1>4. \A b \in 1 .. Len(c) : Len(c[b]) \in Nat /\ DOMAIN c[b] = 1 .. Len(c[b])
  BY <1>3
<1>5. ASSUME NEW b \in 1 .. Len(c), NEW i \in 1 .. Len(c[b])
      PROVE  /\ c[b][i] \in Statements /\ c[b][i].child \in Nat
             /\ c[b][i].child # 0 => c[b][i].child \in b + 1 .. Len(c)
  <2>1. c[b][i] \in Statements
    BY <1>3
  <2>2. c[b][i].child \in Nat
    BY <2>1 DEF Statements
  <2>3. \A d \in DOMAIN c : \A j \in DOMAIN c[d] :
          c[d][j].child # 0 => c[d][j].child \in d + 1 .. Len(c)
    BY <1>1 DEF IsTree
  <2>4. b \in DOMAIN c /\ i \in DOMAIN c[b]
    BY <1>2, <1>4
  <2>5. c[b][i].child # 0 => c[b][i].child \in b + 1 .. Len(c)
    BY <2>3, <2>4
  <2> QED
    BY <2>1, <2>2, <2>5
<1> QED
  BY <1>2, <1>4, <1>5

LEMMA OneParent ==
  ASSUME NEW c, IsHeap(c), NEW a \in 1 .. Len(c), NEW i \in 1 .. Len(c[a]),
         NEW b \in 1 .. Len(c), NEW j \in 1 .. Len(c[b]),
         c[a][i].child = c[b][j].child, c[a][i].child # 0
  PROVE  a = b /\ i = j
<1>1. PICK ch : ch = c[a][i].child
  OBVIOUS
<1>2. ch \in 2 .. Len(c)
  BY <1>1, HeapFacts
<1>3. a \in DOMAIN c /\ i \in DOMAIN c[a] /\ b \in DOMAIN c /\ j \in DOMAIN c[b]
  BY HeapFacts
<1>4. \E e \in DOMAIN c : \E k \in DOMAIN c[e] :
        /\ c[e][k].child = ch
        /\ \A d \in DOMAIN c : \A l \in DOMAIN c[d] :
             c[d][l].child = ch => d = e /\ l = k
  BY <1>2 DEF IsHeap, IsTree
<1> QED
  BY <1>1, <1>3, <1>4

(* A block is visited as the root, or from a visited block.                *)
Enters(c, k, S) ==
  \/ k = 1
  \/ \E a \in 1 .. k - 1 : \E i \in DOMAIN c[a] :
       c[a][i].child = k /\ a \in S /\ ~IsHandler(c[a][i])

LEMMA VisitedExists ==
  ASSUME NEW c, NEW n \in Nat
  PROVE  \E V \in SUBSET (1 .. n) : \A k \in 1 .. n : k \in V <=> Enters(c, k, V)
<1> DEFINE D == SUBSET (1 .. n)
           F == [p \in (1 .. n) \X D |->
                   IF Enters(c, p[1], p[2]) THEN p[2] \cup {p[1]} ELSE p[2]]
<1>1. F \in [(1 .. n) \X D -> D] /\ {} \in D
  OBVIOUS
<1>2. \A k \in 1 .. n : \A S \in D : F[<<k, S>>] = IF Enters(c, k, S) THEN S \cup {k} ELSE S
  OBVIOUS
<1>3. PICK g : g \in [0 .. n -> D] /\ g[0] = {}
               /\ \A k \in 1 .. n : g[k] = F[<<k, g[k - 1]>>]
  <2> HIDE DEF F, D
  <2>1. IsRecursion(D, {}, n, F)
    BY <1>1 DEF IsRecursion
  <2>2. \E g : IsSolution(D, {}, n, F, g)
    BY <2>1, Recursion
  <2> QED
    BY <2>2 DEF IsSolution
<1> HIDE DEF F
<1>4. ASSUME NEW k \in 1 .. n
      PROVE  g[k] = IF Enters(c, k, g[k - 1]) THEN g[k - 1] \cup {k} ELSE g[k - 1]
  <2>1. k - 1 \in 0 .. n
    OBVIOUS
  <2>2. g[k - 1] \in D
    BY <1>3, <2>1
  <2> QED
    BY <1>2, <1>3, <2>2
<1>5. ASSUME NEW k \in 0 .. n PROVE g[k] \subseteq 1 .. k
  <2> DEFINE bad == {j \in 0 .. n : ~(g[j] \subseteq 1 .. j)}
  <2> SUFFICES ASSUME bad # {} PROVE FALSE
    OBVIOUS
  <2>1. PICK j \in bad : \A y \in bad : j =< y
    <3>1. bad \in SUBSET Nat
      OBVIOUS
    <3> HIDE DEF bad
    <3> QED
      BY <3>1, SmallestNat
  <2>2. j \in 0 .. n /\ ~(g[j] \subseteq 1 .. j)
    BY <2>1
  <2>3. j # 0
    BY <1>3, <2>2
  <2>4. j \in 1 .. n /\ j - 1 \in 0 .. n /\ ~(j =< j - 1)
    BY <2>2, <2>3
  <2>5. g[j - 1] \subseteq 1 .. j - 1
    BY <2>1, <2>4
  <2>6. g[j] \subseteq g[j - 1] \cup {j}
    BY <1>4, <2>4
  <2>7. \A x \in g[j] : x \in 1 .. j
    BY <2>4, <2>5, <2>6
  <2> QED
    BY <2>2, <2>7
<1>6. ASSUME NEW k \in 1 .. n, NEW m \in k .. n PROVE k \in g[m] <=> k \in g[k]
  <2> DEFINE bad == {j \in k .. n : ~(k \in g[j] <=> k \in g[k])}
  <2> SUFFICES ASSUME bad # {} PROVE FALSE
    OBVIOUS
  <2>1. PICK j \in bad : \A y \in bad : j =< y
    <3>1. bad \in SUBSET Nat
      OBVIOUS
    <3> HIDE DEF bad
    <3> QED
      BY <3>1, SmallestNat
  <2>2. j \in k .. n /\ ~(k \in g[j] <=> k \in g[k])
    BY <2>1
  <2>3. j # k
    BY <2>2
  <2>4. j \in 1 .. n /\ j - 1 \in k .. n /\ ~(j =< j - 1)
    BY <2>2, <2>3
  <2>5. k \in g[j - 1] <=> k \in g[k]
    BY <2>1, <2>4
  <2>6. k \in g[j] <=> k \in g[j - 1]
    BY <1>4, <2>3, <2>4
  <2> QED
    BY <2>2, <2>5, <2>6
<1>7. ASSUME NEW k \in 1 .. n PROVE k \in g[n] <=> Enters(c, k, g[n])
  <2>1. k \in g[n] <=> k \in g[k]
    <3>1. n \in k .. n
      OBVIOUS
    <3> QED
      BY <1>6, <3>1
  <2>2. k \notin g[k - 1]
    <3>1. k - 1 \in 0 .. n /\ k \notin 1 .. k - 1
      OBVIOUS
    <3> QED
      BY <1>5, <3>1
  <2>3. k \in g[k] <=> Enters(c, k, g[k - 1])
    BY <1>4, <2>2
  <2>4. ASSUME NEW a \in 1 .. k - 1 PROVE a \in g[k - 1] <=> a \in g[n]
    <3>1. a \in 1 .. n /\ k - 1 \in a .. n /\ n \in a .. n
      OBVIOUS
    <3> QED
      BY <1>6, <3>1
  <2>5. Enters(c, k, g[k - 1]) <=> Enters(c, k, g[n])
    BY <2>4 DEF Enters
  <2> QED
    BY <2>1, <2>3, <2>5
<1>8. g[n] \in SUBSET (1 .. n)
  <2>1. n \in 0 .. n
    OBVIOUS
  <2> QED
    BY <1>3, <2>1
<1> QED
  BY <1>7, <1>8

LEMMA VisitedFixed ==
  ASSUME NEW c, IsHeap(c)
  PROVE  /\ VisitedIn(c) \subseteq 1 .. Len(c)
         /\ \A k \in 1 .. Len(c) : k \in VisitedIn(c) <=> Enters(c, k, VisitedIn(c))
<1> DEFINE n == Len(c)
           Body(f) == [b \in 1 .. n |->
                         \/ b = 1
                         \/ \E a \in 1 .. b - 1 : \E i \in DOMAIN c[a] :
                              c[a][i].child = b /\ f[a] /\ ~IsHandler(c[a][i])]
           visited == CHOOSE f : f = Body(f)
<1>1. n \in Nat
  BY HeapFacts
<1>2. PICK V \in SUBSET (1 .. n) : \A k \in 1 .. n : k \in V <=> Enters(c, k, V)
  BY <1>1, VisitedExists
<1>3. PICK f : f = [b \in 1 .. n |-> IF b \in V THEN TRUE ELSE FALSE]
  OBVIOUS
<1>4. \A b \in 1 .. n : f[b] = IF b \in V THEN TRUE ELSE FALSE
  BY <1>3
<1>5. ASSUME NEW b \in 1 .. n
      PROVE  (b \in V) <=> \/ b = 1
                           \/ \E a \in 1 .. b - 1 : \E i \in DOMAIN c[a] :
                                c[a][i].child = b /\ f[a] /\ ~IsHandler(c[a][i])
  <2>1. \A a \in 1 .. b - 1 : a \in 1 .. n
    BY <1>1
  <2>2. \A a \in 1 .. b - 1 : f[a] <=> a \in V
    BY <1>4, <2>1
  <2> QED
    BY <1>2, <2>2 DEF Enters
<1>6. f = Body(f)
  <2>1. ASSUME NEW b \in 1 .. n PROVE f[b] = Body(f)[b]
    <3>1. Body(f)[b] = (\/ b = 1
                        \/ \E a \in 1 .. b - 1 : \E i \in DOMAIN c[a] :
                             c[a][i].child = b /\ f[a] /\ ~IsHandler(c[a][i]))
      OBVIOUS
    <3>2. f[b] = IF b \in V THEN TRUE ELSE FALSE
      BY <1>4
    <3> HIDE DEF Body
    <3>3. CASE b \in V
      <4>1. f[b] = TRUE
        BY <3>2, <3>3
      <4>2. Body(f)[b] = TRUE
        BY <1>5, <3>1, <3>3
      <4> QED
        BY <4>1, <4>2
    <3>4. CASE b \notin V
      <4>1. f[b] = FALSE
        BY <3>2, <3>4
      <4>2. Body(f)[b] = FALSE
        BY <1>5, <3>1, <3>4
      <4> QED
        BY <4>1, <4>2
    <3> QED
      BY <3>3, <3>4
  <2> QED
    BY <1>3, <2>1
<1>7. visited = Body(visited)
  BY <1>6, ZenonT(30)
<1>8. VisitedIn(c) = {b \in 1 .. n : visited[b]}
  BY DEF VisitedIn
<1>9. PICK h : h = visited /\ h = Body(h)
  BY <1>7
<1> HIDE DEF visited
<1>10. PICK W : W = {b \in 1 .. n : h[b]}
  OBVIOUS
<1>11. ASSUME NEW k \in 1 .. n PROVE k \in W <=> Enters(c, k, W)
  <2>1. h[k] = Body(h)[k]
    BY <1>9
  <2>2. h[k] <=> \/ k = 1
                 \/ \E a \in 1 .. k - 1 : \E i \in DOMAIN c[a] :
                      c[a][i].child = k /\ h[a] /\ ~IsHandler(c[a][i])
    BY <2>1
  <2>3. \A a \in 1 .. k - 1 : a \in 1 .. n
    BY <1>1
  <2>4. \A a \in 1 .. k - 1 : a \in W <=> h[a]
    BY <1>10, <2>3
  <2> QED
    BY <1>10, <2>2, <2>4 DEF Enters
<1>12. VisitedIn(c) = W
  BY <1>8, <1>9, <1>10
<1> QED
  BY <1>10, <1>11, <1>12

(* The walk is in block b, before statement p that has the block ch.       *)
At(c, cs, m, b, p, ch) ==
  /\ IsHeap(c) /\ Walked(c, cs, m) /\ Len(cs) \in Nat \ {0}
  /\ b = cs[Len(cs)][1] /\ p = cs[Len(cs)][2]
  /\ p \in 1 .. Len(c[b]) /\ ch = c[b][p].child /\ ch # 0

LEMMA AtFacts ==
  ASSUME NEW c, NEW cs, NEW m, NEW b, NEW p, NEW ch, At(c, cs, m, b, p, ch)
  PROVE  /\ Len(cs) \in 1 .. Len(cs) /\ m \in 1 .. Len(c) /\ Len(c) \in Nat
         /\ b \in VisitedIn(c) /\ b \in 1 .. Len(c) /\ b <= m
         /\ p \in Nat /\ p \in DOMAIN c[b] /\ p \in 1 .. Len(c[b])
         /\ ch \in b + 1 .. Len(c) /\ m < ch
<1>1. Len(cs) \in 1 .. Len(cs) /\ m \in 1 .. Len(c) /\ Len(c) \in Nat
  BY HeapFacts DEF At, Walked
<1>2. b \in VisitedIn(c) /\ b <= m
  BY <1>1 DEF At, Walked
<1>3. b \in 1 .. Len(c)
  BY <1>2, VisitedFixed DEF At
<1>4. p \in Nat /\ p \in DOMAIN c[b] /\ ch \in b + 1 .. Len(c) /\ p \in 1 .. Len(c[b])
  BY <1>3, HeapFacts DEF At
<1>5. ch <= m <=> p < p
  BY <1>1, <1>4 DEF At, Walked
<1>6. m < ch
  BY <1>1, <1>3, <1>4, <1>5
<1> QED
  BY <1>1, <1>2, <1>3, <1>4, <1>6

(* Between what the walk has passed and its next block there is none that  *)
(* it visits, nor the child of one.                                        *)
LEMMA Gap ==
  ASSUME NEW c, NEW cs, NEW m, NEW b, NEW p, NEW ch, At(c, cs, m, b, p, ch)
  PROVE  /\ \A x \in VisitedIn(c) : ~(m < x /\ x < ch)
         /\ \A x \in VisitedIn(c) : \A j \in 1 .. Len(c[x]) :
              ~(m < c[x][j].child /\ c[x][j].child < ch)
<1> USE AtFacts
<1>1. ASSUME NEW x \in VisitedIn(c), NEW j \in 1 .. Len(c[x]), x <= m,
             m < c[x][j].child, c[x][j].child < ch
      PROVE  FALSE
  <2>1. IsHeap(c) /\ Walked(c, cs, m)
    BY DEF At
  <2>2. x \in 1 .. Len(c) /\ j \in Nat
    BY <2>1, VisitedFixed, HeapFacts
  <2>3. PICK e : e = c[x][j].child
    OBVIOUS
  <2>4. e \in Nat /\ b < e /\ e < ch /\ e # 0 /\ ~(e <= m)
    BY <1>1, <2>1, <2>2, <2>3, HeapFacts
  <2>5. x > b \/ (x = b /\ j < p)
    <3>1. b \in DOMAIN c /\ p \in DOMAIN c[b] /\ x \in DOMAIN c /\ j \in DOMAIN c[x]
      BY <2>1, <2>2, HeapFacts
    <3> QED
      BY <2>1, <2>3, <2>4, <3>1, SMTT(30) DEF At, IsHeap, InOrder
  <2>6. PICK k \in 1 .. Len(cs) : cs[k][1] = x
    BY <1>1, <2>1, <2>3, <2>4 DEF Walked
  <2>7. x <= b
    <3>1. k = Len(cs) \/ k < Len(cs)
      OBVIOUS
    <3>2. CASE k = Len(cs)
      BY <2>2, <2>6, <3>2 DEF At
    <3>3. CASE k < Len(cs)
      <4>1. cs[k][1] < cs[Len(cs)][1]
        BY <2>1, <3>3 DEF Walked
      <4> QED
        BY <2>2, <2>6, <4>1, SMTT(30) DEF At
    <3> QED
      BY <3>1, <3>2, <3>3
  <2>8. x = b /\ j < p
    BY <2>2, <2>5, <2>7
  <2>9. e <= m <=> j < p
    BY <2>1, <2>3, <2>4, <2>8, SMTT(30) DEF At, Walked
  <2> QED
    BY <2>4, <2>8, <2>9
<1>2. ASSUME NEW x \in VisitedIn(c), m < x, x < ch
      PROVE  FALSE
  <2> DEFINE bad == {y \in VisitedIn(c) : m < y /\ y < ch}
  <2>1. IsHeap(c) /\ VisitedIn(c) \subseteq Nat
    BY VisitedFixed, HeapFacts DEF At
  <2>2. PICK y \in bad : \A z \in bad : y =< z
    <3>1. bad \in SUBSET Nat /\ bad # {}
      BY <1>2, <2>1
    <3> HIDE DEF bad
    <3> QED
      BY <3>1, SmallestNat
  <2>3. y \in VisitedIn(c) /\ y \in 1 .. Len(c) /\ m < y /\ y < ch
    BY <2>1, <2>2, VisitedFixed
  <2>4. Enters(c, y, VisitedIn(c)) /\ y # 1
    BY <2>1, <2>3, VisitedFixed
  <2>5. PICK a \in 1 .. y - 1 : \E i \in DOMAIN c[a] : c[a][i].child = y /\ a \in VisitedIn(c)
    BY <2>4 DEF Enters
  <2>6. PICK i \in 1 .. Len(c[a]) : c[a][i].child = y
    <3>1. a \in 1 .. Len(c)
      BY <2>3, <2>5
    <3> QED
      BY <2>1, <2>5, <3>1, HeapFacts
  <2>7. CASE a <= m
    BY <1>1, <2>3, <2>5, <2>6, <2>7
  <2>8. CASE m < a
    <3>1. a < ch /\ ~(y =< a)
      BY <2>3, <2>5
    <3>2. a \in bad
      BY <2>5, <2>8, <3>1
    <3> QED
      BY <2>2, <3>1, <3>2
  <2> QED
    BY <2>3, <2>5, <2>7, <2>8
<1>3. ASSUME NEW x \in VisitedIn(c), NEW j \in 1 .. Len(c[x]),
             m < c[x][j].child, c[x][j].child < ch
      PROVE  FALSE
  <2>1. x \in 1 .. Len(c)
    BY VisitedFixed DEF At
  <2>2. c[x][j].child \in Nat /\ (c[x][j].child # 0 => c[x][j].child \in x + 1 .. Len(c))
    BY <2>1, HeapFacts DEF At
  <2>3. PICK e : e = c[x][j].child
    OBVIOUS
  <2>4. e \in Nat /\ (e # 0 => e \in x + 1 .. Len(c)) /\ m < e /\ e < ch
    BY <1>3, <2>2, <2>3
  <2>5. m \in Nat /\ ch \in Int
    <3>1. m \in 1 .. Len(c) /\ b \in 1 .. Len(c) /\ ch \in b + 1 .. Len(c)
      OBVIOUS
    <3> QED
      BY <3>1
  <2>6. e # 0
    BY <2>4, <2>5
  <2>7. x < ch
    BY <2>1, <2>4, <2>5, <2>6
  <2> QED
    BY <1>1, <1>2, <1>3, <2>1, <2>5, <2>7
<1> QED
  BY <1>2, <1>3

(* The positions of the walk after it has moved past statement p.          *)
LEMMA Beyond ==
  ASSUME NEW c, NEW cs, NEW m, NEW b, NEW p, NEW ch, At(c, cs, m, b, p, ch),
         NEW k \in 1 .. Len(cs), NEW i \in 1 .. Len(c[cs[k][1]]),
         c[cs[k][1]][i].child # 0
  PROVE  c[cs[k][1]][i].child <= ch <=> i < (IF k = Len(cs) THEN p + 1 ELSE cs[k][2])
<1>1. PICK a, d : a = cs[k][1] /\ d = c[a][i].child
  OBVIOUS
<1>2. IsHeap(c) /\ Walked(c, cs, m) /\ a \in VisitedIn(c) /\ a \in 1 .. Len(c)
  BY <1>1, VisitedFixed DEF At, Walked
<1>3. d \in Nat /\ d # 0 /\ i \in 1 .. Len(c[a]) /\ i \in Nat
  BY <1>1, <1>2, HeapFacts
<1>4. d <= m <=> i < cs[k][2]
  BY <1>1, <1>2, <1>3 DEF Walked
<1>5. ~(m < d /\ d < ch)
  BY <1>1, <1>2, <1>3, Gap
<1>6. m \in Nat /\ ch \in Nat /\ m < ch
  <2>1. m \in 1 .. Len(c) /\ b \in 1 .. Len(c) /\ ch \in b + 1 .. Len(c) /\ m < ch
    BY AtFacts
  <2> QED
    BY <2>1
<1>7. d = ch => a = b /\ i = p
  <2>1. b \in 1 .. Len(c) /\ p \in 1 .. Len(c[b]) /\ c[b][p].child = ch
    BY AtFacts, SMTT(30) DEF At
  <2>2. ASSUME d = ch PROVE a = b /\ i = p
    <3>1. c[a][i].child = c[b][p].child /\ c[a][i].child # 0
      BY <1>1, <1>3, <2>1, <2>2
    <3> QED
      BY <1>2, <1>3, <2>1, <3>1, OneParent, SMTT(30)
  <2> QED
    BY <2>2
<1>8. CASE k = Len(cs)
  <2>1. cs[k][2] = p /\ a = b
    BY <1>1, <1>8 DEF At
  <2>2. p \in Nat /\ (i = p => d = ch)
    BY <1>1, <2>1, AtFacts DEF At
  <2>3. d <= ch <=> i < p + 1
    BY <1>3, <1>4, <1>5, <1>6, <1>7, <2>1, <2>2
  <2> QED
    BY <1>1, <1>8, <2>3
<1>9. CASE k # Len(cs)
  <2>1. a # b
    <3>1. Len(cs) \in 1 .. Len(cs) /\ k < Len(cs)
      BY <1>9, AtFacts
    <3>2. cs[k][1] < cs[Len(cs)][1]
      BY <1>2, <3>1 DEF Walked
    <3> QED
      BY <1>1, <1>2, <3>2 DEF At
  <2>2. d <= ch <=> i < cs[k][2]
    BY <1>3, <1>4, <1>5, <1>6, <1>7, <2>1
  <2> QED
    BY <1>1, <1>9, <2>2
<1> QED
  BY <1>8, <1>9

(* A block that follows a statement is visited unless it is a handler's.   *)
LEMMA ChildVisited ==
  ASSUME NEW c, NEW cs, NEW m, NEW b, NEW p, NEW ch, At(c, cs, m, b, p, ch)
  PROVE  ch \in 1 .. Len(c) /\ (ch \in VisitedIn(c) <=> ~IsHandler(c[b][p]))
<1>1. IsHeap(c) /\ ch = c[b][p].child /\ ch # 0
  BY DEF At
<1>2. /\ b \in VisitedIn(c) /\ b \in 1 .. Len(c) /\ p \in DOMAIN c[b]
      /\ p \in 1 .. Len(c[b]) /\ ch \in b + 1 .. Len(c)
  BY AtFacts
<1>3. ch \in 1 .. Len(c) /\ ch # 1 /\ b \in 1 .. ch - 1
  BY <1>2
<1>4. ch \in VisitedIn(c) <=> Enters(c, ch, VisitedIn(c))
  BY <1>1, <1>3, VisitedFixed
<1>5. ~IsHandler(c[b][p]) => Enters(c, ch, VisitedIn(c))
  BY <1>1, <1>2, <1>3 DEF Enters
<1>6. ASSUME Enters(c, ch, VisitedIn(c)) PROVE ~IsHandler(c[b][p])
  <2>1. PICK a \in 1 .. ch - 1 : \E i \in DOMAIN c[a] :
               c[a][i].child = ch /\ a \in VisitedIn(c) /\ ~IsHandler(c[a][i])
    BY <1>3, <1>6 DEF Enters
  <2>2. a \in 1 .. Len(c)
    BY <1>3, <2>1
  <2>3. PICK i \in 1 .. Len(c[a]) : c[a][i].child = ch /\ ~IsHandler(c[a][i])
    BY <1>1, <2>1, <2>2, HeapFacts
  <2>4. a = b /\ i = p
    BY <1>1, <1>2, <2>2, <2>3, OneParent
  <2> QED
    BY <2>3, <2>4
<1> QED
  BY <1>3, <1>4, <1>5, <1>6

(* The blocks that the walk has left behind.                               *)
LEMMA LeftBehind ==
  ASSUME NEW c, NEW cs, NEW m, NEW b, NEW p, NEW ch, At(c, cs, m, b, p, ch),
         NEW x \in VisitedIn(c), x <= ch, x # ch,
         \A k \in 1 .. Len(cs) : cs[k][1] # x,
         NEW i \in 1 .. Len(c[x])
  PROVE  c[x][i].child <= ch
<1>1. IsHeap(c) /\ Walked(c, cs, m)
  BY DEF At
<1>2. x \in 1 .. Len(c) /\ c[x][i].child \in Nat
  BY <1>1, VisitedFixed, HeapFacts
<1>3. m \in Nat /\ ch \in Nat /\ m < ch
  <2>1. m \in 1 .. Len(c) /\ b \in 1 .. Len(c) /\ ch \in b + 1 .. Len(c) /\ m < ch
    BY AtFacts
  <2> QED
    BY <2>1
<1>4. ~(m < x /\ x < ch)
  BY Gap
<1>5. x <= m
  BY <1>2, <1>3, <1>4
<1>6. c[x][i].child <= m
  BY <1>1, <1>5 DEF Walked
<1> QED
  BY <1>2, <1>3, <1>6

(* cs2 is cs after it has moved past statement p.                          *)
Moved(cs, cs2, p) ==
  /\ Len(cs2) = Len(cs)
  /\ \A k \in 1 .. Len(cs) :
       cs2[k][1] = cs[k][1] /\ cs2[k][2] = IF k = Len(cs) THEN p + 1 ELSE cs[k][2]

(* Past the block of a handler.                                            *)
LEMMA WalkPast ==
  ASSUME NEW c, NEW cs, NEW m, NEW b, NEW p, NEW ch, At(c, cs, m, b, p, ch),
         NEW cs2, Moved(cs, cs2, p), IsHandler(c[b][p])
  PROVE  Walked(c, cs2, ch)
<1>1. IsHeap(c) /\ Walked(c, cs, m)
  BY DEF At
<1>2. ch \in 1 .. Len(c) /\ ch \notin VisitedIn(c)
  BY ChildVisited
<1>3. m \in Nat /\ ch \in Nat /\ m < ch
  <2>1. m \in 1 .. Len(c) /\ b \in 1 .. Len(c) /\ ch \in b + 1 .. Len(c) /\ m < ch
    BY AtFacts
  <2> QED
    BY <2>1
<1>4. \A k \in 1 .. Len(cs2) : cs2[k][1] \in VisitedIn(c) /\ cs2[k][1] <= ch
  <2> TAKE k \in 1 .. Len(cs2)
  <2>1. cs2[k][1] = cs[k][1] /\ k \in 1 .. Len(cs)
    BY DEF Moved
  <2>2. cs[k][1] \in VisitedIn(c) /\ cs[k][1] <= m
    BY <1>1, <2>1 DEF Walked
  <2>3. cs[k][1] \in Nat
    BY <1>1, <2>2, VisitedFixed
  <2> QED
    BY <1>3, <2>1, <2>2, <2>3
<1>5. \A j, k \in 1 .. Len(cs2) : j < k => cs2[j][1] < cs2[k][1]
  BY <1>1 DEF Walked, Moved
<1>6. ASSUME NEW k \in 1 .. Len(cs2), NEW i \in 1 .. Len(c[cs2[k][1]]),
             c[cs2[k][1]][i].child # 0
      PROVE  c[cs2[k][1]][i].child <= ch <=> i < cs2[k][2]
  <2>1. k \in 1 .. Len(cs) /\ cs2[k][1] = cs[k][1]
        /\ cs2[k][2] = IF k = Len(cs) THEN p + 1 ELSE cs[k][2]
    BY DEF Moved
  <2>2. i \in 1 .. Len(c[cs[k][1]]) /\ c[cs[k][1]][i].child # 0
    BY <1>6, <2>1
  <2>3. c[cs[k][1]][i].child <= ch <=> i < (IF k = Len(cs) THEN p + 1 ELSE cs[k][2])
    BY <2>1, <2>2, Beyond
  <2> QED
    BY <2>1, <2>3
<1>7. ASSUME NEW x \in VisitedIn(c), x <= ch,
             \A k \in 1 .. Len(cs2) : cs2[k][1] # x,
             NEW i \in 1 .. Len(c[x])
      PROVE  c[x][i].child <= ch
  <2>1. \A k \in 1 .. Len(cs) : cs[k][1] # x
    BY <1>7 DEF Moved
  <2>2. x # ch
    BY <1>2
  <2> QED
    BY <1>7, <2>1, <2>2, LeftBehind
<1> QED
  BY <1>2, <1>4, <1>5, <1>6, <1>7 DEF Walked

LEMMA AboveRange ==
  ASSUME NEW a \in Nat, NEW n \in Nat, NEW d \in a + 1 .. n
  PROVE  d \in Nat /\ a < d /\ ~(d <= a)
OBVIOUS

(* Into a block that is not a handler's.                                   *)
LEMMA WalkInto ==
  ASSUME NEW c, NEW cs, NEW m, NEW b, NEW p, NEW ch, At(c, cs, m, b, p, ch),
         NEW cs2, Moved(cs, cs2, p), ~IsHandler(c[b][p]),
         NEW cs3, Len(cs3) = Len(cs) + 1, cs3[Len(cs) + 1] = <<ch, 1>>,
         \A k \in 1 .. Len(cs) : cs3[k] = cs2[k]
  PROVE  Walked(c, cs3, ch)
<1>1. IsHeap(c) /\ Walked(c, cs, m) /\ Len(cs) \in Nat
  BY DEF At
<1>2. ch \in 1 .. Len(c) /\ ch \in VisitedIn(c)
  BY ChildVisited
<1>3. m \in Nat /\ ch \in Nat /\ m < ch
  <2>1. m \in 1 .. Len(c) /\ b \in 1 .. Len(c) /\ ch \in b + 1 .. Len(c) /\ m < ch
    BY AtFacts
  <2> QED
    BY <2>1
<1>4. ASSUME NEW k \in 1 .. Len(cs3)
      PROVE  \/ k \in 1 .. Len(cs) /\ cs3[k] = cs2[k]
             \/ k = Len(cs3) /\ cs3[k][1] = ch /\ cs3[k][2] = 1
  BY <1>1
<1>5. ASSUME NEW k \in 1 .. Len(cs)
      PROVE  cs2[k][1] = cs[k][1] /\ cs[k][1] \in VisitedIn(c) /\ cs[k][1] \in Nat /\ cs[k][1] <= m
  <2>1. cs2[k][1] = cs[k][1]
    BY DEF Moved
  <2>2. cs[k][1] \in VisitedIn(c) /\ cs[k][1] <= m
    BY <1>1 DEF Walked
  <2>3. cs[k][1] \in Nat
    BY <1>1, <2>2, VisitedFixed
  <2> QED
    BY <2>1, <2>2, <2>3
<1>6. \A k \in 1 .. Len(cs3) : cs3[k][1] \in VisitedIn(c) /\ cs3[k][1] <= ch
  <2> TAKE k \in 1 .. Len(cs3)
  <2>1. CASE k \in 1 .. Len(cs) /\ cs3[k] = cs2[k]
    <3>1. cs3[k][1] = cs[k][1] /\ cs[k][1] \in VisitedIn(c) /\ cs[k][1] \in Nat /\ cs[k][1] <= m
      BY <1>5, <2>1
    <3> QED
      BY <1>3, <3>1
  <2>2. CASE cs3[k][1] = ch
    BY <1>2, <1>3, <2>2
  <2> QED
    BY <1>4, <2>1, <2>2
<1>7. ASSUME NEW j \in 1 .. Len(cs3), NEW k \in 1 .. Len(cs3), j < k
      PROVE  cs3[j][1] < cs3[k][1]
  <2>1. j \in 1 .. Len(cs) /\ cs3[j][1] = cs[j][1]
    BY <1>1, <1>5, <1>7
  <2>2. CASE k \in 1 .. Len(cs) /\ cs3[k] = cs2[k]
    <3>1. cs[j][1] < cs[k][1]
      BY <1>1, <1>7, <2>1, <2>2 DEF Walked
    <3> QED
      BY <1>5, <2>1, <2>2, <3>1
  <2>3. CASE cs3[k][1] = ch
    BY <1>3, <1>5, <2>1, <2>3
  <2> QED
    BY <1>4, <2>2, <2>3
<1>8. ASSUME NEW k \in 1 .. Len(cs3), NEW i \in 1 .. Len(c[cs3[k][1]]),
             c[cs3[k][1]][i].child # 0
      PROVE  c[cs3[k][1]][i].child <= ch <=> i < cs3[k][2]
  <2>1. CASE k \in 1 .. Len(cs) /\ cs3[k] = cs2[k]
    <3>1. cs3[k][1] = cs[k][1]
          /\ cs3[k][2] = IF k = Len(cs) THEN p + 1 ELSE cs[k][2]
      BY <2>1 DEF Moved
    <3>2. i \in 1 .. Len(c[cs[k][1]]) /\ c[cs[k][1]][i].child # 0
      BY <1>8, <3>1
    <3>3. c[cs[k][1]][i].child <= ch <=> i < (IF k = Len(cs) THEN p + 1 ELSE cs[k][2])
      BY <2>1, <3>2, Beyond
    <3> QED
      BY <3>1, <3>3
  <2>2. CASE cs3[k][1] = ch /\ cs3[k][2] = 1
    <3>1. i \in 1 .. Len(c[ch]) /\ c[ch][i].child # 0
      BY <1>8, <2>2
    <3>2. c[ch][i].child \in ch + 1 .. Len(c) /\ i \in Nat /\ i >= 1
      BY <1>1, <1>2, <3>1, HeapFacts
    <3>3. PICK d : d = c[ch][i].child /\ d \in ch + 1 .. Len(c)
      BY <3>2
    <3>4. ~(d <= ch) /\ ~(i < 1)
      <4>1. Len(c) \in Nat
        BY <1>1, HeapFacts
      <4>2. ~(d <= ch)
        BY <1>3, <3>3, <4>1, AboveRange
      <4> QED
        BY <3>2, <4>2
    <3> QED
      BY <2>2, <3>3, <3>4
  <2> QED
    BY <1>4, <2>1, <2>2
<1>9. ASSUME NEW x \in VisitedIn(c), x <= ch,
             \A k \in 1 .. Len(cs3) : cs3[k][1] # x,
             NEW i \in 1 .. Len(c[x])
      PROVE  c[x][i].child <= ch
  <2>1. \A k \in 1 .. Len(cs) : cs[k][1] # x
    <3> TAKE k \in 1 .. Len(cs)
    <3>1. k \in 1 .. Len(cs3)
      BY <1>1
    <3> QED
      BY <1>5, <1>9, <3>1
  <2>2. x # ch
    <3>1. Len(cs) + 1 \in 1 .. Len(cs3) /\ cs3[Len(cs) + 1][1] = ch
      BY <1>1
    <3> QED
      BY <1>9, <3>1
  <2> QED
    BY <1>9, <2>1, <2>2, LeftBehind
<1> QED
  BY <1>2, <1>6, <1>7, <1>8, <1>9 DEF Walked

(* Past a statement without a block.                                       *)
LEMMA WalkOver ==
  ASSUME NEW c, NEW cs, NEW m, Walked(c, cs, m),
         NEW p \in Nat, p = cs[Len(cs)][2], c[cs[Len(cs)][1]][p].child = 0,
         NEW cs2, Moved(cs, cs2, p)
  PROVE  Walked(c, cs2, m)
<1>1. \A k \in 1 .. Len(cs2) : cs2[k][1] \in VisitedIn(c) /\ cs2[k][1] <= m
  BY DEF Walked, Moved
<1>2. \A j, k \in 1 .. Len(cs2) : j < k => cs2[j][1] < cs2[k][1]
  BY DEF Walked, Moved
<1>3. ASSUME NEW k \in 1 .. Len(cs2), NEW i \in 1 .. Len(c[cs2[k][1]]),
             c[cs2[k][1]][i].child # 0
      PROVE  c[cs2[k][1]][i].child <= m <=> i < cs2[k][2]
  <2>1. k \in 1 .. Len(cs) /\ cs2[k][1] = cs[k][1]
        /\ cs2[k][2] = IF k = Len(cs) THEN p + 1 ELSE cs[k][2]
    BY DEF Moved
  <2>2. i \in 1 .. Len(c[cs[k][1]]) /\ c[cs[k][1]][i].child # 0
    BY <1>3, <2>1
  <2>3. c[cs[k][1]][i].child <= m <=> i < cs[k][2]
    BY <2>1, <2>2 DEF Walked
  <2>4. k = Len(cs) => i # p /\ cs[k][2] = p
    BY <2>2
  <2>5. i \in Int
    OBVIOUS
  <2>6. k = Len(cs) => (i < p + 1 <=> i < cs[k][2])
    BY <2>4, <2>5
  <2> QED
    BY <2>1, <2>3, <2>6
<1>4. ASSUME NEW x \in VisitedIn(c), x <= m,
             \A k \in 1 .. Len(cs2) : cs2[k][1] # x
      PROVE  \A i \in 1 .. Len(c[x]) : c[x][i].child <= m
  <2>1. \A k \in 1 .. Len(cs) : cs[k][1] # x
    BY <1>4 DEF Moved
  <2> QED
    BY <1>4, <2>1 DEF Walked
<1> QED
  BY <1>1, <1>2, <1>3, <1>4 DEF Walked

(* Back from the end of a block.                                           *)
LEMMA WalkBack ==
  ASSUME NEW c, IsHeap(c), NEW cs, NEW m, Walked(c, cs, m), Len(cs) \in Nat \ {0},
         cs[Len(cs)][2] \in Nat, cs[Len(cs)][2] > Len(c[cs[Len(cs)][1]]),
         NEW cs2, Len(cs2) = Len(cs) - 1, \A k \in 1 .. Len(cs2) : cs2[k] = cs[k]
  PROVE  Walked(c, cs2, m)
<1>1. PICK n \in Nat : n = Len(cs) /\ n # 0 /\ Len(cs2) = n - 1
  OBVIOUS
<1>2. \A k \in 1 .. Len(cs2) : k \in 1 .. Len(cs)
  BY <1>1
<1>3. n \in 1 .. Len(cs)
  BY <1>1
<1>4. PICK b : b = cs[n][1] /\ b \in VisitedIn(c) /\ b \in 1 .. Len(c)
  BY <1>1, <1>3, VisitedFixed DEF Walked
<1>5. PICK p \in Nat : p = cs[n][2] /\ p > Len(c[b])
  BY <1>1, <1>4
<1>6. ASSUME NEW i \in 1 .. Len(c[b]) PROVE c[b][i].child <= m
  <2>1. i \in Nat /\ c[b][i].child \in Nat /\ Len(c[b]) \in Nat
    BY <1>4, HeapFacts
  <2>2. i < p
    BY <1>5, <2>1
  <2>3. c[b][i].child # 0 => (c[b][i].child <= m <=> i < p)
    BY <1>1, <1>3, <1>4, <1>5 DEF Walked
  <2>4. m \in Nat
    <3>1. m \in 1 .. Len(c)
      BY DEF Walked
    <3> QED
      BY <3>1
  <2> QED
    BY <2>1, <2>2, <2>3, <2>4
<1>7. ASSUME NEW x \in VisitedIn(c), x <= m,
             \A k \in 1 .. Len(cs2) : cs2[k][1] # x
      PROVE  \A i \in 1 .. Len(c[x]) : c[x][i].child <= m
  <2>1. CASE x = b
    BY <1>6, <2>1
  <2>2. CASE x # b
    <3>1. ASSUME NEW k \in 1 .. Len(cs) PROVE cs[k][1] # x
      <4>1. k = n \/ k \in 1 .. Len(cs2)
        BY <1>1
      <4> QED
        BY <1>4, <1>7, <2>2, <4>1
    <3> QED
      BY <1>7, <3>1 DEF Walked
  <2> QED
    BY <2>1, <2>2
<1>8. \A k \in 1 .. Len(cs2) : cs2[k][1] \in VisitedIn(c) /\ cs2[k][1] <= m
  BY <1>2 DEF Walked
<1>9. \A j, k \in 1 .. Len(cs2) : j < k => cs2[j][1] < cs2[k][1]
  BY <1>2 DEF Walked
<1>10. \A k \in 1 .. Len(cs2) : \A i \in 1 .. Len(c[cs2[k][1]]) :
         c[cs2[k][1]][i].child # 0 => (c[cs2[k][1]][i].child <= m <=> i < cs2[k][2])
  BY <1>2 DEF Walked
<1> QED
  BY <1>7, <1>8, <1>9, <1>10 DEF Walked

(* Once it has returned from the root, it has passed everything.           *)
LEMMA WalkEnds ==
  ASSUME NEW c, IsHeap(c), NEW m, Walked(c, <<>>, m)
  PROVE  \A x \in VisitedIn(c) : x <= m /\ \A i \in 1 .. Len(c[x]) : c[x][i].child <= m
<1>1. m \in Nat /\ m >= 1
  <2>1. m \in 1 .. Len(c)
    BY DEF Walked
  <2> QED
    BY <2>1
<1>2. ASSUME NEW x \in VisitedIn(c), x <= m
      PROVE  \A i \in 1 .. Len(c[x]) : c[x][i].child <= m
  <2>1. \A k \in 1 .. Len(<<>>) : <<>>[k][1] # x
    OBVIOUS
  <2> QED
    BY <1>2, <2>1 DEF Walked
<1>3. ASSUME NEW x \in VisitedIn(c) PROVE x <= m
  <2> DEFINE bad == {y \in VisitedIn(c) : ~(y <= m)}
  <2>1. VisitedIn(c) \subseteq 1 .. Len(c) /\ VisitedIn(c) \subseteq Nat
    BY VisitedFixed
  <2> SUFFICES ASSUME bad # {} PROVE FALSE
    OBVIOUS
  <2>2. PICK y \in bad : \A z \in bad : y =< z
    <3>1. bad \in SUBSET Nat
      BY <2>1
    <3> HIDE DEF bad
    <3> QED
      BY <3>1, SmallestNat
  <2>3. y \in VisitedIn(c) /\ y \in 1 .. Len(c) /\ y \in Nat /\ ~(y <= m) /\ y # 1
    BY <1>1, <2>1, <2>2
  <2>4. Enters(c, y, VisitedIn(c))
    BY <2>3, VisitedFixed
  <2>5. PICK a \in 1 .. y - 1 : \E i \in DOMAIN c[a] : c[a][i].child = y /\ a \in VisitedIn(c)
    BY <2>3, <2>4 DEF Enters
  <2>6. PICK i \in 1 .. Len(c[a]) : c[a][i].child = y
    <3>1. a \in 1 .. Len(c)
      BY <2>3, <2>5
    <3> QED
      BY <2>5, <3>1, HeapFacts
  <2>7. ~(y =< a)
    BY <2>3, <2>5
  <2>8. a <= m
    BY <2>2, <2>5, <2>7
  <2> QED
    BY <1>2, <2>3, <2>5, <2>6, <2>8
<1> QED
  BY <1>2, <1>3

LEMMA HandlerIs ==
  ASSUME NEW c, IsHeap(c), NEW s
  PROVE  s \in HandlersIn(c) <=>
           \E x \in VisitedIn(c) : \E i \in 1 .. Len(c[x]) :
             s = c[x][i] /\ IsHandler(s) /\ LocationIn(c, s) # <<>>
<1>1. \A x \in VisitedIn(c) : DOMAIN c[x] = 1 .. Len(c[x])
  BY VisitedFixed, HeapFacts
<1> QED
  BY <1>1 DEF HandlersIn

LEMMA HandlerChild ==
  ASSUME NEW c, IsHeap(c), NEW s \in HandlersIn(c)
  PROVE  s.child \in Nat \ {0} /\ s.child \in 1 .. Len(c)
<1>1. PICK x \in VisitedIn(c) : \E i \in 1 .. Len(c[x]) : s = c[x][i] /\ IsHandler(s)
  BY HandlerIs
<1>2. PICK i \in 1 .. Len(c[x]) : s = c[x][i] /\ s.child # 0
  BY <1>1 DEF IsHandler
<1>3. x \in 1 .. Len(c)
  BY VisitedFixed
<1>4. s.child \in Nat /\ s.child \in x + 1 .. Len(c)
  BY <1>2, <1>3, HeapFacts
<1>5. PICK d : d = s.child
  OBVIOUS
<1>6. d \in 1 .. Len(c)
  BY <1>3, <1>4, <1>5
<1> QED
  BY <1>2, <1>4, <1>5, <1>6

(* What the walk has passed with the block of the next statement.          *)
LEMMA PassedOn ==
  ASSUME NEW c, NEW cs, NEW m, NEW b, NEW p, NEW ch, At(c, cs, m, b, p, ch), NEW s
  PROVE  s \in Passed(c, ch) <=>
           \/ s \in Passed(c, m)
           \/ s = c[b][p] /\ IsHandler(s) /\ LocationIn(c, s) # <<>>
<1>1. IsHeap(c) /\ ch = c[b][p].child /\ ch # 0
  BY DEF At
<1>2. b \in VisitedIn(c) /\ b \in 1 .. Len(c) /\ p \in 1 .. Len(c[b])
  BY AtFacts
<1>3. m \in Nat /\ ch \in Nat /\ m < ch
  <2>1. m \in 1 .. Len(c) /\ ch \in b + 1 .. Len(c) /\ m < ch
    BY AtFacts
  <2> QED
    BY <1>2, <2>1
<1>4. ASSUME s \in HandlersIn(c), s.child <= ch, ~(s.child <= m)
      PROVE  s = c[b][p] /\ IsHandler(s) /\ LocationIn(c, s) # <<>>
  <2>1. PICK x \in VisitedIn(c) : \E i \in 1 .. Len(c[x]) :
               s = c[x][i] /\ IsHandler(s) /\ LocationIn(c, s) # <<>>
    BY <1>1, <1>4, HandlerIs
  <2>2. PICK i \in 1 .. Len(c[x]) : s = c[x][i]
    BY <2>1
  <2>3. ~(m < s.child /\ s.child < ch)
    BY <2>2, Gap
  <2>4. s.child \in Nat
    BY <1>1, <1>4, HandlerChild
  <2>5. PICK d \in Nat : d = s.child /\ ~(m < d /\ d < ch) /\ d <= ch /\ ~(d <= m)
    BY <1>4, <2>3, <2>4
  <2>6. d = ch
    BY <1>3, <2>5
  <2>7. x \in 1 .. Len(c) /\ c[x][i].child = c[b][p].child /\ c[x][i].child # 0
    BY <1>1, <2>2, <2>5, <2>6, VisitedFixed
  <2>8. x = b /\ i = p
    BY <1>1, <1>2, <2>7, OneParent
  <2> QED
    BY <2>1, <2>2, <2>8
<1>5. ASSUME s = c[b][p], IsHandler(s), LocationIn(c, s) # <<>>
      PROVE  s \in HandlersIn(c) /\ s.child <= ch
  <2>1. s \in HandlersIn(c)
    BY <1>1, <1>2, <1>5, HandlerIs
  <2> QED
    BY <1>1, <1>3, <1>5, <2>1
<1>6. ASSUME s \in HandlersIn(c), s.child <= m PROVE s.child <= ch
  <2>1. s.child \in Nat
    BY <1>1, <1>6, HandlerChild
  <2> QED
    BY <1>3, <1>6, <2>1
<1> QED
  BY <1>4, <1>5, <1>6 DEF Passed

(* Nothing is passed with the root alone, everything at the end.           *)
LEMMA PassedFirst ==
  ASSUME NEW c, IsHeap(c)
  PROVE  Passed(c, 1) = {}
<1> SUFFICES ASSUME NEW s \in Passed(c, 1) PROVE FALSE
  OBVIOUS
<1>1. s \in HandlersIn(c) /\ s.child <= 1
  BY DEF Passed
<1>2. PICK x \in VisitedIn(c) : \E i \in 1 .. Len(c[x]) : s = c[x][i] /\ IsHandler(s)
  BY <1>1, HandlerIs
<1>3. PICK i \in 1 .. Len(c[x]) : s = c[x][i] /\ s.child # 0
  BY <1>2 DEF IsHandler
<1>4. x \in 1 .. Len(c) /\ Len(c) \in Nat
  BY VisitedFixed, HeapFacts
<1>5. PICK d : d = s.child /\ d \in x + 1 .. Len(c) /\ d <= 1
  BY <1>1, <1>3, <1>4, HeapFacts
<1> QED
  BY <1>4, <1>5

LEMMA PassedLast ==
  ASSUME NEW c, IsHeap(c), NEW m, Walked(c, <<>>, m)
  PROVE  Passed(c, m) = HandlersIn(c)
<1>1. ASSUME NEW s \in HandlersIn(c) PROVE s.child <= m
  <2>1. PICK x \in VisitedIn(c) : \E i \in 1 .. Len(c[x]) : s = c[x][i]
    BY HandlerIs
  <2> QED
    BY <2>1, WalkEnds
<1> QED
  BY <1>1 DEF Passed

(* One more handler, which comes after all of S.                           *)
LEMMA CollectOne ==
  ASSUME NEW c, NEW S, NEW map, Collects(c, S, map), NEW s, NEW T, NEW map2,
         \A r : r \in T <=> r \in S \/ r = s,
         s.child \in Nat, \A r \in S : r.child \in Nat /\ r.child < s.child,
         map2 = [l \in DOMAIN map \cup {LocationIn(c, s)} |->
                   IF l = LocationIn(c, s) THEN Entry(s) ELSE map[l]]
  PROVE  Collects(c, T, map2)
<1>1. DOMAIN map2 = DOMAIN map \cup {LocationIn(c, s)}
  OBVIOUS
<1>2. DOMAIN map2 = {LocationIn(c, r) : r \in T}
  BY <1>1 DEF Collects
<1>3. map2 = [l \in DOMAIN map2 |-> map2[l]]
  OBVIOUS
<1>4. ASSUME NEW l \in DOMAIN map2
      PROVE  \E r : LastAt(c, T, l, r) /\ map2[l] = Entry(r)
  <2>1. CASE l = LocationIn(c, s)
    <3>1. \A r \in T : r.child <= s.child
      OBVIOUS
    <3>2. LastAt(c, T, l, s)
      BY <2>1, <3>1 DEF LastAt
    <3>3. map2[l] = Entry(s)
      BY <1>1, <2>1
    <3> QED
      BY <3>2, <3>3
  <2>2. CASE l # LocationIn(c, s)
    <3>1. l \in DOMAIN map /\ map2[l] = map[l]
      BY <1>1, <2>2
    <3>2. PICK r : LastAt(c, S, l, r) /\ map[l] = Entry(r)
      BY <3>1 DEF Collects
    <3>3. LastAt(c, T, l, r)
      BY <2>2, <3>2 DEF LastAt
    <3> QED
      BY <3>1, <3>2, <3>3
  <2> QED
    BY <2>1, <2>2
<1> QED
  BY <1>2, <1>3, <1>4 DEF Collects

LEMMA SetEquality ==
  ASSUME NEW S, NEW T, \A r : r \in S <=> r \in T
  PROVE  S = T
OBVIOUS

LEMMA FollowingMoves ==
  ASSUME StartInv, config # <<>>, calls # <<>>
  PROVE  /\ IsHeap(config) /\ Depth = Len(calls) /\ Depth \in Nat \ {0}
         /\ Position \in Nat \ {0} /\ calls[Depth][1] \in 1 .. Len(config)
         /\ Moved(calls, Following, Position)
         /\ Len(Following) = Depth /\ Following \in Seq((1 .. Len(config)) \X (Nat \ {0}))
<1> DEFINE Calls == (1 .. Len(config)) \X (Nat \ {0})
<1>1. IsHeap(config)
  BY ConfigAssumption DEF StartInv, IsHeap
<1>2. calls \in Seq(Calls)
  BY DEF StartInv, WalkInv
<1>3. Depth \in 1 .. Len(calls) /\ calls[Depth] \in Calls /\ Depth \in Nat \ {0} /\ Depth = Len(calls)
  BY <1>2 DEF Depth
<1>4. /\ calls[Depth][1] \in 1 .. Len(config) /\ Position \in Nat \ {0}
      /\ calls[Depth] = <<calls[Depth][1], Position>>
  <2>1. PICK b \in 1 .. Len(config), i \in Nat \ {0} : calls[Depth] = <<b, i>>
    BY <1>3
  <2> QED
    BY <2>1 DEF Position
<1>5. PICK e : e = <<calls[Depth][1], Position + 1>>
  OBVIOUS
<1>6. e \in Calls
  BY <1>4, <1>5
<1>7. Following = [calls EXCEPT ![Depth] = e]
  <2>1. [calls[Depth] EXCEPT ![2] = @ + 1] = <<calls[Depth][1], Position + 1>>
    BY <1>4
  <2>2. Following = [calls EXCEPT ![Depth] = [calls[Depth] EXCEPT ![2] = @ + 1]]
    BY <1>3 DEF Following
  <2> QED
    BY <1>5, <2>1, <2>2
<1>8. /\ Following \in Seq(Calls) /\ Len(Following) = Len(calls)
      /\ \A k \in 1 .. Len(calls) : Following[k] = IF k = Depth THEN e ELSE calls[k]
  <2> HIDE DEF Calls
  <2> QED
    BY <1>2, <1>3, <1>6, <1>7, ExceptSeq
<1>9. ASSUME NEW k \in 1 .. Len(calls)
      PROVE  /\ Following[k][1] = calls[k][1]
             /\ Following[k][2] = IF k = Len(calls) THEN Position + 1 ELSE calls[k][2]
  <2>1. CASE k = Depth
    BY <1>3, <1>5, <1>8, <2>1
  <2>2. CASE k # Depth
    BY <1>3, <1>8, <2>2
  <2> QED
    BY <2>1, <2>2
<1>10. Moved(calls, Following, Position)
  BY <1>8, <1>9 DEF Moved
<1> QED
  BY <1>1, <1>3, <1>4, <1>8, <1>10

(* A step of the walk.                                                     *)
LEMMA CollectWalk ==
  ASSUME StartInv, CollectInv, get_handler_paths
  PROVE  \E m \in 1 .. Len(config) :
           /\ Walked(config, calls', m)
           /\ NoClash(config) => Collects(config, Passed(config, m), handler_paths')
<1>1. phase = "handlers" /\ calls # <<>> /\ config # <<>>
  BY DEF get_handler_paths, StartInv
<1>2. PICK m \in 1 .. Len(config) :
        /\ Walked(config, calls, m)
        /\ NoClash(config) => Collects(config, Passed(config, m), handler_paths)
  BY <1>1 DEF CollectInv
<1>3. /\ IsHeap(config) /\ Depth = Len(calls) /\ Depth \in Nat \ {0}
      /\ Position \in Nat \ {0} /\ calls[Depth][1] \in 1 .. Len(config)
      /\ Moved(calls, Following, Position)
      /\ Len(Following) = Depth /\ Following \in Seq((1 .. Len(config)) \X (Nat \ {0}))
  BY <1>1, FollowingMoves
<1>4. PICK b, p : b = calls[Depth][1] /\ p = Position
  OBVIOUS
<1>5. Block = config[b] /\ Current = config[b][p] /\ p \in Nat \ {0} /\ b \in 1 .. Len(config)
  BY <1>3, <1>4 DEF Block, Current
<1>6. Len(config[b]) \in Nat
  BY <1>3, <1>5, HeapFacts
<1>7. Position <= Len(Block) => ~(Position > Len(Block))
  BY <1>3, <1>5, <1>6
<1>8. CASE Position > Len(Block) /\ calls' = SubSeq(calls, 1, Depth - 1) /\ UNCHANGED handler_paths
  <2> DEFINE Calls == (1 .. Len(config)) \X (Nat \ {0})
  <2>1. calls \in Seq(Calls)
    BY DEF StartInv, WalkInv
  <2>2. Len(calls') = Len(calls) - 1 /\ \A k \in 1 .. Len(calls') : calls'[k] = calls[k]
    <3> HIDE DEF Calls
    <3>1. PICK n \in Nat : n = Depth - 1 /\ n <= Len(calls) /\ n = Len(calls) - 1
      <4>1. PICK d \in Nat \ {0} : d = Depth /\ d = Len(calls)
        BY <1>3
      <4>2. d - 1 \in Nat /\ d - 1 <= d
        OBVIOUS
      <4> QED
        BY <4>1, <4>2
    <3>2. calls' = SubSeq(calls, 1, n)
      BY <1>8, <3>1
    <3>3. Len(calls') = n /\ \A k \in 1 .. n : calls'[k] = calls[k]
      BY <2>1, <3>1, <3>2
    <3> QED
      BY <3>1, <3>3
  <2>3. calls[Len(calls)][2] \in Nat /\ calls[Len(calls)][2] > Len(config[calls[Len(calls)][1]])
    BY <1>3, <1>4, <1>5, <1>8 DEF Position
  <2>4. Walked(config, calls', m)
    BY <1>2, <1>3, <2>2, <2>3, WalkBack
  <2> QED
    BY <1>2, <1>8, <2>4
<1>9. CASE Position <= Len(Block) /\ ~(\E s : s = Current /\ s.child # 0)
  <2>1. ~IsHandler(Current) /\ Current.child = 0
    BY <1>9 DEF IsHandler
  <2>2. calls' = Following /\ handler_paths' = handler_paths
    BY <1>9, <1>7, <2>1 DEF get_handler_paths
  <2>3. p \in Nat /\ p = calls[Len(calls)][2] /\ config[calls[Len(calls)][1]][p].child = 0
    BY <1>3, <1>4, <1>5, <2>1 DEF Position
  <2>4. Moved(calls, calls', p)
    BY <1>3, <1>4, <2>2
  <2>5. Walked(config, calls', m)
    BY <1>2, <2>3, <2>4, WalkOver
  <2> QED
    BY <1>2, <2>2, <2>5
<1>10. CASE Position <= Len(Block) /\ Current.child # 0
  <2>1. PICK ch : ch = Current.child
    OBVIOUS
  <2>2. p \in 1 .. Len(config[b])
    BY <1>4, <1>5, <1>6, <1>10
  <2>3. At(config, calls, m, b, p, ch)
    BY <1>2, <1>3, <1>4, <1>5, <1>10, <2>1, <2>2 DEF At, Position
  <2>4. ch \in 1 .. Len(config)
    BY <2>3, ChildVisited
  <2>5. Moved(calls, Following, p)
    BY <1>3, <1>4
  <2>6. CASE IsHandler(Current)
    <3>1. /\ calls' = Following
          /\ handler_paths' = IF Usable(Current) THEN Put(Current) ELSE handler_paths
      BY <1>10, <1>7, <2>6 DEF get_handler_paths
    <3>2. Walked(config, calls', ch)
      BY <1>5, <2>3, <2>5, <2>6, <3>1, WalkPast
    <3>3. ASSUME NoClash(config)
          PROVE  Collects(config, Passed(config, ch), handler_paths')
      <4>1. Collects(config, Passed(config, m), handler_paths)
        BY <1>2, <3>3
      <4>2. Location(Current) = LocationIn(config, Current)
        BY DEF Location, LocationIn
      <4>3. CASE LocationIn(config, Current) = <<>>
        <5>1. ~Usable(Current)
          BY <4>2, <4>3 DEF Usable
        <5>2. Passed(config, ch) = Passed(config, m)
          <6>1. \A r : r \in Passed(config, ch) <=> r \in Passed(config, m)
            BY <1>5, <2>3, <4>3, PassedOn
          <6> QED
            BY <6>1, SetEquality
        <5> QED
          BY <3>1, <4>1, <5>1, <5>2
      <4>4. CASE LocationIn(config, Current) # <<>>
        <5>1. \A r : r \in Passed(config, ch) <=> r \in Passed(config, m) \/ r = Current
          BY <1>5, <2>3, <2>6, <4>4, PassedOn
        <5>2. Current \in HandlersIn(config)
          BY <5>1 DEF Passed
        <5>3. Usable(Current)
          <6>1. \A l \in DOMAIN handler_paths : \E r \in HandlersIn(config) : l = LocationIn(config, r)
            BY <4>1 DEF Collects, Passed
          <6> QED
            BY <3>3, <4>2, <4>4, <5>2, <6>1 DEF NoClash, Usable
        <5>4. Current.child \in Nat
              /\ \A r \in Passed(config, m) : r.child \in Nat /\ r.child < Current.child
          <6>1. m \in Nat /\ m < ch
            BY <2>3, AtFacts
          <6>2. Current.child \in Nat
            BY <1>3, <5>2, HandlerChild
          <6>3. ASSUME NEW r \in Passed(config, m)
                PROVE  r.child \in Nat /\ r.child < Current.child
            <7>1. r \in HandlersIn(config) /\ r.child <= m
              BY DEF Passed
            <7>2. r.child \in Nat
              BY <1>3, <7>1, HandlerChild
            <7> QED
              BY <2>1, <6>1, <6>2, <7>1, <7>2
          <6> QED
            BY <6>2, <6>3
        <5>5. handler_paths' =
                [l \in DOMAIN handler_paths \cup {LocationIn(config, Current)} |->
                   IF l = LocationIn(config, Current) THEN Entry(Current) ELSE handler_paths[l]]
          BY <3>1, <4>2, <5>3 DEF Put
        <5> QED
          BY <4>1, <5>1, <5>4, <5>5, CollectOne
      <4> QED
        BY <4>3, <4>4
    <3> QED
      BY <2>4, <3>2, <3>3
  <2>7. CASE ~IsHandler(Current)
    <3>1. calls' = Append(Following, <<ch, 1>>) /\ handler_paths' = handler_paths
      BY <1>10, <1>7, <2>1, <2>7 DEF get_handler_paths
    <3>2. /\ Len(calls') = Len(calls) + 1 /\ calls'[Len(calls) + 1] = <<ch, 1>>
          /\ \A k \in 1 .. Len(calls) : calls'[k] = Following[k]
      <4>1. PICK f : f = Following /\ f \in Seq((1 .. Len(config)) \X (Nat \ {0})) /\ Len(f) = Len(calls)
        BY <1>3
      <4> DEFINE Calls == (1 .. Len(config)) \X (Nat \ {0})
      <4>2. <<ch, 1>> \in Calls
        BY <2>4
      <4>3. calls' = Append(f, <<ch, 1>>) /\ f \in Seq(Calls)
        BY <3>1, <4>1
      <4> HIDE DEF Calls
      <4>4. /\ Len(calls') = Len(f) + 1 /\ calls'[Len(f) + 1] = <<ch, 1>>
            /\ \A k \in 1 .. Len(f) : calls'[k] = f[k]
        BY <4>2, <4>3
      <4> QED
        BY <4>1, <4>4
    <3>3. Walked(config, calls', ch)
      BY <1>5, <2>3, <2>5, <2>7, <3>2, WalkInto
    <3>4. Passed(config, ch) = Passed(config, m)
      <4>1. \A r : r \in Passed(config, ch) <=> r \in Passed(config, m)
        BY <1>5, <2>3, <2>7, PassedOn
      <4> QED
        BY <4>1, SetEquality
    <3> QED
      BY <1>2, <2>4, <3>1, <3>3, <3>4
  <2> QED
    BY <2>6, <2>7
<1> QED
  BY <1>3, <1>5, <1>6, <1>8, <1>9, <1>10 DEF get_handler_paths

LEMMA WalkBegins ==
  ASSUME NEW c, IsHeap(c)
  PROVE  Walked(c, << <<1, 1>> >>, 1)
<1> DEFINE cs == << <<1, 1>> >>
<1>1. 1 \in 1 .. Len(c) /\ 1 \in VisitedIn(c)
  <2>1. 1 \in 1 .. Len(c)
    BY HeapFacts
  <2> QED
    BY <2>1, VisitedFixed DEF Enters
<1>2. Len(cs) = 1 /\ cs[1][1] = 1 /\ cs[1][2] = 1
  OBVIOUS
<1> HIDE DEF cs
<1>3. \A k \in 1 .. Len(cs) : k = 1
  BY <1>2
<1>4. ASSUME NEW i \in 1 .. Len(c[1]), c[1][i].child # 0
      PROVE  ~(c[1][i].child <= 1) /\ ~(i < 1)
  <2>1. c[1][i].child \in 1 + 1 .. Len(c) /\ Len(c) \in Nat
    BY <1>1, <1>4, HeapFacts
  <2>2. ~(i < 1)
    OBVIOUS
  <2> QED
    BY <2>1, <2>2, AboveRange
<1>5. \A x \in VisitedIn(c) : x <= 1 => x = 1
  BY VisitedFixed
<1>6. \A k \in 1 .. Len(cs) : cs[k][1] \in VisitedIn(c) /\ cs[k][1] <= 1
  BY <1>1, <1>2, <1>3
<1>7. \A j, k \in 1 .. Len(cs) : j < k => cs[j][1] < cs[k][1]
  BY <1>2, <1>3
<1>8. \A k \in 1 .. Len(cs) : \A i \in 1 .. Len(c[cs[k][1]]) :
        c[cs[k][1]][i].child # 0 => (c[cs[k][1]][i].child <= 1 <=> i < cs[k][2])
  BY <1>2, <1>3, <1>4
<1>9. \A x \in VisitedIn(c) : x <= 1 => ~(\A k \in 1 .. Len(cs) : cs[k][1] # x)
  BY <1>2, <1>5
<1>10. Walked(c, cs, 1)
  BY <1>1, <1>6, <1>7, <1>8, <1>9 DEF Walked
<1> QED
  BY <1>10 DEF cs

LEMMA CollectInitial == StartInit => CollectInv
  BY DEF StartInit, CollectInv

LEMMA CollectStart == StartInv /\ CollectInv /\ Start => CollectInv'
<1> SUFFICES ASSUME StartInv, CollectInv, Start, config # <<>> PROVE CollectInv'
  BY DEF Start, CollectInv, set_config_params, get_handler_paths, config_params, server, init
<1>1. IsHeap(config)
  BY ConfigAssumption DEF StartInv, IsHeap
<1>2. CASE set_config_params
  <2>1. /\ phase = "parsed" /\ phase' = "handlers" /\ calls' = << <<1, 1>> >>
        /\ config' = config /\ handler_paths' = handler_paths
    BY <1>2 DEF set_config_params, params
  <2>2. DOMAIN handler_paths = {}
    BY <2>1 DEF CollectInv
  <2>3. handler_paths' = [l \in DOMAIN handler_paths' |-> handler_paths'[l]]
    BY <2>1 DEF CollectInv
  <2>4. Collects(config, Passed(config, 1), handler_paths')
    BY <1>1, <2>1, <2>2, <2>3, PassedFirst DEF Collects
  <2>5. Walked(config, calls', 1)
    BY <1>1, <2>1, WalkBegins
  <2>6. 1 \in 1 .. Len(config)
    BY <1>1, HeapFacts
  <2> QED
    BY <2>1, <2>4, <2>5, <2>6 DEF CollectInv
<1>3. CASE get_handler_paths
  <2>1. phase' = "handlers" /\ config' = config
    BY <1>3 DEF get_handler_paths
  <2>2. \E m \in 1 .. Len(config) :
          /\ Walked(config, calls', m)
          /\ NoClash(config) => Collects(config, Passed(config, m), handler_paths')
    BY <1>3, CollectWalk
  <2> QED
    BY <2>1, <2>2 DEF CollectInv
<1>4. CASE config_params
  <2>1. /\ phase = "handlers" /\ calls = <<>> /\ phase' = "constructing"
        /\ config' = config /\ handler_paths' = handler_paths
    BY <1>4 DEF config_params
  <2>2. PICK m \in 1 .. Len(config) :
          /\ Walked(config, calls, m)
          /\ NoClash(config) => Collects(config, Passed(config, m), handler_paths)
    BY <2>1 DEF CollectInv
  <2>3. Passed(config, m) = HandlersIn(config)
    BY <1>1, <2>1, <2>2, PassedLast
  <2> QED
    BY <2>1, <2>2, <2>3 DEF CollectInv
<1>5. CASE server \/ init
  <2>1. /\ phase \in {"constructing", "constructed"} /\ phase' \in {"constructed", "running", "exited"}
        /\ config' = config /\ handler_paths' = handler_paths
    BY <1>5 DEF server, init, params
  <2> QED
    BY <2>1 DEF CollectInv
<1> QED
  BY <1>2, <1>3, <1>4, <1>5 DEF Start

LEMMA CollectNext == StartInv /\ CollectInv /\ [Next]_vars => CollectInv'
<1>1. CollectInv /\ UNCHANGED startVars => CollectInv'
  BY DEF CollectInv, startVars, params
<1>2. Serve => UNCHANGED startVars
  BY DEF Serve, handle_read, route, no_handler, createByName, HandleRequest, OtherHandler
<1> QED
  BY <1>1, <1>2, CollectStart DEF Next, Starting, vars

(* A handler is known by its block.                                        *)
LEMMA SameHandler ==
  ASSUME NEW c, IsHeap(c), NEW s \in HandlersIn(c), NEW r \in HandlersIn(c), s.child = r.child
  PROVE  s = r
<1>1. PICK x \in VisitedIn(c) : \E i \in 1 .. Len(c[x]) : s = c[x][i]
  BY HandlerIs
<1>2. PICK i \in 1 .. Len(c[x]) : s = c[x][i]
  BY <1>1
<1>3. PICK y \in VisitedIn(c) : \E j \in 1 .. Len(c[y]) : r = c[y][j]
  BY HandlerIs
<1>4. PICK j \in 1 .. Len(c[y]) : r = c[y][j]
  BY <1>3
<1>5. x \in 1 .. Len(c) /\ y \in 1 .. Len(c) /\ c[x][i].child # 0
  BY <1>2, VisitedFixed, HandlerChild
<1>6. x = y /\ i = j
  BY <1>2, <1>4, <1>5, OneParent
<1> QED
  BY <1>2, <1>4, <1>6

(* For every configuration: when get_handler_paths has returned from the   *)
(* root, each location is served by the last handler block that names it,  *)
(* at whatever depth; nothing inside a handler's block and nothing without *)
(* a location is served.                                                   *)
THEOREM LastHandlerServes == Spec => []HandlersCollected
<1>1. StartInv /\ CollectInv => HandlersCollected
  <2> SUFFICES ASSUME StartInv, CollectInv, HandlersRead,
                      \A s, r \in Handlers : Location(s) # r.tokens[2]
               PROVE  handler_paths =
                        [l \in {Location(s) : s \in Handlers} |->
                           Entry(CHOOSE s \in HandlersAt(l) :
                                   \A r \in HandlersAt(l) : r.child <= s.child)]
    BY DEF HandlersCollected
  <2>1. IsHeap(config) /\ config # <<>>
    BY ConfigAssumption DEF StartInv, IsHeap, HandlersRead
  <2>2. Visited = VisitedIn(config)
    BY DEF Visited, VisitedIn
  <2>3. \A s : Location(s) = LocationIn(config, s)
    BY DEF Location, LocationIn
  <2>4. Handlers = HandlersIn(config)
    BY <2>2, <2>3 DEF Handlers, HandlersIn
  <2>5. Collects(config, HandlersIn(config), handler_paths)
    <3>1. NoClash(config)
      BY <2>3, <2>4 DEF NoClash
    <3> QED
      BY <2>1, <3>1 DEF CollectInv, HandlersRead
  <2>6. DOMAIN handler_paths = {Location(s) : s \in Handlers}
    BY <2>3, <2>4, <2>5 DEF Collects
  <2>7. ASSUME NEW l \in DOMAIN handler_paths
        PROVE  handler_paths[l] = Entry(CHOOSE s \in HandlersAt(l) :
                                          \A r \in HandlersAt(l) : r.child <= s.child)
    <3> DEFINE last == CHOOSE s \in HandlersAt(l) : \A r \in HandlersAt(l) : r.child <= s.child
    <3>1. PICK t : LastAt(config, HandlersIn(config), l, t) /\ handler_paths[l] = Entry(t)
      BY <2>5 DEF Collects
    <3>2. t \in HandlersAt(l) /\ \A r \in HandlersAt(l) : r.child <= t.child
      BY <2>3, <2>4, <3>1 DEF LastAt, HandlersAt
    <3>3. last \in HandlersAt(l) /\ \A r \in HandlersAt(l) : r.child <= last.child
      BY <3>2
    <3> HIDE DEF last
    <3>4. PICK u : u = last
      OBVIOUS
    <3>5. t.child <= u.child /\ u.child <= t.child
      BY <3>2, <3>3, <3>4
    <3>6. t \in HandlersIn(config) /\ u \in HandlersIn(config)
      BY <2>4, <3>2, <3>3, <3>4 DEF HandlersAt
    <3>7. t.child \in Nat /\ u.child \in Nat
      BY <2>1, <3>6, HandlerChild
    <3>8. t.child = u.child
      BY <3>5, <3>7
    <3>9. t = u
      BY <2>1, <3>6, <3>8, SameHandler
    <3>10. handler_paths[l] = Entry(last)
      BY <3>1, <3>4, <3>9
    <3> QED
      BY <3>10 DEF last
  <2>8. handler_paths = [l \in DOMAIN handler_paths |-> handler_paths[l]]
    BY <2>5 DEF Collects
  <2> QED
    BY <2>6, <2>7, <2>8
<1>2. Spec => []CollectInv
  <2>1. Init => StartInv /\ CollectInv
    BY StartInitial, CollectInitial DEF Init
  <2>2. StartInv /\ CollectInv /\ [Next]_vars => (StartInv /\ CollectInv)'
    BY StartNext, CollectNext
  <2> QED
    BY <2>1, <2>2, PTL DEF Spec
<1> QED
  BY <1>1, <1>2, StartInvariance, PTL

=============================================================================
