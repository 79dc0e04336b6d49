------------------------------ MODULE Startup -------------------------------
(***************************************************************************)
(* From a parsed configuration to a listening server: set_config_params    *)
(* and the constructor of server (server.cc), config_params (with the walk *)
(* of get_handler_paths over the blocks) and server::init.                 *)
(*                                                                         *)
(* The keywords port, handler, location, root, host and the names of       *)
(* handlers, which are only compared as a whole, are tokens of one         *)
(* character.                                                              *)
(***************************************************************************)
EXTENDS NginxConfig

CONSTANT Configs        \* heaps that NginxConfigParser::Parse may build

(* ConfigParser shows it of every file (BlocksFormTree).                   *)
ASSUME ConfigAssumption ==
  \A c \in Configs : c \in Seq(Seq(Statements)) /\ c # <<>> /\ IsTree(c) /\ InOrder(c)

VARIABLES
  phase,            \* how far main is
  config,           \* the configuration, <<>> if Parse has returned false
  calls,            \* the calls of get_handler_paths: block, next statement
  handler_paths,    \* std::map of config_params: location -> type and block
  port,             \* short of config_params
  server_root,
  acceptor          \* the port listened on, -1 for nullptr

params == <<handler_paths, port, server_root>>
startVars == <<phase, config, calls, params, acceptor>>

StartInit ==
  /\ phase = "parsed"
  /\ config \in Configs \cup {<<>>}
  /\ calls = <<>>
  /\ handler_paths = [l \in {} |-> <<>>] /\ port = -1 /\ server_root = <<>>
  /\ acceptor = -1

(* server::set_config_params: of a file that is not a configuration        *)
(* nothing is used.                                                        *)
set_config_params ==
  /\ phase = "parsed"
  /\ \/ config = <<>> /\ phase' = "constructing" /\ UNCHANGED calls
     \/ config # <<>> /\ phase' = "handlers" /\ calls' = << <<1, 1>> >>
  /\ UNCHANGED <<config, params, acceptor>>

-----------------------------------------------------------------------------
(* get_handler_paths                                                       *)

IsHandler(statement) == IsPair(statement, <<"handler">>) /\ statement.child # 0

Location(statement) == get_key_value(config[statement.child], <<"location">>)

Entry(statement) == [type |-> statement.tokens[2], block |-> statement.child]

Usable_keeps(statement) ==              \* a location keeps its first handler
  Location(statement) # <<>> /\ Location(statement) \notin DOMAIN handler_paths

(* The check for a duplicate looks for the type among the paths.           *)
Usable(statement) ==
  Location(statement) # <<>> /\ statement.tokens[2] \notin DOMAIN handler_paths

Put(statement) ==
  [l \in DOMAIN handler_paths \cup {Location(statement)} |->
     IF l = Location(statement) THEN Entry(statement) ELSE handler_paths[l]]

Depth == Len(calls)
Block == config[calls[Depth][1]]
Position == calls[Depth][2]
Current == Block[Position]

Following_mutant == calls               \* the loop does not move on

Following == [calls EXCEPT ![Depth][2] = @ + 1]

get_handler_paths ==
  /\ phase = "handlers" /\ calls # <<>>
  /\ \/ /\ Position > Len(Block)
        /\ calls' = SubSeq(calls, 1, Depth - 1)
        /\ UNCHANGED handler_paths
     \/ /\ Position <= Len(Block) /\ IsHandler(Current)
        /\ handler_paths' = IF Usable(Current) THEN Put(Current) ELSE handler_paths
        /\ calls' = Following
     \/ /\ Position <= Len(Block) /\ ~IsHandler(Current)
        /\ calls' = IF Current.child = 0 THEN Following
                    ELSE Append(Following, <<Current.child, 1>>)
        /\ UNCHANGED handler_paths
  /\ UNCHANGED <<phase, config, port, server_root, acceptor>>

-----------------------------------------------------------------------------
(* The rest of config_params                                               *)

ToShort_mutant(n) == IF n > 32767 THEN -1 ELSE n

(* int to short int, and short int to the unsigned short of an endpoint.   *)
ToShort(n) == IF n % 65536 > 32767 THEN (n % 65536) - 65536 ELSE n % 65536
ToUnsigned(n) == n % 65536

RootPath_mutant(root) == IF root = <<>> THEN <<".", "/">> ELSE root

RootPath(root) ==
  IF root \in {<<>>, <<".">>} THEN <<".", "/">>
  ELSE IF root # <<"/">> THEN Append(root, "/") ELSE root

config_params ==
  /\ phase = "handlers" /\ calls = <<>>
  /\ port' = ToShort(get_port(config[1]))
  /\ server_root' = RootPath(get_key_value(config[1], <<"root">>))
  /\ phase' = "constructing"
  /\ UNCHANGED <<config, calls, handler_paths, acceptor>>

(* The acceptor of the constructor of server may throw; main then exits.   *)
server ==
  /\ phase = "constructing"
  /\ \/ port = -1 /\ acceptor' = -1 /\ phase' = "constructed"
     \/ port # -1 /\ acceptor' = ToUnsigned(port) /\ phase' = "constructed"
     \/ port # -1 /\ phase' = "exited" /\ UNCHANGED acceptor
  /\ UNCHANGED <<config, calls, params>>

(* server::init; init_sqlite3 may fail.                                    *)
init ==
  /\ phase = "constructed"
  /\ \/ acceptor # -1 /\ phase' = "running"
     \/ phase' = "exited"
  /\ UNCHANGED <<config, calls, params, acceptor>>

Start == set_config_params \/ get_handler_paths \/ config_params \/ server \/ init

-----------------------------------------------------------------------------
(* Properties                                                              *)

Ports == 0 .. 65534

ConfiguredPort == IF config = <<>> THEN -1 ELSE get_port(config[1])

(* The port survives the way from int through short to unsigned short:     *)
(* every port below 65535 is listened on, and without a usable port the    *)
(* server does not run.                                                    *)
PortKept ==
  /\ phase \in {"constructed", "running"} /\ ConfiguredPort \in Ports =>
       acceptor = ConfiguredPort
  /\ phase = "running" => ConfiguredPort # -1

(* The blocks that are not inside a handler's block.                       *)
Visited ==
  LET visited[b \in 1 .. Len(config)] ==
        \/ b = 1
        \/ \E a \in 1 .. b - 1 : \E i \in DOMAIN config[a] :
             config[a][i].child = b /\ visited[a] /\ ~IsHandler(config[a][i])
  IN {b \in 1 .. Len(config) : visited[b]}

Handlers ==
  {s \in UNION {{config[b][i] : i \in DOMAIN config[b]} : b \in Visited} :
     IsHandler(s) /\ Location(s) # <<>>}

HandlersAt(l) == {s \in Handlers : Location(s) = l}

HandlersRead == phase \in {"constructing", "constructed", "running"} /\ config # <<>>

(* Each location is served by the last handler block that names it, at     *)
(* whatever depth the block is; blocks inside a handler's block and blocks *)
(* without a location serve nothing.  It takes locations that are not the  *)
(* name of a handler.                                                      *)
HandlersCollected ==
  HandlersRead /\ (\A s, r \in Handlers : Location(s) # r.tokens[2]) =>
    handler_paths =
      [l \in {Location(s) : s \in Handlers} |->
         Entry(CHOOSE s \in HandlersAt(l) : \A r \in HandlersAt(l) : r.child <= s.child)]

(* Starting comes to an end: the walk over the blocks terminates.          *)
StartEnds == <>(phase \in {"running", "exited"})

=============================================================================
