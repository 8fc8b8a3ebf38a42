----------------------------- MODULE Invocation -----------------------------
(***************************************************************************)
(* How a runtime's parameters reach a plugin and the plugin's delegate.    *)
(* libcni puts them into CNI_ variables behind those of its own            *)
(* environment, the skeleton of the plugin reads them back, the delegate   *)
(* inherits the environment, and an IPAM plugin splits CNI_ARGS into the   *)
(* pairs that the runtime was given.                                       *)
(*                                                                         *)
(* A text is a sequence of words and separators.                           *)
(***************************************************************************)
EXTENDS Concatenation

CONSTANTS Error,      \* a command is refused, or ends in an error or a panic
          Words,      \* the words, and the separators
          Ambients,   \* environments of the runtime
          Values,     \* values of the runtime's parameters
          Paths,      \* lists of plugin directories
          PairLists,  \* lists of pairs for CNI_ARGS
          Files       \* the regular files <<directory, name>>

Text == Seq(Words)

VARIABLES action, rt, path, ambient

Names == {"CNI_COMMAND", "CNI_CONTAINERID", "CNI_NETNS", "CNI_ARGS", "CNI_IFNAME", "CNI_PATH"}

(* What LoadArgs accumulates.                                              *)
Accumulated == [IP : Text, IgnoreUnknown : BOOLEAN, unknown : BOOLEAN]

ASSUME TextsAssumption ==
    /\ Names \cup {"ADD", "DEL", ":", ";", "="} \subseteq Words
    /\ Values \subseteq Text /\ \A l \in PairLists : l \in Seq(Text \X Text)
    /\ \A p \in Paths : p \in Seq(Text)
    /\ \A e \in Ambients : e \in Seq(Words \X Text)
    /\ Error \notin [Names -> Text] \cup Accumulated

RuntimeInputs ==
    /\ action \in {<<"ADD">>, <<"DEL">>}
    /\ rt \in [ContainerID : Values, NetNS : Values, IfName : Values, Args : PairLists]
    /\ path \in Paths
    /\ ambient \in Ambients

-----------------------------------------------------------------------------
(* strings.Join                                                            *)
Join(parts, sep) == Flat([i \in 1 .. Len(parts) |-> IF i = 1 THEN parts[i] ELSE <<sep>> \o parts[i]])

(* strings.Split, word by word: a separator begins another part.           *)
AddWord(parts, word, sep) ==
    IF word = sep THEN Append(parts, <<>>) ELSE [parts EXCEPT ![Len(parts)] = Append(@, word)]

Split(s, sep) ==
    LET upTo[i \in 0 .. Len(s)] == IF i = 0 THEN << <<>> >> ELSE AddWord(upTo[i - 1], s[i], sep)
    IN  upTo[Len(s)]

(* FindInPath: the first directory that has the plugin.                    *)
FindInPath(plugin, paths) ==
    LET has == {i \in 1 .. Len(paths) : <<paths[i], plugin>> \in Files}
    IN  IF plugin = <<>> \/ has = {} THEN Error
        ELSE <<paths[CHOOSE i \in has : \A j \in has : i <= j], plugin>>

(* stringify                                                               *)
Stringify(pairs) == Join([i \in 1 .. Len(pairs) |-> Join(pairs[i], "=")], ";")

(* CNIConfig.args and Args.AsEnv.                                          *)
AsEnv ==
    ambient \o << <<"CNI_COMMAND", action>>, <<"CNI_CONTAINERID", rt.ContainerID>>,
                  <<"CNI_NETNS", rt.NetNS>>, <<"CNI_ARGS", Stringify(rt.Args)>>,
                  <<"CNI_IFNAME", rt.IfName>>, <<"CNI_PATH", Join(path, ":")>> >>

-----------------------------------------------------------------------------
(* Getenv: of a variable that is set twice, the libraries of some releases *)
(* of Go find the first and those of others the last value.                *)
Getenv(env, name, first) ==
    LET at == {i \in 1 .. Len(env) : env[i][1] = name}
        best == IF first THEN CHOOSE i \in at : \A j \in at : i <= j
                ELSE CHOOSE i \in at : \A j \in at : i >= j
    IN  IF at = {} THEN <<>> ELSE env[best][2]

Required(cmd) ==
    CASE cmd = <<"ADD">> -> {"CNI_NETNS", "CNI_IFNAME", "CNI_PATH"}
      [] cmd = <<"DEL">> -> {"CNI_IFNAME", "CNI_PATH"}
      [] OTHER -> {}

(* getCmdArgsFromEnv, and what pluginMain calls back with; VERSION only    *)
(* prints, and calls nothing back.                                         *)
PluginMain(env, first) ==
    LET args == [n \in Names |-> Getenv(env, n, first)]
        cmd == args["CNI_COMMAND"]
    IN  IF cmd \notin {<<"ADD">>, <<"DEL">>} \/ \E n \in Required(cmd) : args[n] = <<>>
        THEN Error ELSE args

(* DelegateAdd and DelegateDel, called by a plugin for its own command:    *)
(* the delegate that is executed, and it inherits the environment.         *)
DelegatePath(env, first, cmd, plugin) ==
    IF Getenv(env, "CNI_COMMAND", first) # cmd THEN Error
    ELSE FindInPath(plugin, Split(Getenv(env, "CNI_PATH", first), ":"))

-----------------------------------------------------------------------------
(* The arguments of host-local: IPAMArgs with its CommonArgs, which is a   *)
(* field by its own name as well.                                          *)

Fields == {<<"IP">>, <<"IgnoreUnknown">>, <<"CommonArgs">>}
NoIP == <<>>

(* UnmarshalText of net.IP, which takes an empty text for no address, and  *)
(* of UnmarshallableBool; CommonArgs has none, and its assertion panics.   *)
Valid(key, v) ==
    \/ key = <<"IP">> /\ v \in {<<>>, <<"10.0.0.2">>, <<"10.0.0.3">>}
    \/ key = <<"IgnoreUnknown">> /\ v \in {<<"1">>, <<"true">>, <<"0">>, <<"false">>}

(* Mutant: unknown arguments are looked at when they are met.              *)
TakePairEagerly(acc, pair) ==
    LET kv == Split(pair, "=")
    IN  IF acc = Error \/ Len(kv) # 2 THEN Error
        ELSE IF kv[1] \notin Fields THEN (IF acc.IgnoreUnknown THEN acc ELSE Error)
        ELSE IF ~ Valid(kv[1], kv[2]) THEN Error
        ELSE IF kv[1] = <<"IP">> THEN [acc EXCEPT !.IP = kv[2]]
        ELSE [acc EXCEPT !.IgnoreUnknown = kv[2] \in {<<"1">>, <<"true">>}]

(* The body of the loop of LoadArgs.                                       *)
TakePair(acc, pair) ==
    LET kv == Split(pair, "=")
    IN  IF acc = Error \/ Len(kv) # 2 THEN Error
        ELSE IF kv[1] \notin Fields THEN [acc EXCEPT !.unknown = TRUE]
        ELSE IF ~ Valid(kv[1], kv[2]) THEN Error
        ELSE IF kv[1] = <<"IP">> THEN [acc EXCEPT !.IP = kv[2]]
        ELSE [acc EXCEPT !.IgnoreUnknown = kv[2] \in {<<"1">>, <<"true">>}]

(* LoadArgs, by LoadIPAMConfig, for an empty text as well.                 *)
LoadArgs(args) ==
    LET pairs == IF args = <<>> THEN <<>> ELSE Split(args, ";")
        loop[i \in 0 .. Len(pairs)] ==
            IF i = 0 THEN [IP |-> NoIP, IgnoreUnknown |-> FALSE, unknown |-> FALSE]
            ELSE TakePair(loop[i - 1], pairs[i])
        acc == loop[Len(pairs)]
    IN  IF acc = Error THEN Error
        ELSE IF acc.unknown /\ ~ acc.IgnoreUnknown THEN Error
        ELSE [IP |-> acc.IP, IgnoreUnknown |-> acc.IgnoreUnknown]

-----------------------------------------------------------------------------
(* Properties.                                                             *)

(* The runtime's environment does not have other values for the variables. *)
Unambiguous ==
    \A i \in 1 .. Len(ambient) : ambient[i][1] \in Names =>
        ambient[i][2] = Getenv(AsEnv, ambient[i][1], FALSE)

Clean(s, seps) == \A i \in 1 .. Len(s) : s[i] \notin seps

(* The plugin is called back for the runtime's command and with its        *)
(* parameters, or refused because of a parameter that this command needs;  *)
(* its delegate, which has to be called for the same command, is the one   *)
(* that the runtime would find on its own path.                            *)
EnvironmentArrives(first) ==
    LET got == PluginMain(AsEnv, first)
        needed == {rt.IfName, Join(path, ":")} \cup (IF action = <<"ADD">> THEN {rt.NetNS} ELSE {})
    IN  /\ got = Error <=> <<>> \in needed
        /\ got # Error =>
            /\ got["CNI_COMMAND"] = action /\ got["CNI_CONTAINERID"] = rt.ContainerID
            /\ got["CNI_NETNS"] = rt.NetNS /\ got["CNI_IFNAME"] = rt.IfName
            /\ DelegatePath(AsEnv, first, action, <<"host-local">>) = FindInPath(<<"host-local">>, path)

(* The last pair of this key.                                              *)
LastValue(key, default) ==
    LET at == {i \in 1 .. Len(rt.Args) : rt.Args[i][1] = key}
    IN  IF at = {} THEN default ELSE rt.Args[CHOOSE i \in at : \A j \in at : j <= i][2]

(* An IPAM plugin gets the arguments that the runtime was given, in which  *)
(* the last pair of a key counts; it refuses them if a value cannot be     *)
(* parsed, even one that does not count, or if it does not know a key and  *)
(* is not told, at whatever place, to ignore this.                         *)
ArgumentsArrive(first) ==
    LET bad == \E i \in 1 .. Len(rt.Args) : rt.Args[i][1] \in Fields /\ ~ Valid(rt.Args[i][1], rt.Args[i][2])
        unknown == \E i \in 1 .. Len(rt.Args) : rt.Args[i][1] \notin Fields
        ignore == LastValue(<<"IgnoreUnknown">>, <<"0">>) \in {<<"1">>, <<"true">>}
    IN  LoadArgs(Getenv(AsEnv, "CNI_ARGS", first)) =
            IF bad \/ (unknown /\ ~ ignore) THEN Error
            ELSE [IP |-> LastValue(<<"IP">>, NoIP), IgnoreUnknown |-> ignore]

(* Parameters and arguments reach the plugin, its delegate and the IPAM    *)
(* plugin as the runtime was given them, or the command is refused,        *)
(* whichever value of a variable counts; unless the runtime was itself     *)
(* given other CNI_ variables, or a text has a separator in it.            *)
ParametersArrive ==
    Unambiguous => \A first \in BOOLEAN :
        /\ (\A i \in 1 .. Len(path) : Clean(path[i], {":"})) => EnvironmentArrives(first)
        /\ (\A i \in 1 .. Len(rt.Args) : \A k \in 1 .. 2 : Clean(rt.Args[i][k], {";", "="})) =>
                ArgumentsArrive(first)
=============================================================================
