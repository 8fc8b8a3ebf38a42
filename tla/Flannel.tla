------------------------------ MODULE Flannel ------------------------------
(***************************************************************************)
(* The flannel meta plugin.  ADD renders a configuration for another       *)
(* plugin, the delegate, from the network's configuration and the          *)
(* subnet.env file that flanneld writes, saves it in a scratch file named  *)
(* after the container and calls the delegate.  DEL reads the scratch file,*)
(* removes it and calls the delegate with what it has read.                *)
(*                                                                         *)
(* An attachment is a container's interface on one network.  Of the        *)
(* delegate the model has what its configuration decides: it reserves an   *)
(* address under the network's name, creates the attachment's interface,   *)
(* and sets up masquerading, also under the network's name, if ipMasq is   *)
(* set; when it fails it has done, or undone, any part of this.  The       *)
(* runtime runs one command at a time for a container.                     *)
(***************************************************************************)
EXTENDS Naturals

CONSTANTS
    Containers,
    Attachments,
    ContainerOf,   \* the container of an attachment
    NetworkOf,     \* the name of its network
    Delegate,      \* the "delegate" dictionary of its configuration
    Envs,          \* what subnet.env may hold
    NotString,     \* a value in a dictionary that is not a string
    Bad,           \* a value in subnet.env that cannot be parsed
    NoFile,
    Torn,          \* a file that was opened, and not or only partly written
    None,
    MaxFaults,     \* bound on the number of system calls that fail
    MaxCrashes     \* bound on the number of times the plugin is killed

VARIABLES
    env,           \* subnet.env
    scratch,       \* the scratch file of each container
    cmd,           \* the attachment that a container's command is for
    pc,
    conf,          \* the configuration the command has rendered or read
    status,        \* of an attachment, as the runtime sees it
    made,          \* what delegates have made for it and not removed
    given,         \* history: the configuration it was made with
    overwritten,   \* history: another ADD has written to its scratch file
    misused,       \* history: a DEL ran with another's configuration
    consumed,      \* history: a DEL has removed its scratch file
    faults, crashes

history == <<given, overwritten, misused, consumed>>
vars == <<env, scratch, cmd, pc, conf, status, made, history, faults, crashes>>

Fields == {"FLANNEL_NETWORK", "FLANNEL_SUBNET", "FLANNEL_MTU", "FLANNEL_IPMASQ"}

ASSUME FlannelAssumption ==
    /\ ContainerOf \in [Attachments -> Containers]
    /\ DOMAIN NetworkOf = Attachments /\ DOMAIN Delegate = Attachments
    /\ \A a, b \in Attachments :
        ContainerOf[a] = ContainerOf[b] /\ NetworkOf[a] = NetworkOf[b] => a = b
    /\ \A e \in Envs : DOMAIN e \subseteq Fields
    /\ None \notin Attachments
    /\ MaxFaults \in Nat /\ MaxCrashes \in Nat

Init ==
    /\ env = NoFile
    /\ scratch = [c \in Containers |-> NoFile]
    /\ cmd = [c \in Containers |-> None]
    /\ pc = [c \in Containers |-> "idle"]
    /\ conf = [c \in Containers |-> None]
    /\ status = [a \in Attachments |-> "none"]
    /\ made = [a \in Attachments |-> {}]
    /\ given = [a \in Attachments |-> None]
    /\ overwritten = {} /\ misused = {} /\ consumed = {}
    /\ faults = 0 /\ crashes = 0

(* flanneld starts, or gets another lease, and replaces its file.          *)
ChangeEnv ==
    /\ env' \in Envs \ {env}
    /\ UNCHANGED <<scratch, cmd, pc, conf, status, made, history, faults, crashes>>

-----------------------------------------------------------------------------
(* Rendering.                                                              *)

(* loadFlannelSubnetEnv: every field has to be there, and three have to be *)
(* parsed; FLANNEL_IPMASQ is true or anything else.                        *)
Loads(e) ==
    /\ e # NoFile
    /\ DOMAIN e = Fields
    /\ \A f \in Fields \ {"FLANNEL_IPMASQ"} : e[f] # Bad

Accepts(d) ==
    /\ "type" \in DOMAIN d => d["type"] # NotString
    /\ "name" \notin DOMAIN d
    /\ "ipam" \notin DOMAIN d

(* What flannel adds to the dictionary.  Of FLANNEL_SUBNET and             *)
(* FLANNEL_NETWORK, which are an address of a subnet, ParseCIDR has kept   *)
(* the subnet.                                                             *)
Added(a, e) ==
    [name |-> NetworkOf[a],
     type |-> "bridge",
     ipMasq |-> e["FLANNEL_IPMASQ"] # "true",
     mtu |-> e["FLANNEL_MTU"],
     ipam |-> [subnet |-> e["FLANNEL_SUBNET"].net, route |-> e["FLANNEL_NETWORK"].net]]

(* Values of the dictionary are kept.                                      *)
WithDefaults(d, defaults) ==
    [f \in DOMAIN d \cup DOMAIN defaults |-> IF f \in DOMAIN d THEN d[f] ELSE defaults[f]]

(* Mutant: a dictionary that is there gets no defaults.                    *)
RenderNoDefaults(a, e) ==
    WithDefaults(Delegate[a], [name |-> NetworkOf[a], ipam |-> Added(a, e).ipam])

Render(a, e) ==
    LET n == WithDefaults(Delegate[a], Added(a, e))
    IN  IF n["type"] = "bridge" THEN WithDefaults(n, [isGateway |-> TRUE]) ELSE n

(* A configuration is no sentinel of the model.                            *)
ASSUME ConfAssumption ==
    \A a \in Attachments, e \in Envs :
        Loads(e) /\ Accepts(Delegate[a]) => Render(a, e) \notin {NoFile, Torn, None}

-----------------------------------------------------------------------------
(* The delegate.                                                           *)

Makes(n) == {"addr", "link"} \cup (IF n["ipMasq"] THEN {"masq"} ELSE {})

(* What the delegate removes of attachment b's when it is called for a     *)
(* with configuration n: the interface has a name of its own, the rest is  *)
(* found under the network's name.                                         *)
Removes(a, n, b) ==
    (IF b = a THEN {"link"} ELSE {}) \cup
    (IF ContainerOf[b] = ContainerOf[a] /\ NetworkOf[b] = n["name"] THEN Makes(n) \ {"link"} ELSE {})

-----------------------------------------------------------------------------
(* Commands.                                                               *)

Goto(c, from, to) == pc[c] = from /\ pc' = [pc EXCEPT ![c] = to]

(* The command ends.                                                       *)
End(c, s) ==
    /\ pc' = [pc EXCEPT ![c] = "idle"]
    /\ cmd' = [cmd EXCEPT ![c] = None]
    /\ conf' = [conf EXCEPT ![c] = None]
    /\ status' = [status EXCEPT ![cmd[c]] = s]

Fault == faults < MaxFaults /\ faults' = faults + 1

Begin(a, to) ==
    LET c == ContainerOf[a]
    IN  /\ Goto(c, "idle", to)
        /\ cmd' = [cmd EXCEPT ![c] = a]
        /\ UNCHANGED <<env, scratch, conf, status, made, history, faults, crashes>>

BeginAdd(a) == status[a] = "none" /\ Begin(a, "load")

(* The runtime removes an attachment that is, and one whose ADD or whose   *)
(* DEL has failed.                                                         *)
BeginDel(a) == status[a] \in {"attached", "failed"} /\ Begin(a, "read")

Load(c) ==
    LET a == cmd[c]
    IN  /\ Goto(c, "load", "open")
        /\ Loads(env) /\ Accepts(Delegate[a])
        /\ conf' = [conf EXCEPT ![c] = Render(a, env)]
        /\ UNCHANGED <<env, scratch, cmd, status, made, history, faults, crashes>>

LoadFails(c) ==
    /\ pc[c] = "load"
    /\ ~ (Loads(env) /\ Accepts(Delegate[cmd[c]]))
    /\ End(c, "failed")
    /\ UNCHANGED <<env, scratch, made, history, faults, crashes>>

(* saveScratchNetConf: WriteFile creates the file, or empties it.          *)
OpenScratch(c) ==
    LET a == cmd[c]
    IN  /\ Goto(c, "open", "write")
        /\ scratch' = [scratch EXCEPT ![c] = Torn]
        /\ given' = [given EXCEPT ![a] = conf[c]]
        /\ overwritten' = (overwritten \ {a}) \cup
                            {b \in Attachments \ {a} : ContainerOf[b] = c /\ given[b] # None}
        /\ consumed' = consumed \ {a}
        /\ UNCHANGED <<env, cmd, conf, status, made, misused, faults, crashes>>

WriteScratch(c) ==
    /\ Goto(c, "write", "add")
    /\ scratch' = [scratch EXCEPT ![c] = conf[c]]
    /\ UNCHANGED <<env, cmd, conf, status, made, history, faults, crashes>>

(* Mutant: the delegate is called although the file could not be written.  *)
SaveIgnored(c) ==
    /\ Goto(c, "open", "add") \/ Goto(c, "write", "add")
    /\ given' = [given EXCEPT ![cmd[c]] = conf[c]]
    /\ Fault
    /\ UNCHANGED <<env, scratch, cmd, conf, status, made, overwritten, misused, consumed, crashes>>

(* The directory or the file cannot be made, or not be written.            *)
SaveFault(c) ==
    /\ pc[c] \in {"open", "write"}
    /\ End(c, "failed")
    /\ Fault
    /\ UNCHANGED <<env, scratch, made, history, crashes>>

DelegateAdd(c) ==
    /\ Goto(c, "add", "print")
    /\ made' = [made EXCEPT ![cmd[c]] = Makes(conf[c])]
    /\ UNCHANGED <<env, scratch, cmd, conf, status, history, faults, crashes>>

(* Mutant: an error of the delegate is dropped.                            *)
DelegateAddDropped(c) ==
    /\ Goto(c, "add", "print")
    /\ \E s \in SUBSET Makes(conf[c]) : made' = [made EXCEPT ![cmd[c]] = s]
    /\ UNCHANGED <<env, scratch, cmd, conf, status, history, faults, crashes>>

(* The delegate is not found or fails, or its result cannot be printed.    *)
DelegateAddFails(c) ==
    /\ \/ pc[c] = "add" /\ \E s \in SUBSET Makes(conf[c]) : made' = [made EXCEPT ![cmd[c]] = s]
       \/ pc[c] = "print" /\ UNCHANGED made
    /\ End(c, "failed")
    /\ Fault
    /\ UNCHANGED <<env, scratch, history, crashes>>

PrintResult(c) ==
    /\ pc[c] = "print"
    /\ End(c, "attached")
    /\ UNCHANGED <<env, scratch, made, history, faults, crashes>>

-----------------------------------------------------------------------------
(* DEL does not look at the configuration of its network.                  *)

Usable(n) == n \notin {NoFile, Torn}

(* Mutant: the configuration is rendered again.                            *)
ReadRendered(c) ==
    /\ Goto(c, "read", "remove")
    /\ conf' = [conf EXCEPT ![c] = IF Loads(env) THEN Render(cmd[c], env) ELSE scratch[c]]
    /\ UNCHANGED <<env, scratch, cmd, status, made, history, faults, crashes>>

(* consumeScratchNetConf reads the file, if there is one.                  *)
ReadScratch(c) ==
    /\ Goto(c, "read", "remove")
    /\ conf' = [conf EXCEPT ![c] = scratch[c]]
    /\ misused' = IF ~ Usable(scratch[c]) \/ scratch[c]["name"] = NetworkOf[cmd[c]] THEN misused
                  ELSE misused \cup {cmd[c]} \cup
                        {b \in Attachments : ContainerOf[b] = c /\ NetworkOf[b] = scratch[c]["name"]}
    /\ UNCHANGED <<env, scratch, cmd, status, made, given, overwritten, consumed, faults, crashes>>

ReadFault(c) ==
    /\ Goto(c, "read", "remove")
    /\ conf' = [conf EXCEPT ![c] = NoFile]
    /\ Fault
    /\ UNCHANGED <<env, scratch, cmd, status, made, history, crashes>>

(* The deferred Remove, whether or not the file was read; then what was    *)
(* read has to be a configuration.                                         *)
RemoveScratch(c) ==
    /\ pc[c] = "remove"
    /\ \/ Usable(conf[c]) /\ pc' = [pc EXCEPT ![c] = "del"] /\ UNCHANGED <<cmd, conf, status>>
       \/ ~ Usable(conf[c]) /\ End(c, "failed")
    /\ scratch' = [scratch EXCEPT ![c] = NoFile]
    /\ consumed' = consumed \cup {b \in Attachments : ContainerOf[b] = c /\ scratch[c] = given[b]}
    /\ UNCHANGED <<env, made, given, overwritten, misused, faults, crashes>>

(* Its error is ignored.                                                   *)
RemoveFault(c) ==
    /\ pc[c] = "remove"
    /\ \/ Usable(conf[c]) /\ pc' = [pc EXCEPT ![c] = "del"] /\ UNCHANGED <<cmd, conf, status>>
       \/ ~ Usable(conf[c]) /\ End(c, "failed")
    /\ Fault
    /\ UNCHANGED <<env, scratch, made, history, crashes>>

DelegateDel(c) ==
    LET a == cmd[c]
    IN  /\ pc[c] = "del"
        /\ made' = [b \in Attachments |-> made[b] \ Removes(a, conf[c], b)]
        /\ given' = [given EXCEPT ![a] = None]
        /\ End(c, "none")
        /\ UNCHANGED <<env, scratch, overwritten, misused, consumed, faults, crashes>>

(* The delegate has removed a part of it.                                  *)
RemovesSome(c) ==
    \E done \in SUBSET {"addr", "link", "masq"} :
        made' = [b \in Attachments |-> made[b] \ (done \cap Removes(cmd[c], conf[c], b))]

DelegateDelFails(c) ==
    /\ pc[c] = "del"
    /\ RemovesSome(c)
    /\ End(c, "failed")
    /\ Fault
    /\ UNCHANGED <<env, scratch, history, crashes>>

(* The plugin is killed, and its delegate with it.                         *)
Crash(c) ==
    /\ pc[c] # "idle"
    /\ crashes < MaxCrashes /\ crashes' = crashes + 1
    /\ CASE pc[c] = "add" -> \E s \in SUBSET Makes(conf[c]) : made' = [made EXCEPT ![cmd[c]] = s]
         [] pc[c] = "del" -> RemovesSome(c)
         [] OTHER -> UNCHANGED made
    /\ End(c, "failed")
    /\ UNCHANGED <<env, scratch, history, faults>>

-----------------------------------------------------------------------------
Next ==
    \/ ChangeEnv
    \/ \E a \in Attachments : BeginAdd(a) \/ BeginDel(a)
    \/ \E c \in Containers :
        \/ Load(c) \/ LoadFails(c) \/ OpenScratch(c) \/ WriteScratch(c) \/ SaveFault(c)
        \/ DelegateAdd(c) \/ DelegateAddFails(c) \/ PrintResult(c)
        \/ ReadScratch(c) \/ ReadFault(c) \/ RemoveScratch(c) \/ RemoveFault(c)
        \/ DelegateDel(c) \/ DelegateDelFails(c)
        \/ Crash(c)

Spec == Init /\ [][Next]_vars

-----------------------------------------------------------------------------
(* Properties.                                                             *)

PCs == {"idle", "load", "open", "write", "add", "print", "read", "remove", "del"}

(* The types of the variables; a container has a command unless it is      *)
(* idle, and a command that is about to save or to call a delegate has a   *)
(* configuration of this container with all that a delegate needs.         *)
TypeOK ==
    /\ env \in Envs \cup {NoFile}
    /\ pc \in [Containers -> PCs]
    /\ \A c \in Containers :
        /\ (cmd[c] = None) = (pc[c] = "idle")
        /\ cmd[c] # None => ContainerOf[cmd[c]] = c
        /\ pc[c] \in {"open", "write", "add", "print", "del"} =>
            /\ {"name", "type", "ipMasq", "mtu", "ipam"} \subseteq DOMAIN conf[c]
            /\ \E a \in Attachments : ContainerOf[a] = c /\ conf[c]["name"] = NetworkOf[a]
    /\ status \in [Attachments -> {"none", "attached", "failed"}]
    /\ made \in [Attachments -> SUBSET {"addr", "link", "masq"}]
    /\ overwritten \subseteq Attachments /\ misused \subseteq Attachments
    /\ consumed \subseteq Attachments
    /\ faults \in 0 .. MaxFaults /\ crashes \in 0 .. MaxCrashes

(* The container runs no command for this attachment.                      *)
Quiet(a) == cmd[ContainerOf[a]] # a

(* Once DEL has succeeded nothing is left of the attachment: not the       *)
(* address, not the interface, and not the masquerading that flannel has   *)
(* asked for, whatever flanneld has written into subnet.env since then and *)
(* whatever failed before.  The exception is a DEL that has run with the   *)
(* configuration of the container's other network.                         *)
NothingLeft ==
    \A a \in Attachments : status[a] = "none" /\ Quiet(a) /\ a \notin misused => made[a] = {}

(* "Save the rendered netconf for cmdDel": whenever anything is made for   *)
(* an attachment the scratch file holds the very configuration that it was *)
(* made with, even if the plugin was killed at any point; until a DEL has  *)
(* consumed it, or the ADD of another network of the container has         *)
(* overwritten it.                                                         *)
MadeIsRecorded ==
    \A a \in Attachments : made[a] # {} /\ a \notin overwritten \cup misused \cup consumed =>
        scratch[ContainerOf[a]] = given[a]

(* An attachment that the runtime has been told of stays complete, with    *)
(* its address reserved, until its own DEL: no command for another         *)
(* attachment takes anything from it, unless it has got its configuration  *)
(* from the shared scratch file.                                           *)
AttachedIsWhole ==
    \A a \in Attachments : status[a] = "attached" /\ Quiet(a) /\ a \notin misused =>
        made[a] = Makes(given[a])
=============================================================================
