-------------------------- MODULE InterfacePlugin --------------------------
(***************************************************************************)
(* The plugins that give a container an interface: bridge, ptp, macvlan    *)
(* and ipvlan.  An ADD makes the interface in the container's network      *)
(* namespace, asks the IPAM plugin for an address, configures the          *)
(* interface and, for bridge and ptp, sets up masquerading; a DEL undoes   *)
(* this.  Commands for different containers run at the same time, and for  *)
(* the bridge plugin they share the bridge and its address.                *)
(*                                                                         *)
(* A command is the sequence of the steps it has yet to take, each a call  *)
(* that changes the state of the kernel, of the IPAM plugin or of          *)
(* iptables; calls that change nothing the properties speak of (routes,    *)
(* hardware addresses, sysctls, forwarding) are lumped into "settings"     *)
(* steps, which can only fail.  No command undoes what it did before an    *)
(* error, except that macvlan removes a link it cannot rename.             *)
(***************************************************************************)
EXTENDS Naturals, Sequences

CONSTANTS
    Containers,    \* container ids, each with one interface on one network
    ConfOf,        \* the network configuration each is attached with
    Addrs,         \* the addresses that the IPAM plugins hand out
    MaxCrashes,    \* bound on the number of commands that are killed
    MaxFaults,     \* bound on the number of calls that fail
    MayLoseNetns,  \* the containers whose namespace may go before the DEL
    None

VARIABLES
    bridge,    \* the bridge: "missing", "down" or "up"
    brAddrs,   \* the addresses of the bridge
    netns,     \* the container's namespace: its "first", "gone", or a "later" one
    links,     \* the links in it: "if" under its name, "tmp" under a temporary one
    addrs,     \* the addresses of the interface
    joined,    \* the containers whose host veth is a port of the bridge
    held,      \* the addresses that IPAM has reserved for the container
    nat,       \* what iptables has for it: its chain, two rules, the jump to it
    todo,      \* the rest of the running command
    ip,        \* the address in the IPAM plugin's result
    seen,      \* ensureBridgeAddr: the addresses yet to be looked at
    status,    \* what the runtime knows of the attachment
    raced,     \* history: an ADD has left the bridge down, since the address it was
               \* to delete had gone
    crashes, faults

kernel == <<bridge, brAddrs, netns, links, addrs, joined, held, nat>>
vars == <<kernel, todo, ip, seen, status, raced, crashes, faults>>

Plugins == {"bridge", "ptp", "macvlan", "ipvlan"}
Config == [plugin : Plugins, isGW : BOOLEAN, force : BOOLEAN, ipMasq : BOOLEAN,
           gw : Addrs, pool : SUBSET Addrs]

(* The steps of an ADD, to which come the addresses that it deletes from   *)
(* the bridge, and those of a DEL.                                         *)
AddSteps == {"bridge", "bridgeUp", "veth", "join", "tmp", "arp", "rename", "undo", "ipam", "addr",
             "settings", "gwList", "gwScan", "gwUp", "gwAdd", "chain", "accept", "masquerade",
             "jump", "print"}
DelSteps == {"ipamDel", "delLink", "delJump", "clear", "delChain", "end"}

(* isGateway is an option of bridge alone, ipMasq of bridge and ptp.       *)
ASSUME InterfaceAssumption ==
    /\ ConfOf \in [Containers -> Config]
    /\ \A c \in Containers :
        /\ ConfOf[c].isGW => ConfOf[c].plugin = "bridge"
        /\ ConfOf[c].ipMasq => ConfOf[c].plugin \in {"bridge", "ptp"}
    /\ None \notin Addrs /\ Addrs \cap (AddSteps \cup DelSteps) = {}
    /\ MaxCrashes \in Nat /\ MaxFaults \in Nat /\ MayLoseNetns \subseteq Containers

HasNetns(c) == netns[c] # "gone"
HasVeth(c) == ConfOf[c].plugin \in {"bridge", "ptp"}

Init ==
    /\ bridge = "missing" /\ brAddrs = {}
    /\ netns = [c \in Containers |-> "first"]
    /\ links = [c \in Containers |-> {}]
    /\ addrs = [c \in Containers |-> {}]
    /\ joined = {}
    /\ held = [c \in Containers |-> {}]
    /\ nat = [c \in Containers |-> {}]
    /\ todo = [c \in Containers |-> <<>>]
    /\ ip = [c \in Containers |-> None]
    /\ seen = [c \in Containers |-> {}]
    /\ status = [c \in Containers |-> "none"]
    /\ raced = FALSE
    /\ crashes = 0 /\ faults = 0

-----------------------------------------------------------------------------
(* The four cmdAdds and cmdDels, as sequences of steps.                    *)

SetupIPMasq(c) ==
    IF ConfOf[c].ipMasq THEN <<"chain", "accept", "masquerade", "jump">> ELSE <<>>

BridgeGateway(c) == IF ConfOf[c].isGW THEN <<"gwList", "gwScan", "gwAdd", "settings">> ELSE <<>>

BridgeAdd(c) ==
    <<"bridge", "bridgeUp", "veth", "join", "settings", "ipam", "addr", "settings">>
        \o BridgeGateway(c) \o SetupIPMasq(c) \o <<"print">>

PtpAdd(c) == <<"settings", "ipam", "veth", "settings", "addr", "settings">> \o SetupIPMasq(c) \o <<"print">>

MacvlanAdd == <<"settings", "tmp", "arp", "rename", "ipam", "settings", "addr", "settings", "print">>

IpvlanAdd == <<"settings", "tmp", "rename", "ipam", "addr", "settings", "print">>

AddScript(c) ==
    CASE ConfOf[c].plugin = "bridge" -> BridgeAdd(c)
      [] ConfOf[c].plugin = "ptp" -> PtpAdd(c)
      [] ConfOf[c].plugin = "macvlan" -> MacvlanAdd
      [] ConfOf[c].plugin = "ipvlan" -> IpvlanAdd

TeardownIPMasq(c) == IF ConfOf[c].ipMasq THEN <<"delJump", "clear", "delChain">> ELSE <<>>

(* What bridge and ptp, and what macvlan and ipvlan do in the namespace.   *)
VethDel(c) == <<"delLink">> \o TeardownIPMasq(c)
VlanDel == <<"delLink">>

(* Mutant: the jump to the chain is deleted last.                          *)
DelScriptJumpLast(c) ==
    <<"ipamDel", "delLink">> \o (IF ConfOf[c].ipMasq THEN <<"clear", "delChain", "delJump">> ELSE <<>>)
        \o <<"end">>

(* In all four cmdDels the address is given back first, and the rest is    *)
(* left alone if there is no CNI_NETNS, which the runtime gives as long as *)
(* the namespace exists.                                                   *)
DelScript(c) ==
    <<"ipamDel">>
        \o (IF ~ HasNetns(c) THEN <<>> ELSE IF HasVeth(c) THEN VethDel(c) ELSE VlanDel)
        \o <<"end">>

-----------------------------------------------------------------------------
(* Common parts of the actions.                                            *)

Live(c) == todo[c] # <<>>
At(c, step) == Live(c) /\ Head(todo[c]) = step

NoFault == UNCHANGED <<crashes, faults>>
Fault == faults < MaxFaults /\ faults' = faults + 1 /\ UNCHANGED crashes

Continue(c) ==
    /\ todo' = [todo EXCEPT ![c] = Tail(@)]
    /\ UNCHANGED <<status, raced>>

(* The command is over.                                                    *)
End(c, outcome) ==
    /\ todo' = [todo EXCEPT ![c] = <<>>]
    /\ ip' = [ip EXCEPT ![c] = None]
    /\ seen' = [seen EXCEPT ![c] = {}]
    /\ status' = [status EXCEPT ![c] = outcome]

(* It returns an error.  "broken" is an attachment whose DEL has failed.   *)
Fail(c) ==
    /\ End(c, IF status[c] = "detaching" THEN "broken" ELSE "unknown")
    /\ UNCHANGED raced

StepDone(c) == Continue(c) /\ UNCHANGED <<ip, seen>> /\ NoFault

-----------------------------------------------------------------------------
(* The runtime.                                                            *)

BeginAdd(c) ==
    /\ ~ Live(c) /\ HasNetns(c) /\ status[c] \in {"none", "unknown"}
    /\ todo' = [todo EXCEPT ![c] = AddScript(c)]
    /\ status' = [status EXCEPT ![c] = "unknown"]
    /\ UNCHANGED <<kernel, ip, seen, raced>> /\ NoFault

BeginDel(c) ==
    /\ ~ Live(c) /\ status[c] # "none"
    /\ todo' = [todo EXCEPT ![c] = DelScript(c)]
    /\ status' = [status EXCEPT ![c] = IF @ = "attached" THEN "detaching" ELSE "unknown"]
    /\ UNCHANGED <<kernel, ip, seen, raced>> /\ NoFault

(* The namespace goes, with the links in it and their host ends; and a new *)
(* one comes, for a container that starts again.                           *)
LoseNetns(c) ==
    /\ c \in MayLoseNetns /\ ~ Live(c) /\ HasNetns(c) /\ status[c] # "none"
    /\ netns' = [netns EXCEPT ![c] = "gone"]
    /\ links' = [links EXCEPT ![c] = {}]
    /\ addrs' = [addrs EXCEPT ![c] = {}]
    /\ joined' = joined \ {c}
    /\ UNCHANGED <<bridge, brAddrs, held, nat, todo, ip, seen, status, raced>> /\ NoFault

NewNetns(c) ==
    /\ ~ HasNetns(c) /\ ~ Live(c) /\ status[c] = "none"
    /\ netns' = [netns EXCEPT ![c] = "later"]
    /\ UNCHANGED <<bridge, brAddrs, links, addrs, joined, held, nat, todo, ip, seen, status, raced>>
    /\ NoFault

-----------------------------------------------------------------------------
(* Making the interface.                                                   *)

(* ensureBridge: EEXIST is no error, and the bridge is set up in any case. *)
EnsureBridge(c) ==
    /\ At(c, "bridge")
    /\ bridge' = IF bridge = "missing" THEN "down" ELSE bridge
    /\ StepDone(c)
    /\ UNCHANGED <<brAddrs, netns, links, addrs, joined, held, nat>>

BridgeUp(c) ==
    /\ At(c, "bridgeUp") \/ At(c, "gwUp")
    /\ bridge' = "up" /\ raced' = FALSE
    /\ todo' = [todo EXCEPT ![c] = Tail(@)]
    /\ UNCHANGED <<brAddrs, netns, links, addrs, joined, held, nat, ip, seen, status>> /\ NoFault

(* Mutant: an interface of that name is taken for the new one.             *)
MakeVethAnyway(c) ==
    /\ At(c, "veth")
    /\ links' = [links EXCEPT ![c] = @ \cup {"if"}]
    /\ StepDone(c)
    /\ UNCHANGED <<bridge, brAddrs, netns, addrs, joined, held, nat>>

(* makeVeth: a pair of which the container's end has the interface's name. *)
MakeVeth(c) ==
    /\ At(c, "veth")
    /\ "if" \notin links[c]
    /\ links' = [links EXCEPT ![c] = @ \cup {"if"}]
    /\ StepDone(c)
    /\ UNCHANGED <<bridge, brAddrs, netns, addrs, joined, held, nat>>

VethExists(c) ==
    /\ At(c, "veth")
    /\ "if" \in links[c]
    /\ Fail(c)
    /\ UNCHANGED kernel /\ NoFault

(* Mutant: a single port is kept.                                          *)
SetMasterAlone(c) ==
    /\ At(c, "join")
    /\ joined' = {c}
    /\ StepDone(c)
    /\ UNCHANGED <<bridge, brAddrs, netns, links, addrs, held, nat>>

SetMaster(c) ==
    /\ At(c, "join")
    /\ joined' = joined \cup {c}
    /\ StepDone(c)
    /\ UNCHANGED <<bridge, brAddrs, netns, links, addrs, held, nat>>

(* createMacvlan and createIpvlan: a link with a temporary name ...        *)
MakeTmp(c) ==
    /\ At(c, "tmp")
    /\ links' = [links EXCEPT ![c] = @ \cup {"tmp"}]
    /\ StepDone(c)
    /\ UNCHANGED <<bridge, brAddrs, netns, addrs, joined, held, nat>>

(* ... that is renamed ...                                                 *)
Rename(c) ==
    /\ At(c, "rename")
    /\ "if" \notin links[c]
    /\ links' = [links EXCEPT ![c] = {"if"}]
    /\ StepDone(c)
    /\ UNCHANGED <<bridge, brAddrs, netns, addrs, joined, held, nat>>

(* Mutant: the link is left.                                               *)
LeaveTmp(c) == Fail(c)

(* ... or removed by macvlan, and left by ipvlan, if that is not possible. *)
AbandonTmp(c) ==
    \/ /\ ConfOf[c].plugin = "macvlan"
       /\ todo' = [todo EXCEPT ![c] = <<"undo">>]
       /\ UNCHANGED <<ip, seen, status, raced>>
    \/ ConfOf[c].plugin = "ipvlan" /\ Fail(c)

RenameTaken(c) ==
    /\ At(c, "rename")
    /\ "if" \in links[c]
    /\ AbandonTmp(c)
    /\ UNCHANGED kernel /\ NoFault

RenameFault(c) ==
    /\ At(c, "rename") \/ At(c, "arp")
    /\ AbandonTmp(c)
    /\ Fault
    /\ UNCHANGED kernel

Undo(c) ==
    /\ At(c, "undo")
    /\ links' = [links EXCEPT ![c] = @ \ {"tmp"}]
    /\ Fail(c)
    /\ UNCHANGED <<bridge, brAddrs, netns, addrs, joined, held, nat>> /\ NoFault

-----------------------------------------------------------------------------
(* Addresses.                                                              *)

(* Mutant: a result without an address is not noticed.                     *)
ExecAddUnchecked(c) ==
    /\ At(c, "ipam")
    /\ ip' = [ip EXCEPT ![c] = None]
    /\ Continue(c)
    /\ UNCHANGED <<bridge, brAddrs, netns, links, addrs, joined, held, nat, seen>> /\ NoFault

(* The IPAM plugin, an AddressPool that reserves for the container id ...  *)
ExecAdd(c) ==
    /\ At(c, "ipam")
    /\ \E a \in ConfOf[c].pool :
        /\ \A d \in Containers : a \notin held[d]
        /\ held' = [held EXCEPT ![c] = @ \cup {a}]
        /\ ip' = [ip EXCEPT ![c] = a]
    /\ Continue(c)
    /\ UNCHANGED <<bridge, brAddrs, netns, links, addrs, joined, nat, seen>> /\ NoFault

(* ... or finds that there is nothing left ...                             *)
ExecAddExhausted(c) ==
    /\ At(c, "ipam")
    /\ ConfOf[c].pool \subseteq UNION {held[d] : d \in Containers}
    /\ Fail(c)
    /\ UNCHANGED kernel /\ NoFault

(* ... or fails, perhaps with the address reserved all the same.           *)
ExecAddFault(c) ==
    /\ At(c, "ipam")
    /\ \E a \in ConfOf[c].pool :
        /\ \A d \in Containers : a \notin held[d]
        /\ held' = [held EXCEPT ![c] = @ \cup {a}]
    /\ Fail(c)
    /\ Fault
    /\ UNCHANGED <<bridge, brAddrs, netns, links, addrs, joined, nat>>

ConfigureIface(c) ==
    /\ At(c, "addr")
    /\ addrs' = [addrs EXCEPT ![c] = @ \cup {ip[c]}]
    /\ StepDone(c)
    /\ UNCHANGED <<bridge, brAddrs, netns, links, joined, held, nat>>

Settings(c) ==
    /\ At(c, "settings") \/ At(c, "arp")
    /\ StepDone(c)
    /\ UNCHANGED kernel

-----------------------------------------------------------------------------
(* ensureBridgeAddr                                                        *)

ListBridgeAddrs(c) ==
    /\ At(c, "gwList")
    /\ seen' = [seen EXCEPT ![c] = brAddrs]
    /\ Continue(c)
    /\ UNCHANGED <<kernel, ip>> /\ NoFault

(* No other address is in the way, or the address is there already.        *)
BridgeAddrFound(c) ==
    /\ At(c, "gwScan")
    /\ \/ seen[c] = {} /\ todo' = [todo EXCEPT ![c] = Tail(@)]
       \/ ConfOf[c].gw \in seen[c] /\ todo' = [todo EXCEPT ![c] = Tail(Tail(@))]
    /\ UNCHANGED <<kernel, ip, seen, status, raced>> /\ NoFault

(* Another address, in the order in which the kernel lists them, is an     *)
(* error ...                                                               *)
BridgeAddrOther(c) ==
    /\ At(c, "gwScan")
    /\ ~ ConfOf[c].force
    /\ \E a \in seen[c] : a # ConfOf[c].gw
    /\ Fail(c)
    /\ UNCHANGED kernel /\ NoFault

(* Mutant: the bridge is not set up again.                                 *)
ForceDownForGood(c) ==
    /\ At(c, "gwScan")
    /\ ConfOf[c].force
    /\ \E a \in seen[c] \ {ConfOf[c].gw} : todo' = [todo EXCEPT ![c] = <<a>> \o @]
    /\ bridge' = "down"
    /\ UNCHANGED <<brAddrs, netns, links, addrs, joined, held, nat, ip, seen, status, raced>> /\ NoFault

(* ... or, with forceAddress, is deleted: the bridge is set down, ...      *)
ForceDown(c) ==
    /\ At(c, "gwScan")
    /\ ConfOf[c].force
    /\ \E a \in seen[c] \ {ConfOf[c].gw} :
        todo' = [todo EXCEPT ![c] = <<a, "gwUp">> \o @]
    /\ bridge' = "down"
    /\ UNCHANGED <<brAddrs, netns, links, addrs, joined, held, nat, ip, seen, status, raced>> /\ NoFault

(* ... the address deleted, unless it has gone meanwhile, and the bridge   *)
(* set up again (BridgeUp).                                                *)
DeleteBridgeAddr(c) ==
    \E a \in brAddrs :
        /\ At(c, a)
        /\ brAddrs' = brAddrs \ {a}
        /\ seen' = [seen EXCEPT ![c] = @ \ {a}]
        /\ Continue(c)
        /\ UNCHANGED <<bridge, netns, links, addrs, joined, held, nat, ip>> /\ NoFault

BridgeAddrGone(c) ==
    \E a \in Addrs \ brAddrs :
        /\ At(c, a)
        /\ End(c, "unknown") /\ raced' = TRUE
        /\ UNCHANGED kernel /\ NoFault

AddBridgeAddr(c) ==
    /\ At(c, "gwAdd")
    /\ ConfOf[c].gw \notin brAddrs
    /\ brAddrs' = brAddrs \cup {ConfOf[c].gw}
    /\ StepDone(c)
    /\ UNCHANGED <<bridge, netns, links, addrs, joined, held, nat>>

BridgeAddrExists(c) ==
    /\ At(c, "gwAdd")
    /\ ConfOf[c].gw \in brAddrs
    /\ Fail(c)
    /\ UNCHANGED kernel /\ NoFault

-----------------------------------------------------------------------------
(* iptables.  The chain is named after network and container; a chain and  *)
(* rules that exist already are no errors for SetupIPMasq.                 *)
InstallRule(c, rule) ==
    /\ At(c, rule)
    /\ nat' = [nat EXCEPT ![c] = @ \cup {rule}]
    /\ StepDone(c)
    /\ UNCHANGED <<bridge, brAddrs, netns, links, addrs, joined, held>>

DeleteJump(c) ==
    /\ At(c, "delJump")
    /\ "jump" \in nat[c]
    /\ nat' = [nat EXCEPT ![c] = @ \ {"jump"}]
    /\ StepDone(c)
    /\ UNCHANGED <<bridge, brAddrs, netns, links, addrs, joined, held>>

DeleteJumpMissing(c) ==
    /\ At(c, "delJump")
    /\ "jump" \notin nat[c]
    /\ Fail(c)
    /\ UNCHANGED kernel /\ NoFault

(* ClearChain makes the chain if it is not there.                          *)
ClearChain(c) ==
    /\ At(c, "clear")
    /\ nat' = [nat EXCEPT ![c] = (@ \ {"accept", "masquerade"}) \cup {"chain"}]
    /\ StepDone(c)
    /\ UNCHANGED <<bridge, brAddrs, netns, links, addrs, joined, held>>

(* A chain that is empty and not referred to can be deleted.               *)
DeleteChain(c) ==
    /\ At(c, "delChain")
    /\ \/ nat[c] = {"chain"} /\ nat' = [nat EXCEPT ![c] = {}] /\ StepDone(c)
       \/ nat[c] # {"chain"} /\ Fail(c) /\ UNCHANGED nat /\ NoFault
    /\ UNCHANGED <<bridge, brAddrs, netns, links, addrs, joined, held>>

-----------------------------------------------------------------------------
(* cmdDel                                                                  *)

ExecDel(c) ==
    /\ At(c, "ipamDel")
    /\ held' = [held EXCEPT ![c] = {}]
    /\ StepDone(c)
    /\ UNCHANGED <<bridge, brAddrs, netns, links, addrs, joined, nat>>

(* Can DelLinkByName, or DelLinkByNameAddr for a veth, remove the link?    *)
Removable(c) == "if" \in links[c] /\ (HasVeth(c) => addrs[c] # {})

DelLink(c) ==
    /\ At(c, "delLink")
    /\ Removable(c)
    /\ links' = [links EXCEPT ![c] = @ \ {"if"}]
    /\ addrs' = [addrs EXCEPT ![c] = {}]
    /\ joined' = joined \ {c}
    /\ StepDone(c)
    /\ UNCHANGED <<bridge, brAddrs, netns, held, nat>>

(* Mutant: the error is ignored, and the command goes on.                  *)
DelLinkIgnored(c) ==
    /\ At(c, "delLink")
    /\ ~ Removable(c)
    /\ StepDone(c)
    /\ UNCHANGED kernel

DelLinkFails(c) ==
    /\ At(c, "delLink")
    /\ ~ Removable(c)
    /\ Fail(c)
    /\ UNCHANGED kernel /\ NoFault

-----------------------------------------------------------------------------
Return(c) ==
    /\ \/ At(c, "print") /\ End(c, "attached")
       \/ At(c, "end") /\ End(c, "none")
    /\ UNCHANGED <<kernel, raced>> /\ NoFault

(* A call fails that has no special treatment.                             *)
CallFault(c) ==
    /\ Live(c) /\ ~ At(c, "rename") /\ ~ At(c, "arp") /\ ~ At(c, "end")
    /\ Fail(c)
    /\ Fault
    /\ UNCHANGED kernel

Crash(c) ==
    /\ Live(c) /\ crashes < MaxCrashes /\ crashes' = crashes + 1
    /\ End(c, "unknown")
    /\ UNCHANGED <<kernel, raced, faults>>

Step(c) ==
    \/ EnsureBridge(c) \/ BridgeUp(c) \/ MakeVeth(c) \/ VethExists(c) \/ SetMaster(c)
    \/ MakeTmp(c) \/ Rename(c) \/ RenameTaken(c) \/ RenameFault(c) \/ Undo(c)
    \/ ExecAdd(c) \/ ExecAddExhausted(c) \/ ExecAddFault(c) \/ ConfigureIface(c) \/ Settings(c)
    \/ ListBridgeAddrs(c) \/ BridgeAddrFound(c) \/ BridgeAddrOther(c)
    \/ ForceDown(c) \/ DeleteBridgeAddr(c) \/ BridgeAddrGone(c)
    \/ AddBridgeAddr(c) \/ BridgeAddrExists(c)
    \/ \E rule \in {"chain", "accept", "masquerade", "jump"} : InstallRule(c, rule)
    \/ DeleteJump(c) \/ DeleteJumpMissing(c) \/ ClearChain(c) \/ DeleteChain(c)
    \/ ExecDel(c) \/ DelLink(c) \/ DelLinkFails(c) \/ Return(c) \/ CallFault(c)

Next ==
    \E c \in Containers :
        BeginAdd(c) \/ BeginDel(c) \/ Step(c) \/ LoseNetns(c) \/ NewNetns(c) \/ Crash(c)

Spec == Init /\ [][Next]_vars

-----------------------------------------------------------------------------
(* Properties.                                                             *)

NatRules == {"chain", "accept", "masquerade", "jump"}

(* The types of the variables; an idle container has no command's locals.  *)
TypeOK ==
    /\ bridge \in {"missing", "down", "up"} /\ brAddrs \subseteq Addrs
    /\ netns \in [Containers -> {"first", "gone", "later"}]
    /\ links \in [Containers -> SUBSET {"if", "tmp"}]
    /\ addrs \in [Containers -> SUBSET Addrs] /\ held \in [Containers -> SUBSET Addrs]
    /\ joined \subseteq Containers
    /\ nat \in [Containers -> SUBSET NatRules]
    /\ todo \in [Containers -> Seq(AddSteps \cup DelSteps \cup Addrs)]
    /\ ip \in [Containers -> Addrs \cup {None}] /\ seen \in [Containers -> SUBSET Addrs]
    /\ status \in [Containers -> {"none", "attached", "detaching", "unknown", "broken"}]
    /\ raced \in BOOLEAN /\ crashes \in 0 .. MaxCrashes /\ faults \in 0 .. MaxFaults
    /\ \A c \in Containers : ~ Live(c) => ip[c] = None /\ seen[c] = {} /\ status[c] # "detaching"

(* Does an ADD for another network take the bridge's address away?         *)
GatewayContested(c) == \E d \in Containers : ConfOf[d].force /\ ConfOf[d].gw # ConfOf[c].gw

(* An attachment that an ADD has reported is complete and stays so until   *)
(* its DEL, whatever the commands of other containers do and wherever they *)
(* fail or are killed: the interface has one address, reserved for this    *)
(* container and on no other attached interface, is a port of the bridge,  *)
(* the bridge has its gateway address, and the rules are in place.         *)
AttachedIsComplete ==
    \A c \in Containers : status[c] = "attached" /\ HasNetns(c) =>
        /\ "if" \in links[c]
        /\ \E a \in held[c] : addrs[c] = {a}
        /\ \A d \in Containers \ {c} : status[d] = "attached" => addrs[c] \cap addrs[d] = {}
        /\ ConfOf[c].plugin = "bridge" => c \in joined
        /\ ConfOf[c].isGW /\ ~ GatewayContested(c) => ConfOf[c].gw \in brAddrs
        /\ ConfOf[c].ipMasq => nat[c] = NatRules

(* "Removing allocated resources when the container is deleted": when a    *)
(* DEL has returned without an error, no link, address, reservation, chain *)
(* or rule of the container is left, whatever ADDs and DELs of it had      *)
(* failed or been killed before; except that the masquerading stays if the *)
(* namespace was gone, since cmdDel then returns before TeardownIPMasq.    *)
(* Nor does any command leave a link with a temporary name, if it was not  *)
(* killed and no call failed; except one of ipvlan, which leaves it        *)
(* whenever the interface's name is taken.                                 *)
ResourcesRemoved ==
    \A c \in Containers :
        /\ status[c] = "none" => "if" \notin links[c] /\ addrs[c] = {} /\ held[c] = {}
        /\ status[c] = "none" /\ netns[c] = "first" => nat[c] = {}
        /\ crashes + faults = 0 /\ ~ Live(c) /\ ConfOf[c].plugin # "ipvlan" => "tmp" \notin links[c]

(* The DEL of a complete attachment does not fail of itself: cmdDel finds  *)
(* everything that cmdAdd has made, and can remove it in its order.        *)
DelSucceeds == faults = 0 => \A c \in Containers : status[c] # "broken"

(* A bridge whose address is forced is not left down once every command    *)
(* has come to its end, however the ADDs that force addresses upon it are  *)
(* interleaved; except by an ADD that finds the address gone that it was   *)
(* about to delete, since deleteBridgeAddr then returns while the bridge   *)
(* is down, and until the next ADD.                                        *)
BridgeStaysUp ==
    crashes + faults = 0 /\ ~ raced /\ (\A c \in Containers : ~ Live(c)) => bridge # "down"
=============================================================================
