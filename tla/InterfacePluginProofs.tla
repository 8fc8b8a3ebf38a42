------------------------ MODULE InterfacePluginProofs ------------------------
(***************************************************************************)
(* That a reported attachment is complete, that a DEL removes what its     *)
(* container had and does not fail of itself, and that the bridge is not   *)
(* left down, for any number of containers, configurations, addresses,     *)
(* failing calls and killed commands.                                      *)
(*                                                                         *)
(* A command is a sequence of steps.  The invariant speaks of the set of   *)
(* steps that are left: what a step does is done once it is not among them *)
(* any more.  Of their order it keeps only the pairs that matter.          *)
(***************************************************************************)
EXTENDS InterfacePlugin, TLAPS

-----------------------------------------------------------------------------
(* The steps of a script                                                   *)

Steps(s) == {s[i] : i \in 1 .. Len(s)}

(* The order of the steps, as far as it matters: what may come after x.    *)
MayFollow(x, y) ==
    /\ x \notin {"print", "end", "undo"} /\ y \notin Addrs \cup {"bridge"}
    /\ x \in DelSteps => y # x
    /\ y = "bridgeUp" => x = "bridge"
    /\ y = "gwUp" => x \in Addrs
    /\ y = "tmp" => x = "settings"
    /\ y = "rename" => x \in {"settings", "tmp", "arp"}
    /\ x = "addr" => y \notin {"veth", "ipam", "addr"}
    /\ x = "clear" => y # "delJump"
    /\ x = "delChain" => y \notin {"clear", "delJump"}

Ordered(s) == \A i, j \in 1 .. Len(s) : i < j => MayFollow(s[i], s[j])

(* ensureBridgeAddr adds the address if the loop has not found it.         *)
ScanThenAdd(s) ==
    \A i \in 1 .. Len(s) : s[i] = "gwScan" => i + 1 \in 1 .. Len(s) /\ s[i + 1] = "gwAdd"

(* What the running command has yet to do, and which command it is.        *)
Rest(c) == Steps(todo[c])
Adding(c) == "print" \in Rest(c)
Deleting(c) == "end" \in Rest(c)
Undoing(c) == "undo" \in Rest(c)

(* The interface is made, under its name.                                  *)
Made(c) == "veth" \notin Rest(c) /\ "rename" \notin Rest(c)

-----------------------------------------------------------------------------
(* The inductive invariant: what holds of a container, ...                 *)

StepNames == AddSteps \cup DelSteps \cup Addrs

Types ==
    /\ bridge \in {"missing", "down", "up"} /\ brAddrs \subseteq Addrs
    /\ netns \in [Containers -> {"first", "gone", "later"}]
    /\ links \in [Containers -> SUBSET {"if", "tmp"}]
    /\ addrs \in [Containers -> SUBSET Addrs] /\ held \in [Containers -> SUBSET Addrs]
    /\ joined \subseteq Containers
    /\ nat \in [Containers -> SUBSET NatRules]
    /\ todo \in [Containers -> Seq(StepNames)]
    /\ ip \in [Containers -> Addrs \cup {None}] /\ seen \in [Containers -> SUBSET Addrs]
    /\ status \in [Containers -> {"none", "attached", "detaching", "unknown", "broken"}]
    /\ raced \in BOOLEAN /\ crashes \in 0 .. MaxCrashes /\ faults \in 0 .. MaxFaults

IdleAt(c) == ~ Live(c) => ip[c] = None /\ seen[c] = {} /\ status[c] # "detaching"

OrderAt(c) == Ordered(todo[c]) /\ ScanThenAdd(todo[c])

(* A command is an ADD or a DEL, and has the steps its configuration asks  *)
(* for; what one of them does is completed by another.                     *)
CommandAt(c) ==
    /\ Live(c) => Adding(c) \/ Deleting(c) \/ Undoing(c)
    /\ Adding(c) => /\ Rest(c) \subseteq (AddSteps \cup Addrs) \ {"undo"}
                    /\ status[c] = "unknown" /\ HasNetns(c)
    /\ Undoing(c) => Rest(c) = {"undo"} /\ status[c] = "unknown"
    /\ Deleting(c) => Rest(c) \subseteq DelSteps /\ status[c] \in {"detaching", "unknown"}
    /\ status[c] = "detaching" => Deleting(c)
    /\ "bridge" \in Rest(c) => "bridgeUp" \in Rest(c)
    /\ "tmp" \in Rest(c) => "rename" \in Rest(c)
    /\ "ipam" \in Rest(c) => "addr" \in Rest(c)
    /\ "delJump" \in Rest(c) => "clear" \in Rest(c)
    /\ "clear" \in Rest(c) => "delChain" \in Rest(c)
    /\ ~ ConfOf[c].ipMasq => Rest(c) \cap (NatRules \cup {"delJump", "clear", "delChain"}) = {}
    /\ \A a \in Addrs : a \in Rest(c) => ConfOf[c].force /\ a # ConfOf[c].gw

(* What holds of a container whatever is done with it.                     *)
ContainerAt(c) ==
    /\ "if" \notin links[c] => addrs[c] = {}
    /\ ~ HasNetns(c) => "if" \notin links[c]
    /\ ~ ConfOf[c].ipMasq => nat[c] = {}

(* What an ADD that has come so far has done.                              *)
AddAt(c) ==
    Adding(c) =>
        /\ Made(c) => "if" \in links[c]
        /\ Made(c) /\ "addr" \in Rest(c) => addrs[c] = {}
        /\ "ipam" \notin Rest(c) => ip[c] \in held[c]
        /\ "addr" \notin Rest(c) => addrs[c] = {ip[c]}
        /\ ConfOf[c].plugin = "bridge" /\ "join" \notin Rest(c) => c \in joined
        /\ ConfOf[c].ipMasq => NatRules \ Rest(c) \subseteq nat[c]

(* The address of the bridge, if no other network takes it away.           *)
GatewayAt(c) ==
    ConfOf[c].isGW /\ ~ GatewayContested(c) =>
        /\ ConfOf[c].gw \in seen[c] => ConfOf[c].gw \in brAddrs
        /\ Adding(c) /\ "gwAdd" \notin Rest(c) => ConfOf[c].gw \in brAddrs
        /\ status[c] = "attached" => ConfOf[c].gw \in brAddrs

(* What a reported attachment has, and keeps.                              *)
AttachedAt(c) ==
    status[c] = "attached" =>
        /\ \E a \in held[c] : addrs[c] \subseteq {a} /\ (HasNetns(c) => addrs[c] = {a})
        /\ HasNetns(c) => "if" \in links[c]
        /\ HasNetns(c) /\ ConfOf[c].plugin = "bridge" => c \in joined
        /\ ConfOf[c].ipMasq => nat[c] = NatRules

(* What a DEL that has come so far has undone.                             *)
DelAt(c) ==
    Deleting(c) =>
        /\ "ipamDel" \notin Rest(c) => held[c] = {}
        /\ "delLink" \notin Rest(c) => "if" \notin links[c]
        /\ "delChain" \notin Rest(c) /\ netns[c] = "first" => nat[c] = {}

(* What the DEL of a reported attachment will find.                        *)
DetachAt(c) ==
    status[c] = "detaching" =>
        /\ "delLink" \in Rest(c) => Removable(c)
        /\ "delJump" \in Rest(c) => "jump" \in nat[c]
        /\ "delJump" \notin Rest(c) /\ "delChain" \in Rest(c) => "jump" \notin nat[c]
        /\ "delJump" \notin Rest(c) /\ "clear" \notin Rest(c) /\ "delChain" \in Rest(c) =>
              nat[c] = {"chain"}

NoneAt(c) ==
    status[c] = "none" =>
        /\ "if" \notin links[c] /\ held[c] = {}
        /\ netns[c] = "first" => nat[c] = {}

(* No call has failed, and no command has been killed.                     *)
NoErrors == crashes = 0 /\ faults = 0

(* A temporary link is about to be renamed or removed.                     *)
TmpAt(c) ==
    NoErrors /\ ConfOf[c].plugin # "ipvlan" /\ "tmp" \in links[c] =>
        "rename" \in Rest(c) \/ Undoing(c)

BrokenAt(c) == faults = 0 => status[c] # "broken"

Local(c) ==
    /\ IdleAt(c) /\ OrderAt(c) /\ CommandAt(c) /\ ContainerAt(c) /\ AddAt(c) /\ GatewayAt(c)
    /\ AttachedAt(c) /\ DelAt(c) /\ DetachAt(c) /\ NoneAt(c) /\ TmpAt(c) /\ BrokenAt(c)

(* ... and of all: no address is reserved twice, and a bridge that is down *)
(* is about to be set up.                                                  *)
HeldOnce == \A c, d \in Containers : held[c] \cap held[d] # {} => c = d

BridgeOK ==
    NoErrors /\ ~ raced /\ bridge = "down" =>
        \E c \in Containers : "bridgeUp" \in Rest(c) \/ "gwUp" \in Rest(c)

PInv == Types /\ (\A c \in Containers : Local(c)) /\ HeldOnce /\ BridgeOK


-----------------------------------------------------------------------------
(* Lemmas about scripts                                                    *)

(* Taking the first step.                                                  *)
LEMMA TakeStep ==
    ASSUME NEW s \in Seq(StepNames), s # <<>>
    PROVE  /\ Head(s) \in StepNames /\ Tail(s) \in Seq(StepNames)
           /\ Steps(s) = {Head(s)} \cup Steps(Tail(s))
           /\ Ordered(s) => /\ Ordered(Tail(s))
                            /\ \A y \in Steps(Tail(s)) : MayFollow(Head(s), y)
           /\ ScanThenAdd(s) => /\ ScanThenAdd(Tail(s))
                                /\ Head(s) = "gwScan" => Tail(s) # <<>> /\ Head(Tail(s)) = "gwAdd"
<1>1. /\ Len(s) \in Nat /\ Len(s) >= 1 /\ Head(s) = s[1] /\ Head(s) \in StepNames
      /\ Tail(s) \in Seq(StepNames) /\ Len(Tail(s)) = Len(s) - 1
  OBVIOUS
<1>2. \A i \in 1 .. Len(Tail(s)) : Tail(s)[i] = s[i + 1] /\ i + 1 \in 1 .. Len(s)
  BY <1>1
<1>3. \A i \in 1 .. Len(s) : i = 1 \/ (i - 1 \in 1 .. Len(Tail(s)) /\ (i - 1) + 1 = i)
  BY <1>1
<1>4. Steps(s) = {Head(s)} \cup Steps(Tail(s))
  <2>1. ASSUME NEW x \in Steps(s) PROVE x \in {Head(s)} \cup Steps(Tail(s))
    <3>1. PICK i \in 1 .. Len(s) : x = s[i]
      BY DEF Steps
    <3>2. CASE i = 1
      BY <1>1, <3>1, <3>2
    <3>3. CASE i # 1
      <4>1. i - 1 \in 1 .. Len(Tail(s)) /\ Tail(s)[i - 1] = s[i]
        BY <1>2, <1>3, <3>3
      <4> QED BY <3>1, <4>1 DEF Steps
    <3> QED BY <3>2, <3>3
  <2>2. Head(s) \in Steps(s)
    <3>1. 1 \in 1 .. Len(s) /\ Head(s) = s[1]
      BY <1>1
    <3> QED BY <3>1 DEF Steps
  <2>3. ASSUME NEW x \in Steps(Tail(s)) PROVE x \in Steps(s)
    BY <1>2 DEF Steps
  <2> QED BY <2>1, <2>2, <2>3
<1>5. ASSUME Ordered(s) PROVE Ordered(Tail(s)) /\ \A y \in Steps(Tail(s)) : MayFollow(Head(s), y)
  <2>1. ASSUME NEW i \in 1 .. Len(Tail(s)), NEW j \in 1 .. Len(Tail(s)), i < j
        PROVE  MayFollow(Tail(s)[i], Tail(s)[j])
    <3>1. i + 1 < j + 1 /\ i + 1 \in 1 .. Len(s) /\ j + 1 \in 1 .. Len(s)
      BY <1>2, <2>1
    <3>2. MayFollow(s[i + 1], s[j + 1])
      BY <1>5, <3>1 DEF Ordered
    <3> QED BY <1>2, <3>2
  <2>2. ASSUME NEW y \in Steps(Tail(s)) PROVE MayFollow(Head(s), y)
    <3>1. PICK i \in 1 .. Len(Tail(s)) : y = Tail(s)[i]
      BY DEF Steps
    <3>2. 1 \in 1 .. Len(s) /\ i + 1 \in 1 .. Len(s) /\ 1 < i + 1 /\ y = s[i + 1]
      BY <1>1, <1>2, <3>1
    <3>3. MayFollow(s[1], s[i + 1])
      BY <1>5, <3>2 DEF Ordered
    <3> QED BY <1>1, <3>2, <3>3
  <2> QED BY <2>1, <2>2 DEF Ordered
<1>6. ASSUME ScanThenAdd(s)
      PROVE  ScanThenAdd(Tail(s)) /\ (Head(s) = "gwScan" => Tail(s) # <<>> /\ Head(Tail(s)) = "gwAdd")
  <2>1. ASSUME NEW i \in 1 .. Len(Tail(s)), Tail(s)[i] = "gwScan"
        PROVE  i + 1 \in 1 .. Len(Tail(s)) /\ Tail(s)[i + 1] = "gwAdd"
    <3>1. (i + 1) + 1 \in 1 .. Len(s) /\ s[(i + 1) + 1] = "gwAdd"
      BY <1>2, <1>6, <2>1 DEF ScanThenAdd
    <3>2. i + 1 \in 1 .. Len(Tail(s))
      BY <1>1, <3>1
    <3> QED BY <1>2, <3>1, <3>2
  <2>2. ASSUME Head(s) = "gwScan" PROVE Tail(s) # <<>> /\ Head(Tail(s)) = "gwAdd"
    <3>1. 1 + 1 \in 1 .. Len(s) /\ s[1 + 1] = "gwAdd"
      BY <1>1, <1>6, <2>2 DEF ScanThenAdd
    <3>2. 1 \in 1 .. Len(Tail(s))
      BY <1>1, <3>1
    <3>3. Tail(s)[1] = s[1 + 1]
      BY <1>2, <3>2
    <3>4. Tail(s) # <<>> /\ Head(Tail(s)) = Tail(s)[1]
      BY <1>1, <3>2
    <3> QED BY <3>1, <3>3, <3>4
  <2> QED BY <2>1, <2>2 DEF ScanThenAdd
<1> QED BY <1>1, <1>4, <1>5, <1>6

(* Nothing is left.                                                        *)
LEMMA NoSteps == Steps(<<>>) = {} /\ Ordered(<<>>) /\ ScanThenAdd(<<>>)
BY DEF Steps, Ordered, ScanThenAdd

(* One script after the other.                                             *)
LEMMA Concatenated ==
    ASSUME NEW s \in Seq(StepNames), NEW t \in Seq(StepNames)
    PROVE  /\ s \o t \in Seq(StepNames) /\ Steps(s \o t) = Steps(s) \cup Steps(t)
           /\ /\ Ordered(s) /\ Ordered(t)
              /\ \A x \in Steps(s), y \in Steps(t) : MayFollow(x, y)
              => Ordered(s \o t)
           /\ ScanThenAdd(s) /\ ScanThenAdd(t) => ScanThenAdd(s \o t)
<1> DEFINE u == s \o t
<1>1. u \in Seq(StepNames) /\ Len(s) \in Nat /\ Len(t) \in Nat /\ Len(u) = Len(s) + Len(t)
  OBVIOUS
<1>2. /\ \A i \in 1 .. Len(s) : i \in 1 .. Len(u) /\ u[i] = s[i]
      /\ \A i \in 1 .. Len(t) : Len(s) + i \in 1 .. Len(u) /\ u[Len(s) + i] = t[i]
  BY <1>1
<1>3. \A i \in 1 .. Len(u) : \/ i \in 1 .. Len(s)
                             \/ i - Len(s) \in 1 .. Len(t) /\ Len(s) + (i - Len(s)) = i
  BY <1>1
<1> HIDE DEF u
<1>4. Steps(u) = Steps(s) \cup Steps(t)
  <2>1. ASSUME NEW x \in Steps(u) PROVE x \in Steps(s) \cup Steps(t)
    <3>1. PICK i \in 1 .. Len(u) : x = u[i]
      BY DEF Steps
    <3>2. CASE i \in 1 .. Len(s)
      BY <1>2, <3>1, <3>2 DEF Steps
    <3>3. CASE i \notin 1 .. Len(s)
      <4>1. i - Len(s) \in 1 .. Len(t) /\ x = t[i - Len(s)]
        BY <1>2, <1>3, <3>1, <3>3
      <4> QED BY <4>1 DEF Steps
    <3> QED BY <3>2, <3>3
  <2>2. ASSUME NEW x \in Steps(s) \cup Steps(t) PROVE x \in Steps(u)
    BY <1>2 DEF Steps
  <2> QED BY <2>1, <2>2
<1>5. ASSUME Ordered(s), Ordered(t), \A x \in Steps(s), y \in Steps(t) : MayFollow(x, y),
             NEW i \in 1 .. Len(u), NEW j \in 1 .. Len(u), i < j
      PROVE  MayFollow(u[i], u[j])
  <2>1. CASE i \in 1 .. Len(s) /\ j \in 1 .. Len(s)
    BY <1>2, <1>5, <2>1 DEF Ordered
  <2>2. CASE i \in 1 .. Len(s) /\ j \notin 1 .. Len(s)
    <3>1. u[i] \in Steps(s) /\ u[j] \in Steps(t)
      BY <1>2, <1>3, <2>2 DEF Steps
    <3> QED BY <1>5, <3>1
  <2>3. CASE i \notin 1 .. Len(s)
    <3>1. /\ i - Len(s) \in 1 .. Len(t) /\ u[i] = t[i - Len(s)]
          /\ j - Len(s) \in 1 .. Len(t) /\ u[j] = t[j - Len(s)]
          /\ i - Len(s) < j - Len(s)
      BY <1>1, <1>2, <1>3, <1>5, <2>3
    <3> QED BY <1>5, <3>1 DEF Ordered
  <2> QED BY <2>1, <2>2, <2>3
<1>6. ASSUME ScanThenAdd(s), ScanThenAdd(t), NEW i \in 1 .. Len(u), u[i] = "gwScan"
      PROVE  i + 1 \in 1 .. Len(u) /\ u[i + 1] = "gwAdd"
  <2>1. CASE i \in 1 .. Len(s)
    BY <1>2, <1>6, <2>1 DEF ScanThenAdd
  <2>2. CASE i \notin 1 .. Len(s)
    <3>1. i - Len(s) \in 1 .. Len(t) /\ t[i - Len(s)] = "gwScan"
      BY <1>2, <1>3, <1>6, <2>2
    <3>2. (i - Len(s)) + 1 \in 1 .. Len(t) /\ t[(i - Len(s)) + 1] = "gwAdd"
      BY <1>6, <3>1 DEF ScanThenAdd
    <3>3. Len(s) + ((i - Len(s)) + 1) = i + 1
      BY <1>1
    <3> QED BY <1>2, <3>2, <3>3
  <2> QED BY <2>1, <2>2
<1> QED BY <1>1, <1>4, <1>5, <1>6 DEF u, Ordered, ScanThenAdd

-----------------------------------------------------------------------------
(* What a step of one container does                                       *)

(* Nothing happens to the others; an address leaves the bridge only for    *)
(* the sake of another one that is forced upon it.                         *)
Frame(c) ==
    /\ \A d \in Containers : d # c =>
        /\ netns'[d] = netns[d] /\ links'[d] = links[d] /\ addrs'[d] = addrs[d]
        /\ held'[d] = held[d] /\ nat'[d] = nat[d] /\ (d \in joined' <=> d \in joined)
        /\ todo'[d] = todo[d] /\ ip'[d] = ip[d] /\ seen'[d] = seen[d] /\ status'[d] = status[d]
    /\ \A a \in brAddrs \ brAddrs' : \E d \in Containers : ConfOf[d].force /\ a # ConfOf[d].gw
    /\ crashes' \in Nat /\ faults' \in Nat /\ crashes' >= crashes /\ faults' >= faults

(* The counters only go up.                                                *)
LEMMA Counters ==
    ASSUME Types, NEW c \in Containers, Frame(c)
    PROVE  (NoErrors' => NoErrors) /\ (faults' = 0 => faults = 0)
<1>1. MaxCrashes \in Nat /\ MaxFaults \in Nat
  BY InterfaceAssumption DEF InterfaceAssumption
<1>2. crashes \in Nat /\ faults \in Nat
  BY <1>1 DEF Types
<1> QED BY <1>2 DEF Frame, NoErrors

(* What holds of the other containers goes on to hold.                     *)
LEMMA OthersKeep ==
    ASSUME Types, NEW c \in Containers, Frame(c), NEW d \in Containers, d # c, Local(d)
    PROVE  Local(d)'
<1>1. /\ netns'[d] = netns[d] /\ links'[d] = links[d] /\ addrs'[d] = addrs[d]
      /\ held'[d] = held[d] /\ nat'[d] = nat[d] /\ (d \in joined' <=> d \in joined)
      /\ todo'[d] = todo[d] /\ ip'[d] = ip[d] /\ seen'[d] = seen[d] /\ status'[d] = status[d]
  BY DEF Frame
<1>2. Rest(d)' = Rest(d) /\ (Live(d)' <=> Live(d)) /\ (HasNetns(d)' <=> HasNetns(d))
  BY <1>1 DEF Rest, Live, HasNetns
<1>3. /\ (Adding(d)' <=> Adding(d)) /\ (Deleting(d)' <=> Deleting(d)) /\ (Undoing(d)' <=> Undoing(d))
      /\ (Made(d)' <=> Made(d))
  BY <1>2 DEF Adding, Deleting, Undoing, Made
<1>4. (Removable(d)' <=> Removable(d)) /\ (GatewayContested(d)' <=> GatewayContested(d))
  BY <1>1 DEF Removable, HasVeth, GatewayContested
<1>5. IdleAt(d)'
  BY <1>1, <1>2 DEF Local, IdleAt
<1>6. OrderAt(d)'
  BY <1>1 DEF Local, OrderAt
<1>7. CommandAt(d)'
  BY <1>1, <1>2, <1>3 DEF Local, CommandAt
<1>8. ContainerAt(d)'
  BY <1>1, <1>2 DEF Local, ContainerAt
<1>9. AddAt(d)'
  BY <1>1, <1>2, <1>3 DEF Local, AddAt
<1>10. GatewayAt(d)'
  <2>1. ASSUME ConfOf[d].gw \in brAddrs, ~ GatewayContested(d) PROVE ConfOf[d].gw \in brAddrs'
    BY <2>1 DEF Frame, GatewayContested
  <2> QED BY <1>1, <1>2, <1>3, <1>4, <2>1 DEF Local, GatewayAt
<1>11. AttachedAt(d)'
  BY <1>1, <1>2 DEF Local, AttachedAt
<1>12. DelAt(d)'
  BY <1>1, <1>2, <1>3 DEF Local, DelAt
<1>13. DetachAt(d)'
  BY <1>1, <1>2, <1>4 DEF Local, DetachAt
<1>14. NoneAt(d)'
  BY <1>1 DEF Local, NoneAt
<1>15. TmpAt(d)' /\ BrokenAt(d)'
  <2>1. (NoErrors' => NoErrors) /\ (faults' = 0 => faults = 0)
    BY Counters
  <2> QED BY <1>1, <1>2, <1>3, <2>1 DEF Local, TmpAt, BrokenAt
<1> QED BY <1>5, <1>6, <1>7, <1>8, <1>9, <1>10, <1>11, <1>12, <1>13, <1>14, <1>15 DEF Local

(* Which command it is that is at a step.                                  *)
LEMMA CommandOf ==
    ASSUME Types, NEW c \in Containers, Local(c), NEW h, At(c, h)
    PROVE  /\ h \in Rest(c) /\ h \in StepNames /\ Live(c)
           /\ status[c] \notin {"attached", "none", "broken"}
           /\ h \in DelSteps => Deleting(c) /\ ~ Adding(c) /\ ~ Undoing(c)
           /\ h \notin DelSteps /\ h # "undo" =>
                Adding(c) /\ ~ Deleting(c) /\ ~ Undoing(c) /\ status[c] = "unknown" /\ HasNetns(c)
           /\ h = "undo" => Undoing(c) /\ ~ Deleting(c) /\ ~ Adding(c) /\ status[c] = "unknown"
<1>1. todo[c] \in Seq(StepNames) /\ todo[c] # <<>> /\ h = Head(todo[c])
  BY DEF Types, At, Live
<1>2. h \in Rest(c) /\ h \in StepNames /\ Live(c)
  BY <1>1, TakeStep DEF Rest, Live
<1>3. CommandAt(c)
  BY DEF Local
<1>4. /\ "end" \notin AddSteps \cup Addrs /\ "print" \notin DelSteps /\ "undo" \notin DelSteps
      /\ "undo" \notin Addrs /\ "print" \notin Addrs
  BY InterfaceAssumption DEF InterfaceAssumption, AddSteps, DelSteps
<1>5. \A x \in DelSteps : x \notin AddSteps \cup Addrs
  BY InterfaceAssumption DEF InterfaceAssumption, AddSteps, DelSteps
<1>6. CASE Adding(c)
  <2>1. Rest(c) \subseteq (AddSteps \cup Addrs) \ {"undo"} /\ status[c] = "unknown" /\ HasNetns(c)
    BY <1>3, <1>6 DEF CommandAt
  <2> QED BY <1>2, <1>4, <1>5, <1>6, <2>1 DEF Adding, Deleting, Undoing
<1>7. CASE Deleting(c)
  <2>1. Rest(c) \subseteq DelSteps /\ status[c] \in {"detaching", "unknown"}
    BY <1>3, <1>7 DEF CommandAt
  <2> QED BY <1>2, <1>4, <1>5, <1>7, <2>1 DEF Adding, Deleting, Undoing
<1>8. CASE Undoing(c)
  <2>1. Rest(c) = {"undo"} /\ status[c] = "unknown"
    BY <1>3, <1>8 DEF CommandAt
  <2> QED BY <1>2, <1>4, <1>5, <1>8, <2>1 DEF Adding, Deleting, Undoing
<1> QED BY <1>2, <1>3, <1>6, <1>7, <1>8 DEF CommandAt

(* The command goes on, after a step h and perhaps with another one that   *)
(* it need not take.                                                       *)
Taken(c, h) ==
    /\ At(c, h) /\ h \notin {"print", "end", "undo"}
    /\ \/ todo'[c] = Tail(todo[c])
       \/ h = "gwScan" /\ todo'[c] = Tail(Tail(todo[c]))
    /\ status'[c] = status[c] /\ netns'[c] = netns[c]

(* What is left is less by what was taken, and the command stays what it is. *)
LEMMA GoesOn ==
    ASSUME Types, NEW c \in Containers, Local(c), NEW h, Taken(c, h)
    PROVE  /\ todo'[c] \in Seq(StepNames) /\ Rest(c)' \subseteq Rest(c)
           /\ Rest(c) \subseteq Rest(c)' \cup {h, "gwAdd"}
           /\ h # "gwScan" => Rest(c) \subseteq Rest(c)' \cup {h}
           /\ \A y \in Rest(c)' : MayFollow(h, y)
           /\ OrderAt(c)' /\ CommandAt(c)' /\ IdleAt(c)' /\ AttachedAt(c)' /\ NoneAt(c)'
           /\ BrokenAt(c)'
           /\ (Adding(c)' <=> Adding(c)) /\ (Deleting(c)' <=> Deleting(c)) /\ ~ Undoing(c)'
<1> DEFINE s == todo[c]
<1> DEFINE t == Tail(s)
<1>1. s \in Seq(StepNames) /\ s # <<>> /\ h = Head(s) /\ At(c, h) /\ Ordered(s) /\ ScanThenAdd(s)
  BY DEF Types, At, Live, Taken, Local, OrderAt
<1>2. /\ t \in Seq(StepNames) /\ Steps(s) = {h} \cup Steps(t) /\ Ordered(t) /\ ScanThenAdd(t)
      /\ (\A y \in Steps(t) : MayFollow(h, y)) /\ (h = "gwScan" => t # <<>> /\ Head(t) = "gwAdd")
  BY <1>1, TakeStep
<1>3. /\ todo'[c] \in Seq(StepNames) /\ Rest(c)' \subseteq Rest(c)
      /\ Rest(c) \subseteq Rest(c)' \cup {h, "gwAdd"}
      /\ h # "gwScan" => Rest(c) \subseteq Rest(c)' \cup {h}
      /\ (\A y \in Rest(c)' : MayFollow(h, y)) /\ OrderAt(c)'
  <2> HIDE DEF s, t
  <2>1. CASE todo'[c] = t
    <3>1. Rest(c)' = Steps(t) /\ Rest(c) = Steps(s)
      BY <2>1 DEF Rest, s
    <3> QED BY <1>2, <2>1, <3>1 DEF OrderAt
  <2>2. CASE h = "gwScan" /\ todo'[c] = Tail(t)
    <3>1. Rest(c)' = Steps(Tail(t)) /\ Rest(c) = Steps(s)
      BY <2>2 DEF Rest, s
    <3>2. /\ Tail(t) \in Seq(StepNames) /\ Steps(t) = {Head(t)} \cup Steps(Tail(t))
          /\ Ordered(Tail(t)) /\ ScanThenAdd(Tail(t))
      BY <1>2, <2>2, TakeStep
    <3> QED BY <1>2, <2>2, <3>1, <3>2 DEF OrderAt
  <2> QED BY <2>1, <2>2 DEF Taken, s, t
<1> HIDE DEF s, t
<1>4. /\ status'[c] = status[c] /\ (HasNetns(c)' <=> HasNetns(c))
      /\ h \notin {"print", "end", "undo"}
      /\ CommandAt(c) /\ status[c] \notin {"attached", "none", "broken"} /\ h \in Rest(c)
      /\ h \in StepNames
      /\ (Adding(c) \/ Deleting(c)) /\ ~ Undoing(c)
  BY <1>1, CommandOf DEF Taken, HasNetns, Local
<1>5. (Adding(c)' <=> Adding(c)) /\ (Deleting(c)' <=> Deleting(c)) /\ ~ Undoing(c)'
  BY <1>3, <1>4 DEF Adding, Deleting, Undoing
<1>6. Live(c)'
  BY <1>4, <1>5, NoSteps DEF Live, Adding, Deleting, Rest
<1>7. CommandAt(c)'
  <2>1. /\ Adding(c)' => /\ Rest(c)' \subseteq (AddSteps \cup Addrs) \ {"undo"}
                         /\ status'[c] = "unknown" /\ HasNetns(c)'
        /\ Deleting(c)' => Rest(c)' \subseteq DelSteps /\ status'[c] \in {"detaching", "unknown"}
        /\ status'[c] = "detaching" => Deleting(c)'
    BY <1>3, <1>4, <1>5 DEF CommandAt
  <2>2. "bridge" \notin Rest(c)' /\ (\A a \in Addrs : a \notin Rest(c)')
    BY <1>3 DEF MayFollow
  <2>3. "tmp" \in Rest(c)' => "rename" \in Rest(c)'
    BY <1>3, <1>4 DEF MayFollow, CommandAt
  <2>4. "ipam" \in Rest(c)' => "addr" \in Rest(c)'
    BY <1>3, <1>4 DEF MayFollow, CommandAt
  <2>5. "delJump" \in Rest(c)' => "clear" \in Rest(c)'
    BY <1>3, <1>4 DEF MayFollow, CommandAt
  <2>6. "clear" \in Rest(c)' => "delChain" \in Rest(c)'
    BY <1>3, <1>4 DEF MayFollow, CommandAt
  <2>7. ~ ConfOf[c].ipMasq => Rest(c)' \cap (NatRules \cup {"delJump", "clear", "delChain"}) = {}
    BY <1>3, <1>4 DEF CommandAt
  <2> QED BY <1>4, <1>5, <2>1, <2>2, <2>3, <2>4, <2>5, <2>6, <2>7 DEF CommandAt
<1>8. IdleAt(c)' /\ AttachedAt(c)' /\ NoneAt(c)' /\ BrokenAt(c)'
  BY <1>4, <1>6 DEF IdleAt, AttachedAt, NoneAt, BrokenAt
<1> QED BY <1>3, <1>5, <1>7, <1>8

(* The command is over.                                                    *)
Over(c) == todo'[c] = <<>> /\ ip'[c] = None /\ seen'[c] = {}

(* What a command that is over does not have to account for.               *)
LEMMA Ends ==
    ASSUME NEW c \in Containers, Over(c)
    PROVE  /\ todo'[c] \in Seq(StepNames) /\ Rest(c)' = {} /\ ~ Live(c)' /\ OrderAt(c)'
           /\ status'[c] # "detaching" => IdleAt(c)' /\ CommandAt(c)' /\ DetachAt(c)'
           /\ AddAt(c)' /\ DelAt(c)'
           /\ status'[c] # "attached" => AttachedAt(c)' /\ GatewayAt(c)'
           /\ status'[c] # "none" => NoneAt(c)'
<1>1. todo'[c] \in Seq(StepNames) /\ Rest(c)' = {} /\ ~ Live(c)' /\ OrderAt(c)'
  <2>1. todo'[c] = <<>>
    BY DEF Over
  <2> QED BY <2>1, NoSteps DEF Rest, Live, OrderAt
<1>2. ~ Adding(c)' /\ ~ Deleting(c)' /\ ~ Undoing(c)'
  BY <1>1 DEF Adding, Deleting, Undoing
<1>3. status'[c] # "detaching" => IdleAt(c)' /\ CommandAt(c)' /\ DetachAt(c)'
  BY <1>1, <1>2 DEF Over, IdleAt, CommandAt, DetachAt
<1>4. AddAt(c)' /\ DelAt(c)'
  BY <1>2 DEF AddAt, DelAt
<1>5. status'[c] # "attached" => AttachedAt(c)' /\ GatewayAt(c)'
  BY <1>2 DEF Over, AttachedAt, GatewayAt
<1>6. status'[c] # "none" => NoneAt(c)'
  BY DEF NoneAt
<1> QED BY <1>1, <1>3, <1>4, <1>5, <1>6

(* All of the invariant, from what has to be shown of the one container.   *)
LEMMA Together ==
    ASSUME PInv, NEW c \in Containers, Frame(c), Types', Local(c)', HeldOnce', BridgeOK'
    PROVE  PInv'
BY OthersKeep DEF PInv

(* Giving addresses back reserves none twice.                              *)
LEMMA StillHeldOnce ==
    ASSUME PInv, NEW c \in Containers, Frame(c), held'[c] \subseteq held[c]
    PROVE  HeldOnce'
<1>1. \A d \in Containers : held'[d] \subseteq held[d]
  BY DEF Frame
<1> QED BY <1>1 DEF PInv, HeldOnce

(* The bridge is as it was, and so is the one that is to set it up.        *)
LEMMA StillUp ==
    ASSUME PInv, NEW c \in Containers, Frame(c), bridge' = bridge, raced' = raced,
           {"bridgeUp", "gwUp"} \cap Rest(c) \subseteq Rest(c)'
    PROVE  BridgeOK'
<1>1. \A d \in Containers : {"bridgeUp", "gwUp"} \cap Rest(d) \subseteq Rest(d)'
  BY DEF Frame, Rest
<1>2. NoErrors' => NoErrors
  BY Counters DEF PInv
<1> QED BY <1>1, <1>2 DEF PInv, BridgeOK

(* An error has consequences for the bridge, or leaves a temporary link,   *)
(* only in a few steps.                                                    *)
BridgeSteps == {"bridge", "bridgeUp", "gwUp"} \cup Addrs
TmpSteps == {"settings", "tmp", "arp", "rename", "undo"}

(* What cannot be left before another step.                                *)
LEMMA NothingPending ==
    ASSUME PInv, NEW c \in Containers, NEW h, At(c, h)
    PROVE  /\ h \notin BridgeSteps => {"bridgeUp", "gwUp"} \cap Rest(c) = {}
           /\ h \notin TmpSteps => {"rename", "undo"} \cap Rest(c) = {}
<1>1. todo[c] \in Seq(StepNames) /\ todo[c] # <<>> /\ Head(todo[c]) = h /\ Ordered(todo[c])
  BY DEF PInv, Types, At, Live, Local, OrderAt
<1>2. Rest(c) = {h} \cup Steps(Tail(todo[c])) /\ \A y \in Steps(Tail(todo[c])) : MayFollow(h, y)
  BY <1>1, TakeStep DEF Rest
<1>3. h # "undo" => ~ Undoing(c)
  BY CommandOf DEF PInv
<1> QED BY <1>2, <1>3 DEF MayFollow, BridgeSteps, TmpSteps, Undoing

(* An error that changes nothing but the command.                          *)
LEMMA FailsQuietly ==
    ASSUME PInv, NEW c \in Containers, NEW h, At(c, h), Frame(c), Types', Over(c),
           UNCHANGED kernel, raced' \in {raced, TRUE},
           status'[c] \in {"unknown", "broken"}, BrokenAt(c)',
           \/ ~ NoErrors'
           \/ /\ raced' \/ h \notin BridgeSteps
              /\ ConfOf[c].plugin = "ipvlan" \/ h \notin TmpSteps
    PROVE  PInv'
<1>1. /\ todo'[c] \in Seq(StepNames) /\ Rest(c)' = {} /\ OrderAt(c)' /\ IdleAt(c)' /\ CommandAt(c)'
      /\ DetachAt(c)' /\ AddAt(c)' /\ DelAt(c)' /\ AttachedAt(c)' /\ GatewayAt(c)' /\ NoneAt(c)'
  <2>1. status'[c] \notin {"detaching", "attached", "none"}
    OBVIOUS
  <2> QED BY <2>1, Ends
<1>2. ContainerAt(c)'
  BY DEF PInv, Local, ContainerAt, HasNetns, kernel
<1>3. NoErrors' => NoErrors
  BY Counters DEF PInv
<1>4. TmpAt(c)'
  <2>1. h \notin TmpSteps => "rename" \notin Rest(c) /\ ~ Undoing(c)
    BY NothingPending DEF Undoing
  <2>2. TmpAt(c) /\ links' = links
    BY DEF PInv, Local, kernel
  <2> QED BY <1>3, <2>1, <2>2 DEF TmpAt
<1>5. Local(c)'
  BY <1>1, <1>2, <1>4 DEF Local
<1>6. HeldOnce'
  BY StillHeldOnce DEF kernel
<1>7. BridgeOK'
  <2>1. CASE ~ NoErrors' \/ raced'
    BY <2>1 DEF BridgeOK
  <2>2. CASE h \notin BridgeSteps /\ ~ raced'
    <3>1. {"bridgeUp", "gwUp"} \cap Rest(c) = {}
      BY <2>2, NothingPending
    <3>2. bridge' = bridge /\ raced' = raced
      BY <2>2 DEF kernel, PInv, Types
    <3> QED BY <3>1, <3>2, StillUp
  <2> QED BY <2>1, <2>2
<1> QED BY <1>5, <1>6, <1>7, Together

-----------------------------------------------------------------------------
(* The commands that fail                                                  *)

Outcomes == {"none", "attached", "unknown", "broken"}

(* What End does to the locals of the commands.                            *)
LEMMA EndTypes ==
    ASSUME Types, NEW c \in Containers, NEW o \in Outcomes, End(c, o)
    PROVE  /\ Over(c) /\ status'[c] = o
           /\ \A d \in Containers : d # c =>
                todo'[d] = todo[d] /\ ip'[d] = ip[d] /\ seen'[d] = seen[d] /\ status'[d] = status[d]
           /\ todo' \in [Containers -> Seq(StepNames)]
           /\ ip' \in [Containers -> Addrs \cup {None}] /\ seen' \in [Containers -> SUBSET Addrs]
           /\ status' \in [Containers -> {"none", "attached", "detaching", "unknown", "broken"}]
<1>1. <<>> \in Seq(StepNames)
  OBVIOUS
<1>2. /\ todo \in [Containers -> Seq(StepNames)] /\ ip \in [Containers -> Addrs \cup {None}]
      /\ seen \in [Containers -> SUBSET Addrs]
      /\ status \in [Containers -> {"none", "attached", "detaching", "unknown", "broken"}]
  BY DEF Types
<1>3. /\ todo' = [todo EXCEPT ![c] = <<>>] /\ ip' = [ip EXCEPT ![c] = None]
      /\ seen' = [seen EXCEPT ![c] = {}] /\ status' = [status EXCEPT ![c] = o]
  BY DEF End
<1>4. /\ todo' \in [Containers -> Seq(StepNames)] /\ todo'[c] = <<>>
      /\ \A d \in Containers : d # c => todo'[d] = todo[d]
  BY <1>1, <1>2, <1>3
<1>5. /\ ip' \in [Containers -> Addrs \cup {None}] /\ ip'[c] = None
      /\ \A d \in Containers : d # c => ip'[d] = ip[d]
  BY <1>2, <1>3
<1>6. /\ seen' \in [Containers -> SUBSET Addrs] /\ seen'[c] = {}
      /\ \A d \in Containers : d # c => seen'[d] = seen[d]
  BY <1>2, <1>3
<1>7. /\ status' \in [Containers -> {"none", "attached", "detaching", "unknown", "broken"}]
      /\ status'[c] = o /\ \A d \in Containers : d # c => status'[d] = status[d]
  BY <1>2, <1>3 DEF Outcomes
<1> QED BY <1>4, <1>5, <1>6, <1>7 DEF Over

(* What may happen to the counters.                                        *)
Counted ==
    /\ crashes' \in 0 .. MaxCrashes /\ faults' \in 0 .. MaxFaults
    /\ crashes' \in Nat /\ faults' \in Nat /\ crashes' >= crashes /\ faults' >= faults

(* The bounds on failing calls and killed commands are kept.               *)
LEMMA CountersKeep ==
    ASSUME Types
    PROVE  /\ NoFault => Counted /\ faults' = faults
           /\ Fault => Counted /\ ~ NoErrors' /\ faults' # 0
           /\ crashes < MaxCrashes /\ crashes' = crashes + 1 /\ faults' = faults => Counted /\ ~ NoErrors'
<1>1. MaxCrashes \in Nat /\ MaxFaults \in Nat
  BY InterfaceAssumption DEF InterfaceAssumption
<1>2. crashes \in 0 .. MaxCrashes /\ faults \in 0 .. MaxFaults
  BY DEF Types
<1>3. NoFault => Counted /\ faults' = faults
  BY <1>1, <1>2 DEF NoFault, Counted
<1>4. Fault => Counted /\ ~ NoErrors' /\ faults' # 0
  BY <1>1, <1>2 DEF Fault, Counted, NoErrors
<1>5. crashes < MaxCrashes /\ crashes' = crashes + 1 /\ faults' = faults => Counted /\ ~ NoErrors'
  BY <1>1, <1>2 DEF Counted, NoErrors
<1> QED BY <1>3, <1>4, <1>5

(* A command that is over has touched nobody else.                         *)
LEMMA EndFrame ==
    ASSUME Types, NEW c \in Containers, NEW o \in Outcomes, End(c, o),
           UNCHANGED kernel, raced' \in BOOLEAN, Counted
    PROVE  Frame(c) /\ Types' /\ Over(c) /\ status'[c] = o
<1>1. /\ Over(c) /\ status'[c] = o
      /\ \A d \in Containers : d # c =>
            todo'[d] = todo[d] /\ ip'[d] = ip[d] /\ seen'[d] = seen[d] /\ status'[d] = status[d]
      /\ todo' \in [Containers -> Seq(StepNames)]
      /\ ip' \in [Containers -> Addrs \cup {None}] /\ seen' \in [Containers -> SUBSET Addrs]
      /\ status' \in [Containers -> {"none", "attached", "detaching", "unknown", "broken"}]
  BY EndTypes
<1>2. /\ bridge' = bridge /\ brAddrs' = brAddrs /\ netns' = netns /\ links' = links
      /\ addrs' = addrs
      /\ joined' = joined /\ held' = held /\ nat' = nat
  BY DEF kernel
<1>3. Frame(c)
  BY <1>1, <1>2 DEF Frame, Counted
<1>4. Types'
  BY <1>1, <1>2 DEF Types, Counted
<1> QED BY <1>1, <1>3, <1>4

(* A command that was not detaching meets an error of its own.             *)
LEMMA ErrorKeeps ==
    ASSUME PInv, NEW c \in Containers, NEW h, At(c, h), status[c] # "detaching",
           Fail(c), UNCHANGED kernel, NoFault,
           h \notin BridgeSteps, ConfOf[c].plugin = "ipvlan" \/ h \notin TmpSteps
    PROVE  PInv'
<1>1. End(c, "unknown") /\ raced' = raced /\ raced' \in BOOLEAN
  BY DEF Fail, PInv, Types
<1>2. Counted /\ Types
  BY CountersKeep DEF PInv
<1>3. Frame(c) /\ Types' /\ Over(c) /\ status'[c] = "unknown"
  BY <1>1, <1>2, EndFrame DEF Outcomes
<1> QED BY <1>1, <1>3, FailsQuietly DEF BrokenAt

(* A call fails.                                                           *)
LEMMA FaultKeeps ==
    ASSUME PInv, NEW c \in Containers, NEW h, At(c, h), Fail(c), UNCHANGED kernel, Fault
    PROVE  PInv'
<1> DEFINE o == IF status[c] = "detaching" THEN "broken" ELSE "unknown"
<1>1. /\ End(c, o) /\ raced' = raced /\ raced' \in BOOLEAN /\ o \in Outcomes
      /\ o \in {"unknown", "broken"}
  BY DEF Fail, PInv, Types, Outcomes
<1> HIDE DEF o
<1>2. Counted /\ ~ NoErrors' /\ faults' # 0 /\ Types
  BY CountersKeep DEF PInv
<1>3. Frame(c) /\ Types' /\ Over(c) /\ status'[c] = o
  BY <1>1, <1>2, EndFrame
<1> QED BY <1>1, <1>2, <1>3, FailsQuietly DEF BrokenAt

(* An ADD fails that is at a step h without consequences.                  *)
LEMMA AddFails ==
    ASSUME PInv, NEW c \in Containers, NEW h \in AddSteps, At(c, h),
           h \notin BridgeSteps, ConfOf[c].plugin = "ipvlan" \/ h \notin TmpSteps,
           Fail(c), UNCHANGED kernel, NoFault
    PROVE  PInv'
<1>1. status[c] = "unknown"
  BY CommandOf DEF PInv, AddSteps, DelSteps
<1> QED BY <1>1, ErrorKeeps

(* The steps in which a command fails of itself are plain ones.            *)
LEMMA PlainSteps ==
    /\ \A h \in {"veth", "ipam", "gwScan", "gwAdd", "print"} :
            h \in AddSteps /\ h \notin BridgeSteps /\ h \notin TmpSteps
    /\ "rename" \in AddSteps /\ "rename" \notin BridgeSteps
    /\ \A h \in DelSteps : h \notin BridgeSteps /\ h \notin TmpSteps
BY InterfaceAssumption DEF InterfaceAssumption, AddSteps, DelSteps, BridgeSteps, TmpSteps

(* The name of the interface is taken.                                     *)
LEMMA VethExistsKeeps ==
    ASSUME PInv, NEW c \in Containers, VethExists(c) PROVE PInv'
BY AddFails, PlainSteps DEF VethExists

(* There is no address left.                                               *)
LEMMA ExecAddExhaustedKeeps ==
    ASSUME PInv, NEW c \in Containers, ExecAddExhausted(c) PROVE PInv'
BY AddFails, PlainSteps DEF ExecAddExhausted

(* The bridge has another address, which is not to be deleted.             *)
LEMMA BridgeAddrOtherKeeps ==
    ASSUME PInv, NEW c \in Containers, BridgeAddrOther(c) PROVE PInv'
BY AddFails, PlainSteps DEF BridgeAddrOther

(* Another ADD has meanwhile given the bridge its address.                 *)
LEMMA BridgeAddrExistsKeeps ==
    ASSUME PInv, NEW c \in Containers, BridgeAddrExists(c) PROVE PInv'
BY AddFails, PlainSteps DEF BridgeAddrExists

(* A DEL fails of itself only if it is not that of a complete attachment.  *)
LEMMA DeleteJumpMissingKeeps ==
    ASSUME PInv, NEW c \in Containers, DeleteJumpMissing(c) PROVE PInv'
<1>1. At(c, "delJump") /\ "jump" \notin nat[c] /\ Fail(c) /\ UNCHANGED kernel /\ NoFault
  BY DEF DeleteJumpMissing
<1>2. "delJump" \in Rest(c)
  BY <1>1, CommandOf DEF PInv
<1>3. status[c] # "detaching"
  BY <1>1, <1>2 DEF PInv, Local, DetachAt
<1> QED BY <1>1, <1>3, ErrorKeeps, PlainSteps DEF DelSteps

(* Neither does it fail to find the interface and its address.             *)
LEMMA DelLinkFailsKeeps ==
    ASSUME PInv, NEW c \in Containers, DelLinkFails(c) PROVE PInv'
<1>1. At(c, "delLink") /\ ~ Removable(c) /\ Fail(c) /\ UNCHANGED kernel /\ NoFault
  BY DEF DelLinkFails
<1>2. "delLink" \in Rest(c)
  BY <1>1, CommandOf DEF PInv
<1>3. status[c] # "detaching"
  BY <1>1, <1>2 DEF PInv, Local, DetachAt
<1> QED BY <1>1, <1>3, ErrorKeeps, PlainSteps DEF DelSteps

(* A call fails in whatever step the command is.                           *)
LEMMA CallFaultKeeps ==
    ASSUME PInv, NEW c \in Containers, CallFault(c) PROVE PInv'
<1>1. At(c, Head(todo[c])) /\ Fail(c) /\ UNCHANGED kernel /\ Fault
  BY DEF CallFault, At
<1> QED BY <1>1, FaultKeeps

(* A command is killed in whatever step it is.                             *)
LEMMA CrashKeeps ==
    ASSUME PInv, NEW c \in Containers, Crash(c) PROVE PInv'
<1>1. /\ At(c, Head(todo[c])) /\ End(c, "unknown") /\ UNCHANGED kernel /\ raced' = raced
      /\ crashes < MaxCrashes /\ crashes' = crashes + 1 /\ faults' = faults
  BY DEF Crash, At
<1>2. Counted /\ ~ NoErrors' /\ Types /\ raced' \in BOOLEAN
  BY <1>1, CountersKeep DEF PInv, Types
<1>3. Frame(c) /\ Types' /\ Over(c) /\ status'[c] = "unknown"
  BY <1>1, <1>2, EndFrame DEF Outcomes
<1> QED BY <1>1, <1>2, <1>3, FailsQuietly DEF BrokenAt

(* An ADD that leaves the bridge down is recorded.                         *)
LEMMA BridgeAddrGoneKeeps ==
    ASSUME PInv, NEW c \in Containers, BridgeAddrGone(c) PROVE PInv'
<1>1. PICK a \in Addrs : At(c, a) /\ End(c, "unknown") /\ raced' = TRUE /\ UNCHANGED kernel /\ NoFault
  BY DEF BridgeAddrGone
<1>2. Counted /\ Types /\ a \notin TmpSteps
  BY <1>1, CountersKeep, InterfaceAssumption DEF PInv, InterfaceAssumption, TmpSteps, AddSteps
<1>3. Frame(c) /\ Types' /\ Over(c) /\ status'[c] = "unknown"
  BY <1>1, <1>2, EndFrame DEF Outcomes
<1> QED BY <1>1, <1>2, <1>3, FailsQuietly DEF BrokenAt

(* An IPAM plugin that fails may have reserved an address.                 *)
LEMMA ExecAddFaultKeeps ==
    ASSUME PInv, NEW c \in Containers, ExecAddFault(c) PROVE PInv'
<1>1. PICK a \in ConfOf[c].pool :
        (\A d \in Containers : a \notin held[d]) /\ held' = [held EXCEPT ![c] = @ \cup {a}]
  BY DEF ExecAddFault
<1>2. /\ At(c, "ipam") /\ Fail(c) /\ Fault
      /\ bridge' = bridge /\ brAddrs' = brAddrs /\ netns' = netns /\ links' = links
      /\ addrs' = addrs
      /\ joined' = joined /\ nat' = nat
  BY DEF ExecAddFault
<1>3. status[c] = "unknown"
  BY <1>2, CommandOf DEF PInv, DelSteps
<1>4. End(c, "unknown") /\ raced' = raced
  BY <1>2, <1>3 DEF Fail
<1>5. Counted /\ ~ NoErrors' /\ faults' # 0 /\ Types
  BY <1>2, CountersKeep DEF PInv
<1>6. /\ Over(c) /\ status'[c] = "unknown"
      /\ \A d \in Containers : d # c =>
            todo'[d] = todo[d] /\ ip'[d] = ip[d] /\ seen'[d] = seen[d] /\ status'[d] = status[d]
      /\ todo' \in [Containers -> Seq(StepNames)]
      /\ ip' \in [Containers -> Addrs \cup {None}] /\ seen' \in [Containers -> SUBSET Addrs]
      /\ status' \in [Containers -> {"none", "attached", "detaching", "unknown", "broken"}]
  BY <1>4, <1>5, EndTypes DEF Outcomes
<1>7. a \in Addrs
  BY InterfaceAssumption DEF InterfaceAssumption, Config
<1>8. /\ held' \in [Containers -> SUBSET Addrs] /\ held'[c] = held[c] \cup {a}
      /\ \A d \in Containers : d # c => held'[d] = held[d]
  BY <1>1, <1>5, <1>7 DEF Types
<1>9. Frame(c)
  BY <1>2, <1>5, <1>6, <1>8 DEF Frame, Counted
<1>10. Types'
  BY <1>2, <1>4, <1>5, <1>6, <1>8 DEF Types, Counted
<1>11. HeldOnce'
  BY <1>1, <1>8 DEF PInv, HeldOnce
<1>12. Local(c)'
  <2>1. /\ OrderAt(c)' /\ IdleAt(c)' /\ CommandAt(c)' /\ DetachAt(c)' /\ AddAt(c)' /\ DelAt(c)'
        /\ AttachedAt(c)' /\ GatewayAt(c)' /\ NoneAt(c)'
    BY <1>6, Ends
  <2>2. ContainerAt(c)'
    BY <1>2 DEF PInv, Local, ContainerAt, HasNetns
  <2>3. TmpAt(c)' /\ BrokenAt(c)'
    BY <1>5, <1>6 DEF TmpAt, BrokenAt
  <2> QED BY <2>1, <2>2, <2>3 DEF Local
<1>13. BridgeOK'
  BY <1>5 DEF BridgeOK
<1> QED BY <1>9, <1>10, <1>11, <1>12, <1>13, Together

-----------------------------------------------------------------------------
(* The steps of an ADD                                                     *)

(* What taking a step does to the commands.                                *)
LEMMA TailTypes ==
    ASSUME Types, NEW c \in Containers, NEW h, At(c, h), todo' = [todo EXCEPT ![c] = Tail(@)]
    PROVE  /\ todo' \in [Containers -> Seq(StepNames)] /\ todo'[c] = Tail(todo[c])
           /\ \A d \in Containers : d # c => todo'[d] = todo[d]
<1>1. todo \in [Containers -> Seq(StepNames)] /\ todo[c] \in Seq(StepNames) /\ todo[c] # <<>>
  BY DEF Types, At, Live
<1>2. Tail(todo[c]) \in Seq(StepNames)
  BY <1>1, TakeStep
<1> QED BY <1>1, <1>2

(* What a step of an ADD leaves to be shown.                               *)
LEMMA AddStep ==
    ASSUME PInv, NEW c \in Containers, NEW h, Taken(c, h), h \notin DelSteps, Frame(c)
    PROVE  /\ Rest(c)' \subseteq Rest(c) /\ Rest(c) \subseteq Rest(c)' \cup {h, "gwAdd"}
           /\ h # "gwScan" => Rest(c) \subseteq Rest(c)' \cup {h}
           /\ \A y \in Rest(c)' : MayFollow(h, y)
           /\ h \in Rest(c) /\ Adding(c) /\ Adding(c)' /\ ~ Undoing(c) /\ HasNetns(c)
           /\ HasNetns(c)'
           /\ OrderAt(c)' /\ CommandAt(c)' /\ IdleAt(c)' /\ AttachedAt(c)' /\ NoneAt(c)'
           /\ BrokenAt(c)'
           /\ DelAt(c)' /\ DetachAt(c)' /\ status'[c] = "unknown"
           /\ links'[c] = links[c] /\ addrs'[c] = addrs[c] /\ nat'[c] = nat[c] => ContainerAt(c)'
           /\ links'[c] = links[c] /\ h # "rename" => TmpAt(c)'
           /\ seen'[c] = seen[c] /\ brAddrs \subseteq brAddrs' /\ h \notin {"gwAdd", "gwScan"} => GatewayAt(c)'
           /\ /\ links'[c] = links[c] /\ addrs'[c] = addrs[c] /\ nat'[c] = nat[c]
              /\ ip'[c] = ip[c] /\ held'[c] = held[c] /\ (c \in joined' <=> c \in joined)
              /\ h \notin {"veth", "rename", "ipam", "addr", "join"} \cup NatRules
              => AddAt(c)'
           /\ held'[c] \subseteq held[c] => HeldOnce'
           /\ bridge' = bridge /\ raced' = raced /\ h \notin {"bridgeUp", "gwUp"} => BridgeOK'
<1>1. Types /\ Local(c) /\ At(c, h) /\ h # "undo"
  BY DEF PInv, Taken
<1>2. /\ h \in Rest(c) /\ Adding(c) /\ ~ Deleting(c) /\ ~ Undoing(c) /\ status[c] = "unknown"
      /\ HasNetns(c)
  BY <1>1, CommandOf
<1>3. /\ Rest(c)' \subseteq Rest(c) /\ Rest(c) \subseteq Rest(c)' \cup {h, "gwAdd"}
      /\ h # "gwScan" => Rest(c) \subseteq Rest(c)' \cup {h}
      /\ \A y \in Rest(c)' : MayFollow(h, y)
      /\ OrderAt(c)' /\ CommandAt(c)' /\ IdleAt(c)' /\ AttachedAt(c)' /\ NoneAt(c)' /\ BrokenAt(c)'
      /\ (Adding(c)' <=> Adding(c)) /\ (Deleting(c)' <=> Deleting(c)) /\ ~ Undoing(c)'
  BY <1>1, GoesOn
<1>4. status'[c] = "unknown" /\ HasNetns(c)' /\ netns'[c] = netns[c]
  BY <1>2 DEF Taken, HasNetns
<1>5. DelAt(c)' /\ DetachAt(c)'
  BY <1>2, <1>3, <1>4 DEF DelAt, DetachAt
<1>6. ASSUME links'[c] = links[c], addrs'[c] = addrs[c], nat'[c] = nat[c] PROVE ContainerAt(c)'
  BY <1>1, <1>4, <1>6 DEF Local, ContainerAt
<1>7. ASSUME links'[c] = links[c], h # "rename" PROVE TmpAt(c)'
  BY <1>1, <1>2, <1>3, <1>7, Counters DEF Local, TmpAt
<1>8. ASSUME seen'[c] = seen[c], brAddrs \subseteq brAddrs', h \notin {"gwAdd", "gwScan"} PROVE GatewayAt(c)'
  <2>1. GatewayContested(c)' <=> GatewayContested(c)
    BY DEF GatewayContested
  <2> QED BY <1>1, <1>2, <1>3, <1>4, <1>8, <2>1 DEF Local, GatewayAt
<1>9. ASSUME links'[c] = links[c], addrs'[c] = addrs[c], nat'[c] = nat[c],
             ip'[c] = ip[c], held'[c] = held[c], c \in joined' <=> c \in joined,
             h \notin {"veth", "rename", "ipam", "addr", "join"} \cup NatRules
      PROVE  AddAt(c)'
  <2>1. Made(c)' => Made(c)
    BY <1>3, <1>9 DEF Made
  <2>2. \A x \in {"ipam", "addr", "join"} \cup NatRules : x \in Rest(c) <=> x \in Rest(c)'
    BY <1>3, <1>9 DEF NatRules
  <2> QED BY <1>1, <1>2, <1>9, <2>1, <2>2 DEF Local, AddAt
<1>10. held'[c] \subseteq held[c] => HeldOnce'
  BY StillHeldOnce
<1>11. ASSUME bridge' = bridge, raced' = raced, h \notin {"bridgeUp", "gwUp"} PROVE BridgeOK'
  <2>1. {"bridgeUp", "gwUp"} \cap Rest(c) \subseteq Rest(c)'
    BY <1>3, <1>11
  <2> QED BY <1>11, <2>1, StillUp
<1> QED BY <1>2, <1>3, <1>4, <1>5, <1>6, <1>7, <1>8, <1>9, <1>10, <1>11

(* ensureBridge: a bridge that is made is about to be set up.              *)
LEMMA EnsureBridgeKeeps ==
    ASSUME PInv, NEW c \in Containers, EnsureBridge(c) PROVE PInv'
<1>1. /\ At(c, "bridge") /\ todo' = [todo EXCEPT ![c] = Tail(@)] /\ NoFault
      /\ bridge' = (IF bridge = "missing" THEN "down" ELSE bridge) /\ brAddrs' = brAddrs
      /\ netns' = netns /\ links' = links /\ addrs' = addrs /\ joined' = joined /\ held' = held
      /\ nat' = nat /\ ip' = ip /\ seen' = seen /\ status' = status /\ raced' = raced
  BY DEF EnsureBridge, StepDone, Continue
<1>2. Types /\ Local(c) /\ Counted /\ "bridge" \notin DelSteps
  BY <1>1, CountersKeep DEF PInv, DelSteps
<1>3. /\ todo' \in [Containers -> Seq(StepNames)] /\ todo'[c] = Tail(todo[c])
      /\ \A d \in Containers : d # c => todo'[d] = todo[d]
  BY <1>1, <1>2, TailTypes
<1>5. Frame(c)
  BY <1>1, <1>2, <1>3 DEF Frame, Counted
<1>6. Types'
  BY <1>1, <1>2, <1>3 DEF Types, Counted
<1>7. Taken(c, "bridge")
  BY <1>1, <1>3 DEF Taken
<1>8. /\ Rest(c)' \subseteq Rest(c) /\ Rest(c) \subseteq Rest(c)' \cup {"bridge"}
      /\ (\A y \in Rest(c)' : MayFollow("bridge", y)) /\ "bridge" \in Rest(c) /\ Adding(c)
      /\ Adding(c)' /\ ~ Undoing(c) /\ HasNetns(c) /\ HasNetns(c)' /\ OrderAt(c)'
      /\ CommandAt(c)' /\ IdleAt(c)' /\ AttachedAt(c)' /\ NoneAt(c)' /\ BrokenAt(c)'
      /\ DelAt(c)' /\ DetachAt(c)' /\ status'[c] = "unknown" /\ ContainerAt(c)' /\ TmpAt(c)'
      /\ GatewayAt(c)' /\ AddAt(c)' /\ HeldOnce'
  BY <1>1, <1>2, <1>5, <1>7, AddStep DEF NatRules
<1>9. BridgeOK'
  <2>1. "bridgeUp" \in Rest(c)'
    BY <1>2, <1>8 DEF Local, CommandAt
  <2> QED BY <2>1 DEF BridgeOK
<1>10. Local(c)'
  BY <1>8, <1>9 DEF Local
<1> QED BY <1>5, <1>6, <1>8, <1>10, <1>9, Together

(* The interface is a port of the bridge.                                  *)
LEMMA SetMasterKeeps ==
    ASSUME PInv, NEW c \in Containers, SetMaster(c) PROVE PInv'
<1>1. /\ At(c, "join") /\ todo' = [todo EXCEPT ![c] = Tail(@)] /\ NoFault
      /\ joined' = joined \cup {c} /\ bridge' = bridge /\ brAddrs' = brAddrs /\ netns' = netns
      /\ links' = links /\ addrs' = addrs /\ held' = held /\ nat' = nat /\ ip' = ip
      /\ seen' = seen /\ status' = status /\ raced' = raced
  BY DEF SetMaster, StepDone, Continue
<1>2. Types /\ Local(c) /\ Counted /\ "join" \notin DelSteps
  BY <1>1, CountersKeep DEF PInv, DelSteps
<1>3. /\ todo' \in [Containers -> Seq(StepNames)] /\ todo'[c] = Tail(todo[c])
      /\ \A d \in Containers : d # c => todo'[d] = todo[d]
  BY <1>1, <1>2, TailTypes
<1>5. Frame(c)
  BY <1>1, <1>2, <1>3 DEF Frame, Counted
<1>6. Types'
  BY <1>1, <1>2, <1>3 DEF Types, Counted
<1>7. Taken(c, "join")
  BY <1>1, <1>3 DEF Taken
<1>8. /\ Rest(c)' \subseteq Rest(c) /\ Rest(c) \subseteq Rest(c)' \cup {"join"}
      /\ (\A y \in Rest(c)' : MayFollow("join", y)) /\ "join" \in Rest(c) /\ Adding(c)
      /\ Adding(c)' /\ ~ Undoing(c) /\ HasNetns(c) /\ HasNetns(c)' /\ OrderAt(c)'
      /\ CommandAt(c)' /\ IdleAt(c)' /\ AttachedAt(c)' /\ NoneAt(c)' /\ BrokenAt(c)'
      /\ DelAt(c)' /\ DetachAt(c)' /\ status'[c] = "unknown" /\ ContainerAt(c)' /\ TmpAt(c)'
      /\ GatewayAt(c)' /\ HeldOnce' /\ BridgeOK'
  BY <1>1, <1>2, <1>5, <1>7, AddStep
<1>9. AddAt(c)'
  <2>1. \A x \in {"veth", "rename", "ipam", "addr"} \cup NatRules : x \in Rest(c) <=> x \in Rest(c)'
    BY <1>8 DEF NatRules
  <2> QED BY <1>1, <1>2, <1>8, <2>1 DEF Local, AddAt, Made
<1>10. Local(c)'
  BY <1>8, <1>9 DEF Local
<1> QED BY <1>5, <1>6, <1>8, <1>10, <1>9, Together

(* The new interface has no address.                                       *)
LEMMA MakeVethKeeps ==
    ASSUME PInv, NEW c \in Containers, MakeVeth(c) PROVE PInv'
<1>1. /\ At(c, "veth") /\ todo' = [todo EXCEPT ![c] = Tail(@)] /\ NoFault
      /\ links' = [links EXCEPT ![c] = @ \cup {"if"}] /\ bridge' = bridge /\ brAddrs' = brAddrs
      /\ netns' = netns /\ addrs' = addrs /\ joined' = joined /\ held' = held /\ nat' = nat
      /\ ip' = ip /\ seen' = seen /\ status' = status /\ raced' = raced
  BY DEF MakeVeth, StepDone, Continue
<1>2. Types /\ Local(c) /\ Counted /\ "veth" \notin DelSteps
  BY <1>1, CountersKeep DEF PInv, DelSteps
<1>3. /\ todo' \in [Containers -> Seq(StepNames)] /\ todo'[c] = Tail(todo[c])
      /\ \A d \in Containers : d # c => todo'[d] = todo[d]
  BY <1>1, <1>2, TailTypes
<1>4. /\ links'[c] = links[c] \cup {"if"}
      /\ (\A d \in Containers : d # c => links'[d] = links[d])
  BY <1>1, <1>2 DEF Types
<1>5. Frame(c)
  BY <1>1, <1>2, <1>3, <1>4 DEF Frame, Counted
<1>6. Types'
  BY <1>1, <1>2, <1>3 DEF Types, Counted
<1>7. Taken(c, "veth")
  BY <1>1, <1>3 DEF Taken
<1>8. /\ Rest(c)' \subseteq Rest(c) /\ Rest(c) \subseteq Rest(c)' \cup {"veth"}
      /\ (\A y \in Rest(c)' : MayFollow("veth", y)) /\ "veth" \in Rest(c) /\ Adding(c)
      /\ Adding(c)' /\ ~ Undoing(c) /\ HasNetns(c) /\ HasNetns(c)' /\ OrderAt(c)'
      /\ CommandAt(c)' /\ IdleAt(c)' /\ AttachedAt(c)' /\ NoneAt(c)' /\ BrokenAt(c)'
      /\ DelAt(c)' /\ DetachAt(c)' /\ status'[c] = "unknown" /\ GatewayAt(c)' /\ HeldOnce'
      /\ BridgeOK'
  BY <1>1, <1>2, <1>5, <1>7, <1>4, AddStep
<1>9. ContainerAt(c)'
  BY <1>1, <1>2, <1>4, <1>8 DEF Local, ContainerAt
<1>10. AddAt(c)'
  <2>1. "if" \notin links[c] /\ addrs'[c] = {} /\ "if" \in links'[c]
    BY <1>1, <1>2, <1>4 DEF MakeVeth, Local, ContainerAt
  <2>2. \A x \in {"rename", "ipam", "addr", "join"} \cup NatRules : x \in Rest(c) <=> x \in Rest(c)'
    BY <1>8 DEF NatRules
  <2> QED BY <1>1, <1>2, <1>8, <2>1, <2>2 DEF Local, AddAt, Made
<1>11. TmpAt(c)'
  <2>1. "tmp" \in links'[c] <=> "tmp" \in links[c]
    BY <1>4
  <2> QED BY <1>2, <1>5, <1>8, <2>1, Counters DEF Local, TmpAt
<1>12. Local(c)'
  BY <1>8, <1>9, <1>10, <1>11 DEF Local
<1> QED BY <1>5, <1>6, <1>8, <1>12, <1>9, <1>10, <1>11, Together

(* The temporary link is about to be renamed.                              *)
LEMMA MakeTmpKeeps ==
    ASSUME PInv, NEW c \in Containers, MakeTmp(c) PROVE PInv'
<1>1. /\ At(c, "tmp") /\ todo' = [todo EXCEPT ![c] = Tail(@)] /\ NoFault
      /\ links' = [links EXCEPT ![c] = @ \cup {"tmp"}] /\ bridge' = bridge /\ brAddrs' = brAddrs
      /\ netns' = netns /\ addrs' = addrs /\ joined' = joined /\ held' = held /\ nat' = nat
      /\ ip' = ip /\ seen' = seen /\ status' = status /\ raced' = raced
  BY DEF MakeTmp, StepDone, Continue
<1>2. Types /\ Local(c) /\ Counted /\ "tmp" \notin DelSteps
  BY <1>1, CountersKeep DEF PInv, DelSteps
<1>3. /\ todo' \in [Containers -> Seq(StepNames)] /\ todo'[c] = Tail(todo[c])
      /\ \A d \in Containers : d # c => todo'[d] = todo[d]
  BY <1>1, <1>2, TailTypes
<1>4. /\ links'[c] = links[c] \cup {"tmp"}
      /\ (\A d \in Containers : d # c => links'[d] = links[d])
  BY <1>1, <1>2 DEF Types
<1>5. Frame(c)
  BY <1>1, <1>2, <1>3, <1>4 DEF Frame, Counted
<1>6. Types'
  BY <1>1, <1>2, <1>3 DEF Types, Counted
<1>7. Taken(c, "tmp")
  BY <1>1, <1>3 DEF Taken
<1>8. /\ Rest(c)' \subseteq Rest(c) /\ Rest(c) \subseteq Rest(c)' \cup {"tmp"}
      /\ (\A y \in Rest(c)' : MayFollow("tmp", y)) /\ "tmp" \in Rest(c) /\ Adding(c)
      /\ Adding(c)' /\ ~ Undoing(c) /\ HasNetns(c) /\ HasNetns(c)' /\ OrderAt(c)'
      /\ CommandAt(c)' /\ IdleAt(c)' /\ AttachedAt(c)' /\ NoneAt(c)' /\ BrokenAt(c)'
      /\ DelAt(c)' /\ DetachAt(c)' /\ status'[c] = "unknown" /\ GatewayAt(c)' /\ HeldOnce'
      /\ BridgeOK'
  BY <1>1, <1>2, <1>5, <1>7, <1>4, AddStep
<1>9. ContainerAt(c)'
  BY <1>1, <1>2, <1>4, <1>8 DEF Local, ContainerAt, HasNetns
<1>10. AddAt(c)'
  <2>1. "if" \in links'[c] <=> "if" \in links[c]
    BY <1>4
  <2>2. \A x \in {"veth", "rename", "ipam", "addr", "join"} \cup NatRules : x \in Rest(c) <=> x \in Rest(c)'
    BY <1>8 DEF NatRules
  <2> QED BY <1>1, <1>2, <1>8, <2>1, <2>2 DEF Local, AddAt, Made
<1>11. TmpAt(c)'
  <2>1. "rename" \in Rest(c)'
    BY <1>2, <1>8 DEF Local, CommandAt
  <2> QED BY <2>1 DEF TmpAt
<1>12. Local(c)'
  BY <1>8, <1>9, <1>10, <1>11 DEF Local
<1> QED BY <1>5, <1>6, <1>8, <1>12, <1>9, <1>10, <1>11, Together

(* The link that is renamed has no address, and its old name is gone.      *)
LEMMA RenameKeeps ==
    ASSUME PInv, NEW c \in Containers, Rename(c) PROVE PInv'
<1>1. /\ At(c, "rename") /\ todo' = [todo EXCEPT ![c] = Tail(@)] /\ NoFault
      /\ links' = [links EXCEPT ![c] = {"if"}] /\ bridge' = bridge /\ brAddrs' = brAddrs
      /\ netns' = netns /\ addrs' = addrs /\ joined' = joined /\ held' = held /\ nat' = nat
      /\ ip' = ip /\ seen' = seen /\ status' = status /\ raced' = raced
  BY DEF Rename, StepDone, Continue
<1>2. Types /\ Local(c) /\ Counted /\ "rename" \notin DelSteps
  BY <1>1, CountersKeep DEF PInv, DelSteps
<1>3. /\ todo' \in [Containers -> Seq(StepNames)] /\ todo'[c] = Tail(todo[c])
      /\ \A d \in Containers : d # c => todo'[d] = todo[d]
  BY <1>1, <1>2, TailTypes
<1>4. /\ links'[c] = {"if"} /\ (\A d \in Containers : d # c => links'[d] = links[d])
  BY <1>1, <1>2 DEF Types
<1>5. Frame(c)
  BY <1>1, <1>2, <1>3, <1>4 DEF Frame, Counted
<1>6. Types'
  BY <1>1, <1>2, <1>3 DEF Types, Counted
<1>7. Taken(c, "rename")
  BY <1>1, <1>3 DEF Taken
<1>8. /\ Rest(c)' \subseteq Rest(c) /\ Rest(c) \subseteq Rest(c)' \cup {"rename"}
      /\ (\A y \in Rest(c)' : MayFollow("rename", y)) /\ "rename" \in Rest(c) /\ Adding(c)
      /\ Adding(c)' /\ ~ Undoing(c) /\ HasNetns(c) /\ HasNetns(c)' /\ OrderAt(c)'
      /\ CommandAt(c)' /\ IdleAt(c)' /\ AttachedAt(c)' /\ NoneAt(c)' /\ BrokenAt(c)'
      /\ DelAt(c)' /\ DetachAt(c)' /\ status'[c] = "unknown" /\ GatewayAt(c)' /\ HeldOnce'
      /\ BridgeOK'
  BY <1>1, <1>2, <1>5, <1>7, <1>4, AddStep
<1>9. ContainerAt(c)'
  BY <1>1, <1>2, <1>4, <1>8 DEF Local, ContainerAt
<1>10. AddAt(c)'
  <2>1. "if" \notin links[c] /\ addrs'[c] = {} /\ "if" \in links'[c]
    BY <1>1, <1>2, <1>4 DEF Rename, Local, ContainerAt
  <2>2. \A x \in {"veth", "ipam", "addr", "join"} \cup NatRules : x \in Rest(c) <=> x \in Rest(c)'
    BY <1>8 DEF NatRules
  <2> QED BY <1>1, <1>2, <1>8, <2>1, <2>2 DEF Local, AddAt, Made
<1>11. TmpAt(c)'
  BY <1>4 DEF TmpAt
<1>12. Local(c)'
  BY <1>8, <1>9, <1>10, <1>11 DEF Local
<1> QED BY <1>5, <1>6, <1>8, <1>12, <1>9, <1>10, <1>11, Together

(* The interface has been made, and the address reserved, before.          *)
LEMMA ConfigureIfaceKeeps ==
    ASSUME PInv, NEW c \in Containers, ConfigureIface(c) PROVE PInv'
<1>1. /\ At(c, "addr") /\ todo' = [todo EXCEPT ![c] = Tail(@)] /\ NoFault
      /\ addrs' = [addrs EXCEPT ![c] = @ \cup {ip[c]}] /\ bridge' = bridge /\ brAddrs' = brAddrs
      /\ netns' = netns /\ links' = links /\ joined' = joined /\ held' = held /\ nat' = nat
      /\ ip' = ip /\ seen' = seen /\ status' = status /\ raced' = raced
  BY DEF ConfigureIface, StepDone, Continue
<1>2. Types /\ Local(c) /\ Counted /\ "addr" \notin DelSteps
  BY <1>1, CountersKeep DEF PInv, DelSteps
<1>3. /\ todo' \in [Containers -> Seq(StepNames)] /\ todo'[c] = Tail(todo[c])
      /\ \A d \in Containers : d # c => todo'[d] = todo[d]
  BY <1>1, <1>2, TailTypes
<1>a. /\ Rest(c)' \subseteq Rest(c) /\ Rest(c) \subseteq Rest(c)' \cup {"addr"}
      /\ \A y \in Rest(c)' : MayFollow("addr", y)
      /\ "addr" \in Rest(c) /\ Adding(c)
  <2>1. Taken(c, "addr")
    BY <1>1, <1>3 DEF Taken
  <2> QED BY <1>1, <1>2, <2>1, GoesOn, CommandOf
<1>b. /\ Made(c) /\ "if" \in links[c] /\ addrs[c] = {}
      /\ "ipam" \notin Rest(c) /\ ip[c] \in held[c] /\ ip[c] \in Addrs
  <2>1. "veth" \notin Rest(c) /\ "rename" \notin Rest(c) /\ "ipam" \notin Rest(c)
    BY <1>a DEF MayFollow
  <2> QED BY <1>2, <1>a, <2>1 DEF Local, AddAt, Made, Types
<1>4. /\ addrs'[c] = addrs[c] \cup {ip[c]}
      /\ (\A d \in Containers : d # c => addrs'[d] = addrs[d])
  BY <1>1, <1>2 DEF Types
<1>5. Frame(c)
  BY <1>1, <1>2, <1>3, <1>4 DEF Frame, Counted
<1>6. Types'
  BY <1>1, <1>2, <1>3, <1>b DEF Types, Counted
<1>7. Taken(c, "addr")
  BY <1>1, <1>3 DEF Taken
<1>8. /\ Rest(c)' \subseteq Rest(c) /\ Rest(c) \subseteq Rest(c)' \cup {"addr"}
      /\ (\A y \in Rest(c)' : MayFollow("addr", y)) /\ "addr" \in Rest(c) /\ Adding(c)
      /\ Adding(c)' /\ ~ Undoing(c) /\ HasNetns(c) /\ HasNetns(c)' /\ OrderAt(c)'
      /\ CommandAt(c)' /\ IdleAt(c)' /\ AttachedAt(c)' /\ NoneAt(c)' /\ BrokenAt(c)'
      /\ DelAt(c)' /\ DetachAt(c)' /\ status'[c] = "unknown" /\ TmpAt(c)' /\ GatewayAt(c)'
      /\ HeldOnce' /\ BridgeOK'
  BY <1>1, <1>2, <1>5, <1>7, <1>4, AddStep
<1>9. ContainerAt(c)'
  BY <1>1, <1>2, <1>4, <1>8, <1>b DEF Local, ContainerAt
<1>10. AddAt(c)'
  <2>1. addrs'[c] = {ip[c]}
    BY <1>4, <1>b
  <2>2. \A x \in {"veth", "rename", "ipam", "join"} \cup NatRules : x \in Rest(c) <=> x \in Rest(c)'
    BY <1>8 DEF NatRules
  <2>3. "addr" \notin Rest(c)'
    BY <1>8 DEF MayFollow
  <2> QED BY <1>1, <1>2, <1>8, <1>b, <2>1, <2>2, <2>3 DEF Local, AddAt, Made
<1>11. Local(c)'
  BY <1>8, <1>9, <1>10 DEF Local
<1> QED BY <1>5, <1>6, <1>8, <1>11, <1>9, <1>10, Together

(* A bridge that is up needs nobody to set it up.                          *)
LEMMA BridgeUpKeeps ==
    ASSUME PInv, NEW c \in Containers, NEW h \in {"bridgeUp", "gwUp"}, At(c, h), BridgeUp(c) PROVE PInv'
<1>1. /\ At(c, h) /\ todo' = [todo EXCEPT ![c] = Tail(@)] /\ NoFault /\ bridge' = "up"
      /\ raced' = FALSE /\ brAddrs' = brAddrs /\ netns' = netns /\ links' = links
      /\ addrs' = addrs /\ joined' = joined /\ held' = held /\ nat' = nat /\ ip' = ip
      /\ seen' = seen /\ status' = status
  BY DEF BridgeUp
<1>2. Types /\ Local(c) /\ Counted /\ (h) \notin DelSteps /\ (h) \notin {"print", "end", "undo"}
  BY <1>1, CountersKeep, InterfaceAssumption DEF PInv, DelSteps, InterfaceAssumption, AddSteps
<1>3. /\ todo' \in [Containers -> Seq(StepNames)] /\ todo'[c] = Tail(todo[c])
      /\ \A d \in Containers : d # c => todo'[d] = todo[d]
  BY <1>1, <1>2, TailTypes
<1>5. Frame(c)
  BY <1>1, <1>2, <1>3 DEF Frame, Counted
<1>6. Types'
  BY <1>1, <1>2, <1>3 DEF Types, Counted
<1>7. Taken(c, h)
  BY <1>1, <1>2, <1>3 DEF Taken
<1>8. /\ Rest(c)' \subseteq Rest(c) /\ Rest(c) \subseteq Rest(c)' \cup {h}
      /\ (\A y \in Rest(c)' : MayFollow(h, y)) /\ h \in Rest(c) /\ Adding(c) /\ Adding(c)'
      /\ ~ Undoing(c) /\ HasNetns(c) /\ HasNetns(c)' /\ OrderAt(c)' /\ CommandAt(c)'
      /\ IdleAt(c)' /\ AttachedAt(c)' /\ NoneAt(c)' /\ BrokenAt(c)' /\ DelAt(c)' /\ DetachAt(c)'
      /\ status'[c] = "unknown" /\ ContainerAt(c)' /\ TmpAt(c)' /\ GatewayAt(c)' /\ AddAt(c)'
      /\ HeldOnce'
  BY <1>1, <1>2, <1>5, <1>7, AddStep DEF NatRules
<1>9. BridgeOK'
  BY <1>1 DEF BridgeOK
<1>10. Local(c)'
  BY <1>8, <1>9 DEF Local
<1> QED BY <1>5, <1>6, <1>8, <1>10, <1>9, Together

(* Nothing is changed that the invariant speaks of.                        *)
LEMMA SettingsKeeps ==
    ASSUME PInv, NEW c \in Containers, NEW h \in {"settings", "arp"}, At(c, h), Settings(c) PROVE PInv'
<1>1. /\ At(c, h) /\ todo' = [todo EXCEPT ![c] = Tail(@)] /\ NoFault /\ bridge' = bridge
      /\ brAddrs' = brAddrs /\ netns' = netns /\ links' = links /\ addrs' = addrs
      /\ joined' = joined /\ held' = held /\ nat' = nat /\ ip' = ip /\ seen' = seen
      /\ status' = status /\ raced' = raced
  BY DEF Settings, StepDone, Continue, kernel
<1>2. Types /\ Local(c) /\ Counted /\ (h) \notin DelSteps /\ (h) \notin {"print", "end", "undo"}
  BY <1>1, CountersKeep, InterfaceAssumption DEF PInv, DelSteps, InterfaceAssumption, AddSteps
<1>3. /\ todo' \in [Containers -> Seq(StepNames)] /\ todo'[c] = Tail(todo[c])
      /\ \A d \in Containers : d # c => todo'[d] = todo[d]
  BY <1>1, <1>2, TailTypes
<1>5. Frame(c)
  BY <1>1, <1>2, <1>3 DEF Frame, Counted
<1>6. Types'
  BY <1>1, <1>2, <1>3 DEF Types, Counted
<1>7. Taken(c, h)
  BY <1>1, <1>2, <1>3 DEF Taken
<1>8. /\ Rest(c)' \subseteq Rest(c) /\ Rest(c) \subseteq Rest(c)' \cup {h}
      /\ (\A y \in Rest(c)' : MayFollow(h, y)) /\ h \in Rest(c) /\ Adding(c) /\ Adding(c)'
      /\ ~ Undoing(c) /\ HasNetns(c) /\ HasNetns(c)' /\ OrderAt(c)' /\ CommandAt(c)'
      /\ IdleAt(c)' /\ AttachedAt(c)' /\ NoneAt(c)' /\ BrokenAt(c)' /\ DelAt(c)' /\ DetachAt(c)'
      /\ status'[c] = "unknown" /\ ContainerAt(c)' /\ TmpAt(c)' /\ GatewayAt(c)' /\ AddAt(c)'
      /\ HeldOnce' /\ BridgeOK'
  BY <1>1, <1>2, <1>5, <1>7, AddStep DEF NatRules
<1>9. Local(c)'
  BY <1>8 DEF Local
<1> QED BY <1>5, <1>6, <1>8, <1>9, Together

(* The address that is reserved is held by nobody else.                    *)
LEMMA ExecAddKeeps ==
    ASSUME PInv, NEW c \in Containers, ExecAdd(c) PROVE PInv'
<1>0. PICK a \in ConfOf[c].pool :
        /\ At(c, "ipam") /\ (\A d \in Containers : a \notin held[d])
        /\ held' = [held EXCEPT ![c] = @ \cup {a}]
        /\ ip' = [ip EXCEPT ![c] = a] /\ Continue(c) /\ NoFault
        /\ UNCHANGED <<bridge, brAddrs, netns, links, addrs, joined, nat, seen>>
  BY DEF ExecAdd
<1>a. a \in Addrs
  BY InterfaceAssumption DEF InterfaceAssumption, Config
<1>1. /\ At(c, "ipam") /\ todo' = [todo EXCEPT ![c] = Tail(@)] /\ NoFault
      /\ held' = [held EXCEPT ![c] = @ \cup {a}] /\ ip' = [ip EXCEPT ![c] = a]
      /\ bridge' = bridge /\ brAddrs' = brAddrs /\ netns' = netns /\ links' = links
      /\ addrs' = addrs /\ joined' = joined /\ nat' = nat /\ seen' = seen /\ status' = status
      /\ raced' = raced
  BY <1>0 DEF Continue
<1>2. Types /\ Local(c) /\ Counted /\ "ipam" \notin DelSteps
  BY <1>1, CountersKeep DEF PInv, DelSteps
<1>3. /\ todo' \in [Containers -> Seq(StepNames)] /\ todo'[c] = Tail(todo[c])
      /\ \A d \in Containers : d # c => todo'[d] = todo[d]
  BY <1>1, <1>2, TailTypes
<1>4. /\ held'[c] = held[c] \cup {a} /\ ip'[c] = a
      /\ (\A d \in Containers : d # c => held'[d] = held[d])
      /\ (\A d \in Containers : d # c => ip'[d] = ip[d])
  BY <1>1, <1>2 DEF Types
<1>5. Frame(c)
  BY <1>1, <1>2, <1>3, <1>4 DEF Frame, Counted
<1>6. Types'
  BY <1>1, <1>2, <1>3, <1>a DEF Types, Counted
<1>7. Taken(c, "ipam")
  BY <1>1, <1>3 DEF Taken
<1>8. /\ Rest(c)' \subseteq Rest(c) /\ Rest(c) \subseteq Rest(c)' \cup {"ipam"}
      /\ (\A y \in Rest(c)' : MayFollow("ipam", y)) /\ "ipam" \in Rest(c) /\ Adding(c)
      /\ Adding(c)' /\ ~ Undoing(c) /\ HasNetns(c) /\ HasNetns(c)' /\ OrderAt(c)'
      /\ CommandAt(c)' /\ IdleAt(c)' /\ AttachedAt(c)' /\ NoneAt(c)' /\ BrokenAt(c)'
      /\ DelAt(c)' /\ DetachAt(c)' /\ status'[c] = "unknown" /\ ContainerAt(c)' /\ TmpAt(c)'
      /\ GatewayAt(c)' /\ BridgeOK'
  BY <1>1, <1>2, <1>5, <1>7, <1>4, AddStep
<1>9. AddAt(c)'
  <2>1. "addr" \in Rest(c)'
    BY <1>2, <1>8 DEF Local, CommandAt
  <2>2. \A x \in {"veth", "rename", "addr", "join"} \cup NatRules : x \in Rest(c) <=> x \in Rest(c)'
    BY <1>8 DEF NatRules
  <2>3. ip'[c] \in held'[c]
    BY <1>4
  <2> QED BY <1>1, <1>2, <1>8, <2>1, <2>2, <2>3 DEF Local, AddAt, Made
<1>10. HeldOnce'
  BY <1>0, <1>4 DEF PInv, HeldOnce
<1>11. Local(c)'
  BY <1>8, <1>9, <1>10 DEF Local
<1> QED BY <1>5, <1>6, <1>8, <1>11, <1>9, <1>10, Together

(* What is listed is there.                                                *)
LEMMA ListBridgeAddrsKeeps ==
    ASSUME PInv, NEW c \in Containers, ListBridgeAddrs(c) PROVE PInv'
<1>1. /\ At(c, "gwList") /\ todo' = [todo EXCEPT ![c] = Tail(@)] /\ NoFault
      /\ seen' = [seen EXCEPT ![c] = brAddrs] /\ bridge' = bridge /\ brAddrs' = brAddrs
      /\ netns' = netns /\ links' = links /\ addrs' = addrs /\ joined' = joined /\ held' = held
      /\ nat' = nat /\ ip' = ip /\ status' = status /\ raced' = raced
  BY DEF ListBridgeAddrs, Continue, kernel
<1>2. Types /\ Local(c) /\ Counted /\ "gwList" \notin DelSteps
  BY <1>1, CountersKeep DEF PInv, DelSteps
<1>3. /\ todo' \in [Containers -> Seq(StepNames)] /\ todo'[c] = Tail(todo[c])
      /\ \A d \in Containers : d # c => todo'[d] = todo[d]
  BY <1>1, <1>2, TailTypes
<1>4. /\ seen'[c] = brAddrs /\ (\A d \in Containers : d # c => seen'[d] = seen[d])
  BY <1>1, <1>2 DEF Types
<1>5. Frame(c)
  BY <1>1, <1>2, <1>3, <1>4 DEF Frame, Counted
<1>6. Types'
  BY <1>1, <1>2, <1>3 DEF Types, Counted
<1>7. Taken(c, "gwList")
  BY <1>1, <1>3 DEF Taken
<1>8. /\ Rest(c)' \subseteq Rest(c) /\ Rest(c) \subseteq Rest(c)' \cup {"gwList"}
      /\ (\A y \in Rest(c)' : MayFollow("gwList", y)) /\ "gwList" \in Rest(c) /\ Adding(c)
      /\ Adding(c)' /\ ~ Undoing(c) /\ HasNetns(c) /\ HasNetns(c)' /\ OrderAt(c)'
      /\ CommandAt(c)' /\ IdleAt(c)' /\ AttachedAt(c)' /\ NoneAt(c)' /\ BrokenAt(c)'
      /\ DelAt(c)' /\ DetachAt(c)' /\ status'[c] = "unknown" /\ ContainerAt(c)' /\ TmpAt(c)'
      /\ AddAt(c)' /\ HeldOnce' /\ BridgeOK'
  BY <1>1, <1>2, <1>5, <1>7, <1>4, AddStep DEF NatRules
<1>9. GatewayAt(c)'
  <2>1. GatewayContested(c)' <=> GatewayContested(c)
    BY DEF GatewayContested
  <2> QED BY <1>1, <1>2, <1>4, <1>8, <2>1 DEF Local, GatewayAt
<1>10. Local(c)'
  BY <1>8, <1>9 DEF Local
<1> QED BY <1>5, <1>6, <1>8, <1>10, <1>9, Together

(* An address that is deleted is no gateway of an ADD that is not contested. *)
LEMMA DeleteBridgeAddrKeeps ==
    ASSUME PInv, NEW c \in Containers, DeleteBridgeAddr(c) PROVE PInv'
<1>0. PICK h \in brAddrs :
        /\ At(c, h) /\ brAddrs' = brAddrs \ {h} /\ seen' = [seen EXCEPT ![c] = @ \ {h}]
        /\ Continue(c) /\ NoFault
        /\ UNCHANGED <<bridge, netns, links, addrs, joined, held, nat, ip>>
  BY DEF DeleteBridgeAddr
<1>a. h \in Addrs /\ h \notin AddSteps
  BY InterfaceAssumption DEF PInv, Types, InterfaceAssumption
<1>b. ConfOf[c].force /\ h # ConfOf[c].gw
  <2>1. h \in Rest(c)
    BY <1>0, CommandOf DEF PInv
  <2> QED BY <1>a, <2>1 DEF PInv, Local, CommandAt
<1>1. /\ At(c, h) /\ todo' = [todo EXCEPT ![c] = Tail(@)] /\ NoFault
      /\ seen' = [seen EXCEPT ![c] = @ \ {h}] /\ brAddrs' = brAddrs \ {h} /\ bridge' = bridge
      /\ netns' = netns /\ links' = links /\ addrs' = addrs /\ joined' = joined /\ held' = held
      /\ nat' = nat /\ ip' = ip /\ status' = status /\ raced' = raced
  BY <1>0 DEF Continue
<1>2. Types /\ Local(c) /\ Counted /\ (h) \notin DelSteps /\ (h) \notin {"print", "end", "undo"}
  BY <1>1, <1>a, CountersKeep, InterfaceAssumption DEF PInv, DelSteps, InterfaceAssumption, AddSteps
<1>3. /\ todo' \in [Containers -> Seq(StepNames)] /\ todo'[c] = Tail(todo[c])
      /\ \A d \in Containers : d # c => todo'[d] = todo[d]
  BY <1>1, <1>2, TailTypes
<1>4. /\ seen'[c] = seen[c] \ {h} /\ (\A d \in Containers : d # c => seen'[d] = seen[d])
  BY <1>1, <1>2 DEF Types
<1>5. Frame(c)
  BY <1>1, <1>2, <1>3, <1>4, <1>b DEF Frame, Counted
<1>6. Types'
  BY <1>1, <1>2, <1>3 DEF Types, Counted
<1>7. Taken(c, h)
  BY <1>1, <1>2, <1>3 DEF Taken
<1>8. /\ Rest(c)' \subseteq Rest(c) /\ Rest(c) \subseteq Rest(c)' \cup {h}
      /\ (\A y \in Rest(c)' : MayFollow(h, y)) /\ h \in Rest(c) /\ Adding(c) /\ Adding(c)'
      /\ ~ Undoing(c) /\ HasNetns(c) /\ HasNetns(c)' /\ OrderAt(c)' /\ CommandAt(c)'
      /\ IdleAt(c)' /\ AttachedAt(c)' /\ NoneAt(c)' /\ BrokenAt(c)' /\ DelAt(c)' /\ DetachAt(c)'
      /\ status'[c] = "unknown" /\ ContainerAt(c)' /\ TmpAt(c)' /\ AddAt(c)' /\ HeldOnce'
      /\ BridgeOK'
  BY <1>1, <1>2, <1>5, <1>7, <1>4, <1>a, AddStep DEF NatRules, AddSteps
<1>9. GatewayAt(c)'
  <2>1. GatewayContested(c)' <=> GatewayContested(c)
    BY DEF GatewayContested
  <2>2. "gwAdd" \in Rest(c) <=> "gwAdd" \in Rest(c)'
    BY <1>8, <1>a DEF AddSteps
  <2> QED BY <1>1, <1>2, <1>4, <1>8, <1>b, <2>1, <2>2 DEF Local, GatewayAt
<1>10. Local(c)'
  BY <1>8, <1>9 DEF Local
<1> QED BY <1>5, <1>6, <1>8, <1>10, <1>9, Together

(* The bridge has its address now.                                         *)
LEMMA AddBridgeAddrKeeps ==
    ASSUME PInv, NEW c \in Containers, AddBridgeAddr(c) PROVE PInv'
<1>1. /\ At(c, "gwAdd") /\ todo' = [todo EXCEPT ![c] = Tail(@)] /\ NoFault
      /\ brAddrs' = brAddrs \cup {ConfOf[c].gw} /\ bridge' = bridge /\ netns' = netns
      /\ links' = links /\ addrs' = addrs /\ joined' = joined /\ held' = held /\ nat' = nat
      /\ ip' = ip /\ seen' = seen /\ status' = status /\ raced' = raced
  BY DEF AddBridgeAddr, StepDone, Continue
<1>2. Types /\ Local(c) /\ Counted /\ "gwAdd" \notin DelSteps
  BY <1>1, CountersKeep DEF PInv, DelSteps
<1>3. /\ todo' \in [Containers -> Seq(StepNames)] /\ todo'[c] = Tail(todo[c])
      /\ \A d \in Containers : d # c => todo'[d] = todo[d]
  BY <1>1, <1>2, TailTypes
<1>a. ConfOf[c].gw \in Addrs
  BY InterfaceAssumption DEF InterfaceAssumption, Config
<1>5. Frame(c)
  BY <1>1, <1>2, <1>3 DEF Frame, Counted
<1>6. Types'
  BY <1>1, <1>2, <1>3, <1>a DEF Types, Counted
<1>7. Taken(c, "gwAdd")
  BY <1>1, <1>3 DEF Taken
<1>8. /\ Rest(c)' \subseteq Rest(c) /\ Rest(c) \subseteq Rest(c)' \cup {"gwAdd"}
      /\ (\A y \in Rest(c)' : MayFollow("gwAdd", y)) /\ "gwAdd" \in Rest(c) /\ Adding(c)
      /\ Adding(c)' /\ ~ Undoing(c) /\ HasNetns(c) /\ HasNetns(c)' /\ OrderAt(c)'
      /\ CommandAt(c)' /\ IdleAt(c)' /\ AttachedAt(c)' /\ NoneAt(c)' /\ BrokenAt(c)'
      /\ DelAt(c)' /\ DetachAt(c)' /\ status'[c] = "unknown" /\ ContainerAt(c)' /\ TmpAt(c)'
      /\ AddAt(c)' /\ HeldOnce' /\ BridgeOK'
  BY <1>1, <1>2, <1>5, <1>7, AddStep DEF NatRules
<1>9. GatewayAt(c)'
  BY <1>1 DEF GatewayAt
<1>10. Local(c)'
  BY <1>8, <1>9 DEF Local
<1> QED BY <1>5, <1>6, <1>8, <1>10, <1>9, Together

(* A rule is there once its step is taken.                                 *)
LEMMA InstallRuleKeeps ==
    ASSUME PInv, NEW c \in Containers, NEW h \in NatRules, InstallRule(c, h) PROVE PInv'
<1>1. /\ At(c, h) /\ todo' = [todo EXCEPT ![c] = Tail(@)] /\ NoFault
      /\ nat' = [nat EXCEPT ![c] = @ \cup {h}] /\ bridge' = bridge /\ brAddrs' = brAddrs
      /\ netns' = netns /\ links' = links /\ addrs' = addrs /\ joined' = joined /\ held' = held
      /\ ip' = ip /\ seen' = seen /\ status' = status /\ raced' = raced
  BY DEF InstallRule, StepDone, Continue
<1>2. Types /\ Local(c) /\ Counted /\ (h) \notin DelSteps /\ (h) \notin {"print", "end", "undo"}
  BY <1>1, CountersKeep, InterfaceAssumption DEF PInv, DelSteps, NatRules, InterfaceAssumption, AddSteps
<1>3. /\ todo' \in [Containers -> Seq(StepNames)] /\ todo'[c] = Tail(todo[c])
      /\ \A d \in Containers : d # c => todo'[d] = todo[d]
  BY <1>1, <1>2, TailTypes
<1>4. /\ nat'[c] = nat[c] \cup {h} /\ (\A d \in Containers : d # c => nat'[d] = nat[d])
  BY <1>1, <1>2 DEF Types
<1>5. Frame(c)
  BY <1>1, <1>2, <1>3, <1>4 DEF Frame, Counted
<1>6. Types'
  BY <1>1, <1>2, <1>3 DEF Types, Counted
<1>7. Taken(c, h)
  BY <1>1, <1>2, <1>3 DEF Taken
<1>8. /\ Rest(c)' \subseteq Rest(c) /\ Rest(c) \subseteq Rest(c)' \cup {h}
      /\ (\A y \in Rest(c)' : MayFollow(h, y)) /\ h \in Rest(c) /\ Adding(c) /\ Adding(c)'
      /\ ~ Undoing(c) /\ HasNetns(c) /\ HasNetns(c)' /\ OrderAt(c)' /\ CommandAt(c)'
      /\ IdleAt(c)' /\ AttachedAt(c)' /\ NoneAt(c)' /\ BrokenAt(c)' /\ DelAt(c)' /\ DetachAt(c)'
      /\ status'[c] = "unknown" /\ TmpAt(c)' /\ GatewayAt(c)' /\ HeldOnce' /\ BridgeOK'
  BY <1>1, <1>2, <1>5, <1>7, <1>4, AddStep DEF NatRules
<1>9. ContainerAt(c)'
  <2>1. ConfOf[c].ipMasq
    BY <1>2, <1>8 DEF Local, CommandAt
  <2> QED BY <1>1, <1>2, <1>8, <2>1 DEF Local, ContainerAt
<1>10. AddAt(c)'
  <2>1. \A x \in {"veth", "rename", "ipam", "addr", "join"} : x \in Rest(c) <=> x \in Rest(c)'
    BY <1>8 DEF NatRules
  <2>2. ConfOf[c].ipMasq => NatRules \ Rest(c)' \subseteq nat'[c]
    BY <1>2, <1>4, <1>8 DEF Local, AddAt
  <2> QED BY <1>1, <1>2, <1>8, <2>1, <2>2 DEF Local, AddAt, Made
<1>11. Local(c)'
  BY <1>8, <1>9, <1>10 DEF Local
<1> QED BY <1>5, <1>6, <1>8, <1>11, <1>9, <1>10, Together
-----------------------------------------------------------------------------
(* The steps of a DEL                                                      *)

(* What a step of a DEL leaves to be shown.                                *)
LEMMA DelStep ==
    ASSUME PInv, NEW c \in Containers, NEW h \in DelSteps, Taken(c, h), Frame(c),
           bridge' = bridge, raced' = raced, brAddrs' = brAddrs, seen'[c] = seen[c]
    PROVE  /\ Rest(c)' \subseteq Rest(c) /\ Rest(c) \subseteq Rest(c)' \cup {h}
           /\ \A y \in Rest(c)' : MayFollow(h, y)
           /\ h \in Rest(c) /\ h \notin Rest(c)' /\ Deleting(c) /\ Deleting(c)'
           /\ (HasNetns(c)' <=> HasNetns(c)) /\ status'[c] = status[c]
           /\ OrderAt(c)' /\ CommandAt(c)' /\ IdleAt(c)' /\ AttachedAt(c)' /\ NoneAt(c)'
           /\ BrokenAt(c)'
           /\ AddAt(c)' /\ GatewayAt(c)' /\ BridgeOK'
           /\ links'[c] = links[c] /\ addrs'[c] = addrs[c] /\ nat'[c] = nat[c] => ContainerAt(c)'
           /\ links'[c] \subseteq links[c] => TmpAt(c)'
           /\ held'[c] \subseteq held[c] => HeldOnce'
<1>1. /\ Types /\ Local(c) /\ At(c, h) /\ h # "undo" /\ h # "gwScan"
      /\ h \notin {"rename", "bridgeUp", "gwUp"}
  BY DEF PInv, Taken, DelSteps
<1>2. /\ h \in Rest(c) /\ Deleting(c) /\ ~ Adding(c) /\ ~ Undoing(c)
      /\ status[c] \notin {"attached", "none", "broken"}
  BY <1>1, CommandOf
<1>3. /\ Rest(c)' \subseteq Rest(c)
      /\ Rest(c) \subseteq Rest(c)' \cup {h}
      /\ \A y \in Rest(c)' : MayFollow(h, y)
      /\ OrderAt(c)' /\ CommandAt(c)' /\ IdleAt(c)' /\ AttachedAt(c)' /\ NoneAt(c)' /\ BrokenAt(c)'
      /\ (Adding(c)' <=> Adding(c)) /\ (Deleting(c)' <=> Deleting(c)) /\ ~ Undoing(c)'
  BY <1>1, GoesOn
<1>4. h \notin Rest(c)'
  BY <1>3 DEF MayFollow
<1>5. status'[c] = status[c] /\ (HasNetns(c)' <=> HasNetns(c)) /\ netns'[c] = netns[c]
  BY DEF Taken, HasNetns
<1>6. AddAt(c)'
  BY <1>2, <1>3 DEF AddAt
<1>7. GatewayAt(c)'
  <2>1. GatewayContested(c)' <=> GatewayContested(c)
    BY DEF GatewayContested
  <2> QED BY <1>1, <1>2, <1>3, <1>5, <2>1 DEF Local, GatewayAt
<1>8. BridgeOK'
  <2>1. {"bridgeUp", "gwUp"} \cap Rest(c) \subseteq Rest(c)'
    BY <1>1, <1>3
  <2> QED BY <2>1, StillUp
<1>9. ASSUME links'[c] = links[c], addrs'[c] = addrs[c], nat'[c] = nat[c] PROVE ContainerAt(c)'
  BY <1>1, <1>5, <1>9 DEF Local, ContainerAt
<1>10. ASSUME links'[c] \subseteq links[c] PROVE TmpAt(c)'
  BY <1>1, <1>2, <1>3, <1>10, Counters DEF Local, TmpAt
<1>11. held'[c] \subseteq held[c] => HeldOnce'
  BY StillHeldOnce
<1> QED BY <1>2, <1>3, <1>4, <1>5, <1>6, <1>7, <1>8, <1>9, <1>10, <1>11

(* The addresses are given back.                                           *)
LEMMA ExecDelKeeps ==
    ASSUME PInv, NEW c \in Containers, ExecDel(c) PROVE PInv'
<1>1. /\ At(c, "ipamDel") /\ todo' = [todo EXCEPT ![c] = Tail(@)] /\ NoFault
      /\ held' = [held EXCEPT ![c] = {}] /\ bridge' = bridge /\ brAddrs' = brAddrs
      /\ netns' = netns /\ links' = links /\ addrs' = addrs /\ joined' = joined /\ nat' = nat
      /\ ip' = ip /\ seen' = seen /\ status' = status /\ raced' = raced
  BY DEF ExecDel, StepDone, Continue
<1>2. Types /\ Local(c) /\ Counted /\ "ipamDel" \in DelSteps
  BY <1>1, CountersKeep DEF PInv, DelSteps
<1>3. /\ todo' \in [Containers -> Seq(StepNames)] /\ todo'[c] = Tail(todo[c])
      /\ \A d \in Containers : d # c => todo'[d] = todo[d]
  BY <1>1, <1>2, TailTypes
<1>4. /\ held'[c] = {} /\ (\A d \in Containers : d # c => held'[d] = held[d])
  BY <1>1, <1>2 DEF Types
<1>5. Frame(c)
  BY <1>1, <1>2, <1>3, <1>4 DEF Frame, Counted
<1>6. Types'
  BY <1>1, <1>2, <1>3 DEF Types, Counted
<1>7. Taken(c, "ipamDel")
  BY <1>1, <1>3 DEF Taken
<1>8. /\ Rest(c)' \subseteq Rest(c) /\ Rest(c) \subseteq Rest(c)' \cup {"ipamDel"}
      /\ (\A y \in Rest(c)' : MayFollow("ipamDel", y)) /\ "ipamDel" \in Rest(c)
      /\ "ipamDel" \notin Rest(c)' /\ Deleting(c) /\ Deleting(c)'
      /\ (HasNetns(c)' <=> HasNetns(c)) /\ status'[c] = status[c] /\ OrderAt(c)'
      /\ CommandAt(c)' /\ IdleAt(c)' /\ AttachedAt(c)' /\ NoneAt(c)' /\ BrokenAt(c)'
      /\ AddAt(c)' /\ GatewayAt(c)' /\ BridgeOK' /\ HeldOnce' /\ TmpAt(c)' /\ ContainerAt(c)'
  BY <1>1, <1>2, <1>4, <1>5, <1>7, DelStep
<1>9. DelAt(c)'
  <2>1. \A x \in {"delLink", "delChain"} : x \in Rest(c) <=> x \in Rest(c)'
    BY <1>8
  <2> QED BY <1>1, <1>2, <1>4, <1>8, <2>1 DEF Local, DelAt
<1>10. DetachAt(c)'
  <2>1. \A x \in {"delLink", "delJump", "clear", "delChain"} : x \in Rest(c) <=> x \in Rest(c)'
    BY <1>8
  <2>2. Removable(c)' <=> Removable(c)
    BY <1>1 DEF Removable, HasVeth
  <2> QED BY <1>1, <1>2, <1>8, <2>1, <2>2 DEF Local, DetachAt
<1>11. Local(c)'
  BY <1>8, <1>9, <1>10 DEF Local
<1> QED BY <1>5, <1>6, <1>8, <1>11, Together

(* The interface goes, with its address and its port.                      *)
LEMMA DelLinkKeeps ==
    ASSUME PInv, NEW c \in Containers, DelLink(c) PROVE PInv'
<1>1. /\ At(c, "delLink") /\ todo' = [todo EXCEPT ![c] = Tail(@)] /\ NoFault
      /\ links' = [links EXCEPT ![c] = @ \ {"if"}] /\ addrs' = [addrs EXCEPT ![c] = {}]
      /\ joined' = joined \ {c} /\ bridge' = bridge /\ brAddrs' = brAddrs /\ netns' = netns
      /\ held' = held /\ nat' = nat /\ ip' = ip /\ seen' = seen /\ status' = status
      /\ raced' = raced
  BY DEF DelLink, StepDone, Continue
<1>2. Types /\ Local(c) /\ Counted /\ "delLink" \in DelSteps
  BY <1>1, CountersKeep DEF PInv, DelSteps
<1>3. /\ todo' \in [Containers -> Seq(StepNames)] /\ todo'[c] = Tail(todo[c])
      /\ \A d \in Containers : d # c => todo'[d] = todo[d]
  BY <1>1, <1>2, TailTypes
<1>4. /\ links'[c] = links[c] \ {"if"} /\ addrs'[c] = {}
      /\ (\A d \in Containers : d # c => links'[d] = links[d])
      /\ (\A d \in Containers : d # c => addrs'[d] = addrs[d])
  BY <1>1, <1>2 DEF Types
<1>5. Frame(c)
  BY <1>1, <1>2, <1>3, <1>4 DEF Frame, Counted
<1>6. Types'
  BY <1>1, <1>2, <1>3 DEF Types, Counted
<1>7. Taken(c, "delLink")
  BY <1>1, <1>3 DEF Taken
<1>8. /\ Rest(c)' \subseteq Rest(c) /\ Rest(c) \subseteq Rest(c)' \cup {"delLink"}
      /\ (\A y \in Rest(c)' : MayFollow("delLink", y)) /\ "delLink" \in Rest(c)
      /\ "delLink" \notin Rest(c)' /\ Deleting(c) /\ Deleting(c)'
      /\ (HasNetns(c)' <=> HasNetns(c)) /\ status'[c] = status[c] /\ OrderAt(c)'
      /\ CommandAt(c)' /\ IdleAt(c)' /\ AttachedAt(c)' /\ NoneAt(c)' /\ BrokenAt(c)'
      /\ AddAt(c)' /\ GatewayAt(c)' /\ BridgeOK' /\ HeldOnce' /\ TmpAt(c)'
  BY <1>1, <1>2, <1>4, <1>5, <1>7, DelStep
<1>9. ContainerAt(c)'
  BY <1>1, <1>2, <1>4, <1>8 DEF Local, ContainerAt
<1>10. DelAt(c)'
  <2>1. \A x \in {"ipamDel", "delChain"} : x \in Rest(c) <=> x \in Rest(c)'
    BY <1>8
  <2> QED BY <1>1, <1>2, <1>4, <1>8, <2>1 DEF Local, DelAt
<1>11. DetachAt(c)'
  <2>1. \A x \in {"delJump", "clear", "delChain"} : x \in Rest(c) <=> x \in Rest(c)'
    BY <1>8
  <2> QED BY <1>1, <1>2, <1>8, <2>1 DEF Local, DetachAt
<1>12. Local(c)'
  BY <1>8, <1>9, <1>10, <1>11 DEF Local
<1> QED BY <1>5, <1>6, <1>8, <1>12, Together

(* The chain is yet to be cleared when the jump to it goes.                *)
LEMMA DeleteJumpKeeps ==
    ASSUME PInv, NEW c \in Containers, DeleteJump(c) PROVE PInv'
<1>1. /\ At(c, "delJump") /\ todo' = [todo EXCEPT ![c] = Tail(@)] /\ NoFault
      /\ nat' = [nat EXCEPT ![c] = @ \ {"jump"}] /\ bridge' = bridge /\ brAddrs' = brAddrs
      /\ netns' = netns /\ links' = links /\ addrs' = addrs /\ joined' = joined /\ held' = held
      /\ ip' = ip /\ seen' = seen /\ status' = status /\ raced' = raced
  BY DEF DeleteJump, StepDone, Continue
<1>2. Types /\ Local(c) /\ Counted /\ "delJump" \in DelSteps
  BY <1>1, CountersKeep DEF PInv, DelSteps
<1>3. /\ todo' \in [Containers -> Seq(StepNames)] /\ todo'[c] = Tail(todo[c])
      /\ \A d \in Containers : d # c => todo'[d] = todo[d]
  BY <1>1, <1>2, TailTypes
<1>4. /\ nat'[c] = nat[c] \ {"jump"} /\ (\A d \in Containers : d # c => nat'[d] = nat[d])
  BY <1>1, <1>2 DEF Types
<1>5. Frame(c)
  BY <1>1, <1>2, <1>3, <1>4 DEF Frame, Counted
<1>6. Types'
  BY <1>1, <1>2, <1>3 DEF Types, Counted, NatRules
<1>7. Taken(c, "delJump")
  BY <1>1, <1>3 DEF Taken
<1>8. /\ Rest(c)' \subseteq Rest(c) /\ Rest(c) \subseteq Rest(c)' \cup {"delJump"}
      /\ (\A y \in Rest(c)' : MayFollow("delJump", y)) /\ "delJump" \in Rest(c)
      /\ "delJump" \notin Rest(c)' /\ Deleting(c) /\ Deleting(c)'
      /\ (HasNetns(c)' <=> HasNetns(c)) /\ status'[c] = status[c] /\ OrderAt(c)'
      /\ CommandAt(c)' /\ IdleAt(c)' /\ AttachedAt(c)' /\ NoneAt(c)' /\ BrokenAt(c)'
      /\ AddAt(c)' /\ GatewayAt(c)' /\ BridgeOK' /\ HeldOnce' /\ TmpAt(c)'
  BY <1>1, <1>2, <1>4, <1>5, <1>7, DelStep
<1>9. ContainerAt(c)'
  BY <1>1, <1>2, <1>4, <1>8 DEF Local, ContainerAt
<1>10. DelAt(c)'
  <2>1. \A x \in {"ipamDel", "delLink", "delChain"} : x \in Rest(c) <=> x \in Rest(c)'
    BY <1>8
  <2> QED BY <1>1, <1>2, <1>4, <1>8, <2>1 DEF Local, DelAt
<1>11. DetachAt(c)'
  <2>1. \A x \in {"delLink", "clear", "delChain"} : x \in Rest(c) <=> x \in Rest(c)'
    BY <1>8
  <2>2. Removable(c)' <=> Removable(c)
    BY <1>1 DEF Removable, HasVeth
  <2>3. "clear" \in Rest(c)
    BY <1>2, <1>8 DEF Local, CommandAt
  <2> QED BY <1>1, <1>2, <1>4, <1>8, <2>1, <2>2, <2>3 DEF Local, DetachAt
<1>12. Local(c)'
  BY <1>8, <1>9, <1>10, <1>11 DEF Local
<1> QED BY <1>5, <1>6, <1>8, <1>12, Together

(* The jump has gone, and the chain is left alone.                         *)
LEMMA ClearChainKeeps ==
    ASSUME PInv, NEW c \in Containers, ClearChain(c) PROVE PInv'
<1>1. /\ At(c, "clear") /\ todo' = [todo EXCEPT ![c] = Tail(@)] /\ NoFault
      /\ nat' = [nat EXCEPT ![c] = (@ \ {"accept", "masquerade"}) \cup {"chain"}]
      /\ bridge' = bridge /\ brAddrs' = brAddrs /\ netns' = netns /\ links' = links
      /\ addrs' = addrs /\ joined' = joined /\ held' = held /\ ip' = ip /\ seen' = seen
      /\ status' = status /\ raced' = raced
  BY DEF ClearChain, StepDone, Continue
<1>2. Types /\ Local(c) /\ Counted /\ "clear" \in DelSteps
  BY <1>1, CountersKeep DEF PInv, DelSteps
<1>3. /\ todo' \in [Containers -> Seq(StepNames)] /\ todo'[c] = Tail(todo[c])
      /\ \A d \in Containers : d # c => todo'[d] = todo[d]
  BY <1>1, <1>2, TailTypes
<1>4. /\ nat'[c] = (nat[c] \ {"accept", "masquerade"}) \cup {"chain"}
      /\ (\A d \in Containers : d # c => nat'[d] = nat[d])
  BY <1>1, <1>2 DEF Types
<1>5. Frame(c)
  BY <1>1, <1>2, <1>3, <1>4 DEF Frame, Counted
<1>6. Types'
  BY <1>1, <1>2, <1>3 DEF Types, Counted, NatRules
<1>7. Taken(c, "clear")
  BY <1>1, <1>3 DEF Taken
<1>8. /\ Rest(c)' \subseteq Rest(c) /\ Rest(c) \subseteq Rest(c)' \cup {"clear"}
      /\ (\A y \in Rest(c)' : MayFollow("clear", y)) /\ "clear" \in Rest(c)
      /\ "clear" \notin Rest(c)' /\ Deleting(c) /\ Deleting(c)'
      /\ (HasNetns(c)' <=> HasNetns(c)) /\ status'[c] = status[c] /\ OrderAt(c)'
      /\ CommandAt(c)' /\ IdleAt(c)' /\ AttachedAt(c)' /\ NoneAt(c)' /\ BrokenAt(c)'
      /\ AddAt(c)' /\ GatewayAt(c)' /\ BridgeOK' /\ HeldOnce' /\ TmpAt(c)'
  BY <1>1, <1>2, <1>4, <1>5, <1>7, DelStep
<1>9. ContainerAt(c)'
  <2>1. ConfOf[c].ipMasq
    BY <1>2, <1>8 DEF Local, CommandAt
  <2> QED BY <1>1, <1>2, <1>8, <2>1 DEF Local, ContainerAt
<1>10. DelAt(c)'
  <2>1. \A x \in {"ipamDel", "delLink", "delChain"} : x \in Rest(c) <=> x \in Rest(c)'
    BY <1>8
  <2>2. "delChain" \in Rest(c)
    BY <1>2, <1>8 DEF Local, CommandAt
  <2> QED BY <1>1, <1>2, <1>4, <1>8, <2>1, <2>2 DEF Local, DelAt
<1>11. DetachAt(c)'
  <2>1. \A x \in {"delLink", "delJump", "delChain"} : x \in Rest(c) <=> x \in Rest(c)'
    BY <1>8
  <2>2. Removable(c)' <=> Removable(c)
    BY <1>1 DEF Removable, HasVeth
  <2>3. "delJump" \notin Rest(c)
    BY <1>8 DEF MayFollow
  <2>4. "jump" \notin nat[c] => nat'[c] = {"chain"}
    BY <1>2, <1>4 DEF Types, NatRules
  <2> QED BY <1>1, <1>2, <1>4, <1>8, <2>1, <2>2, <2>3, <2>4 DEF Local, DetachAt
<1>12. Local(c)'
  BY <1>8, <1>9, <1>10, <1>11 DEF Local
<1> QED BY <1>5, <1>6, <1>8, <1>12, Together

(* The chain goes, and nothing of the masquerading is left.                *)
LEMMA ChainDeletedKeeps ==
    ASSUME PInv, NEW c \in Containers, nat[c] = {"chain"}, DeleteChain(c) PROVE PInv'
<1>1. /\ At(c, "delChain") /\ todo' = [todo EXCEPT ![c] = Tail(@)] /\ NoFault
      /\ nat' = [nat EXCEPT ![c] = {}] /\ bridge' = bridge /\ brAddrs' = brAddrs
      /\ netns' = netns /\ links' = links /\ addrs' = addrs /\ joined' = joined /\ held' = held
      /\ ip' = ip /\ seen' = seen /\ status' = status /\ raced' = raced
  BY DEF DeleteChain, StepDone, Continue
<1>2. Types /\ Local(c) /\ Counted /\ "delChain" \in DelSteps
  BY <1>1, CountersKeep DEF PInv, DelSteps
<1>3. /\ todo' \in [Containers -> Seq(StepNames)] /\ todo'[c] = Tail(todo[c])
      /\ \A d \in Containers : d # c => todo'[d] = todo[d]
  BY <1>1, <1>2, TailTypes
<1>4. /\ nat'[c] = {} /\ (\A d \in Containers : d # c => nat'[d] = nat[d])
  BY <1>1, <1>2 DEF Types
<1>5. Frame(c)
  BY <1>1, <1>2, <1>3, <1>4 DEF Frame, Counted
<1>6. Types'
  BY <1>1, <1>2, <1>3 DEF Types, Counted, NatRules
<1>7. Taken(c, "delChain")
  BY <1>1, <1>3 DEF Taken
<1>8. /\ Rest(c)' \subseteq Rest(c) /\ Rest(c) \subseteq Rest(c)' \cup {"delChain"}
      /\ (\A y \in Rest(c)' : MayFollow("delChain", y)) /\ "delChain" \in Rest(c)
      /\ "delChain" \notin Rest(c)' /\ Deleting(c) /\ Deleting(c)'
      /\ (HasNetns(c)' <=> HasNetns(c)) /\ status'[c] = status[c] /\ OrderAt(c)'
      /\ CommandAt(c)' /\ IdleAt(c)' /\ AttachedAt(c)' /\ NoneAt(c)' /\ BrokenAt(c)'
      /\ AddAt(c)' /\ GatewayAt(c)' /\ BridgeOK' /\ HeldOnce' /\ TmpAt(c)'
  BY <1>1, <1>2, <1>4, <1>5, <1>7, DelStep
<1>9. ContainerAt(c)'
  BY <1>1, <1>2, <1>4, <1>8 DEF Local, ContainerAt
<1>10. DelAt(c)'
  <2>1. \A x \in {"ipamDel", "delLink"} : x \in Rest(c) <=> x \in Rest(c)'
    BY <1>8
  <2> QED BY <1>1, <1>2, <1>4, <1>8, <2>1 DEF Local, DelAt
<1>11. DetachAt(c)'
  <2>1. \A x \in {"delLink"} : x \in Rest(c) <=> x \in Rest(c)'
    BY <1>8
  <2>2. Removable(c)' <=> Removable(c)
    BY <1>1 DEF Removable, HasVeth
  <2>3. "delJump" \notin Rest(c)' /\ "clear" \notin Rest(c)'
    BY <1>8 DEF MayFollow
  <2> QED BY <1>1, <1>2, <1>8, <2>1, <2>2, <2>3 DEF Local, DetachAt
<1>12. Local(c)'
  BY <1>8, <1>9, <1>10, <1>11 DEF Local
<1> QED BY <1>5, <1>6, <1>8, <1>12, Together

(* The chain cannot be deleted, which is not that of an attachment.        *)
LEMMA DeleteChainKeeps ==
    ASSUME PInv, NEW c \in Containers, DeleteChain(c) PROVE PInv'
<1>1. CASE nat[c] = {"chain"}
  BY <1>1, ChainDeletedKeeps
<1>2. CASE nat[c] # {"chain"}
  <2>1. At(c, "delChain") /\ Fail(c) /\ UNCHANGED kernel /\ NoFault
    BY <1>2 DEF DeleteChain, kernel
  <2>2. /\ todo[c] \in Seq(StepNames) /\ todo[c] # <<>> /\ Head(todo[c]) = "delChain"
        /\ Ordered(todo[c])
        /\ DetachAt(c)
    BY <2>1 DEF PInv, Types, At, Live, Local, OrderAt
  <2>3. /\ Rest(c) = {"delChain"} \cup Steps(Tail(todo[c]))
        /\ \A y \in Steps(Tail(todo[c])) : MayFollow("delChain", y)
    BY <2>2, TakeStep DEF Rest
  <2>4. "delChain" \in Rest(c) /\ "delJump" \notin Rest(c) /\ "clear" \notin Rest(c)
    BY <2>3 DEF MayFollow
  <2>5. status[c] # "detaching"
    BY <1>2, <2>2, <2>4 DEF DetachAt
  <2> QED BY <2>1, <2>5, ErrorKeeps, PlainSteps DEF DelSteps
<1> QED BY <1>1, <1>2
-----------------------------------------------------------------------------
(* The scripts of the commands                                             *)

(* No address is the name of a step.                                       *)
LEMMA Names == \A x \in AddSteps \cup DelSteps : x \notin Addrs
BY InterfaceAssumption DEF InterfaceAssumption

(* A script of one step.                                                   *)
LEMMA Single ==
    ASSUME NEW x \in StepNames
    PROVE  /\ <<x>> \in Seq(StepNames) /\ Steps(<<x>>) = {x} /\ Ordered(<<x>>)
           /\ x # "gwScan" => ScanThenAdd(<<x>>)
<1>1. <<x>> \in Seq(StepNames) /\ Len(<<x>>) = 1 /\ <<x>>[1] = x
  OBVIOUS
<1>2. \A i \in 1 .. Len(<<x>>) : i = 1
  BY <1>1
<1>3. Steps(<<x>>) = {x}
  BY <1>1, <1>2 DEF Steps
<1> QED BY <1>1, <1>2, <1>3 DEF Ordered, ScanThenAdd

(* The parts of which the scripts are made: bridge ...                     *)
LEMMA BridgeScript ==
    LET s == <<"bridge", "bridgeUp", "veth", "join", "settings", "ipam", "addr", "settings">>
    IN  /\ s \in Seq(StepNames) /\ Ordered(s) /\ ScanThenAdd(s)
        /\ Steps(s) = {"bridge", "bridgeUp", "veth", "join", "settings", "ipam", "addr"}
<1> DEFINE s == <<"bridge", "bridgeUp", "veth", "join", "settings", "ipam", "addr", "settings">>
<1>1. /\ s \in Seq(StepNames) /\ Len(s) = 8
      /\ s[1] = "bridge" /\ s[2] = "bridgeUp" /\ s[3] = "veth" /\ s[4] = "join"
      /\ s[5] = "settings" /\ s[6] = "ipam" /\ s[7] = "addr" /\ s[8] = "settings"
  BY DEF StepNames, AddSteps, DelSteps
<1>2. \A i \in 1 .. Len(s) : i = 1 \/ i = 2 \/ i = 3 \/ i = 4 \/ i = 5 \/ i = 6 \/ i = 7 \/ i = 8
  BY <1>1
<1>3. /\ 1 \in 1 .. Len(s) /\ 2 \in 1 .. Len(s) /\ 3 \in 1 .. Len(s) /\ 4 \in 1 .. Len(s)
      /\ 5 \in 1 .. Len(s) /\ 6 \in 1 .. Len(s) /\ 7 \in 1 .. Len(s) /\ 8 \in 1 .. Len(s)
  BY <1>1
<1> HIDE DEF s
<1>4. Steps(s) = {"bridge", "bridgeUp", "veth", "join", "settings", "ipam", "addr"}
  <2>1. \A i \in 1 .. Len(s) : s[i] \in {"bridge", "bridgeUp", "veth", "join", "settings", "ipam", "addr"}
    BY <1>1, <1>2
  <2> QED BY <1>1, <1>3, <2>1 DEF Steps
<1>5. ScanThenAdd(s)
  BY <1>1, <1>2, <1>3 DEF ScanThenAdd
<1>6. ASSUME NEW i \in 1 .. Len(s), NEW j \in 1 .. Len(s), i < j PROVE MayFollow(s[i], s[j])
  BY <1>1, <1>2, <1>6, Names DEF MayFollow, AddSteps, DelSteps
<1> QED BY <1>1, <1>4, <1>5, <1>6 DEF Ordered, s

(* ensureBridgeAddr                                                        *)
LEMMA GatewayScript ==
    LET s == <<"gwList", "gwScan", "gwAdd", "settings">>
    IN  /\ s \in Seq(StepNames) /\ Ordered(s) /\ ScanThenAdd(s)
        /\ Steps(s) = {"gwList", "gwScan", "gwAdd", "settings"}
<1> DEFINE s == <<"gwList", "gwScan", "gwAdd", "settings">>
<1>1. /\ s \in Seq(StepNames) /\ Len(s) = 4
      /\ s[1] = "gwList" /\ s[2] = "gwScan" /\ s[3] = "gwAdd" /\ s[4] = "settings"
  BY DEF StepNames, AddSteps, DelSteps
<1>2. \A i \in 1 .. Len(s) : i = 1 \/ i = 2 \/ i = 3 \/ i = 4
  BY <1>1
<1>3. 1 \in 1 .. Len(s) /\ 2 \in 1 .. Len(s) /\ 3 \in 1 .. Len(s) /\ 4 \in 1 .. Len(s)
  BY <1>1
<1> HIDE DEF s
<1>4. Steps(s) = {"gwList", "gwScan", "gwAdd", "settings"}
  <2>1. \A i \in 1 .. Len(s) : s[i] \in {"gwList", "gwScan", "gwAdd", "settings"}
    BY <1>1, <1>2
  <2> QED BY <1>1, <1>3, <2>1 DEF Steps
<1>5. ScanThenAdd(s)
  BY <1>1, <1>2, <1>3 DEF ScanThenAdd
<1>6. ASSUME NEW i \in 1 .. Len(s), NEW j \in 1 .. Len(s), i < j PROVE MayFollow(s[i], s[j])
  BY <1>1, <1>2, <1>6, Names DEF MayFollow, AddSteps, DelSteps
<1> QED BY <1>1, <1>4, <1>5, <1>6 DEF Ordered, s

(* SetupIPMasq                                                             *)
LEMMA MasqScript ==
    LET s == <<"chain", "accept", "masquerade", "jump">>
    IN  /\ s \in Seq(StepNames) /\ Ordered(s) /\ ScanThenAdd(s)
        /\ Steps(s) = {"chain", "accept", "masquerade", "jump"}
<1> DEFINE s == <<"chain", "accept", "masquerade", "jump">>
<1>1. /\ s \in Seq(StepNames) /\ Len(s) = 4
      /\ s[1] = "chain" /\ s[2] = "accept" /\ s[3] = "masquerade" /\ s[4] = "jump"
  BY DEF StepNames, AddSteps, DelSteps
<1>2. \A i \in 1 .. Len(s) : i = 1 \/ i = 2 \/ i = 3 \/ i = 4
  BY <1>1
<1>3. 1 \in 1 .. Len(s) /\ 2 \in 1 .. Len(s) /\ 3 \in 1 .. Len(s) /\ 4 \in 1 .. Len(s)
  BY <1>1
<1> HIDE DEF s
<1>4. Steps(s) = {"chain", "accept", "masquerade", "jump"}
  <2>1. \A i \in 1 .. Len(s) : s[i] \in {"chain", "accept", "masquerade", "jump"}
    BY <1>1, <1>2
  <2> QED BY <1>1, <1>3, <2>1 DEF Steps
<1>5. ScanThenAdd(s)
  BY <1>1, <1>2, <1>3 DEF ScanThenAdd
<1>6. ASSUME NEW i \in 1 .. Len(s), NEW j \in 1 .. Len(s), i < j PROVE MayFollow(s[i], s[j])
  BY <1>1, <1>2, <1>6, Names DEF MayFollow, AddSteps, DelSteps
<1> QED BY <1>1, <1>4, <1>5, <1>6 DEF Ordered, s

(* ptp                                                                     *)
LEMMA PtpScript ==
    LET s == <<"settings", "ipam", "veth", "settings", "addr", "settings">>
    IN  /\ s \in Seq(StepNames) /\ Ordered(s) /\ ScanThenAdd(s)
        /\ Steps(s) = {"settings", "ipam", "veth", "addr"}
<1> DEFINE s == <<"settings", "ipam", "veth", "settings", "addr", "settings">>
<1>1. /\ s \in Seq(StepNames) /\ Len(s) = 6
      /\ s[1] = "settings" /\ s[2] = "ipam" /\ s[3] = "veth" /\ s[4] = "settings" /\ s[5] = "addr"
      /\ s[6] = "settings"
  BY DEF StepNames, AddSteps, DelSteps
<1>2. \A i \in 1 .. Len(s) : i = 1 \/ i = 2 \/ i = 3 \/ i = 4 \/ i = 5 \/ i = 6
  BY <1>1
<1>3. /\ 1 \in 1 .. Len(s) /\ 2 \in 1 .. Len(s) /\ 3 \in 1 .. Len(s) /\ 4 \in 1 .. Len(s)
      /\ 5 \in 1 .. Len(s) /\ 6 \in 1 .. Len(s)
  BY <1>1
<1> HIDE DEF s
<1>4. Steps(s) = {"settings", "ipam", "veth", "addr"}
  <2>1. \A i \in 1 .. Len(s) : s[i] \in {"settings", "ipam", "veth", "addr"}
    BY <1>1, <1>2
  <2> QED BY <1>1, <1>3, <2>1 DEF Steps
<1>5. ScanThenAdd(s)
  BY <1>1, <1>2, <1>3 DEF ScanThenAdd
<1>6. ASSUME NEW i \in 1 .. Len(s), NEW j \in 1 .. Len(s), i < j PROVE MayFollow(s[i], s[j])
  BY <1>1, <1>2, <1>6, Names DEF MayFollow, AddSteps, DelSteps
<1> QED BY <1>1, <1>4, <1>5, <1>6 DEF Ordered, s

(* macvlan                                                                 *)
LEMMA MacvlanScript ==
    LET s == <<"settings", "tmp", "arp", "rename", "ipam", "settings", "addr", "settings", "print">>
    IN  /\ s \in Seq(StepNames) /\ Ordered(s) /\ ScanThenAdd(s)
        /\ Steps(s) = {"settings", "tmp", "arp", "rename", "ipam", "addr", "print"}
<1> DEFINE s == <<"settings", "tmp", "arp", "rename", "ipam", "settings", "addr", "settings", "print">>
<1>1. /\ s \in Seq(StepNames) /\ Len(s) = 9
      /\ s[1] = "settings" /\ s[2] = "tmp" /\ s[3] = "arp" /\ s[4] = "rename" /\ s[5] = "ipam"
      /\ s[6] = "settings" /\ s[7] = "addr" /\ s[8] = "settings" /\ s[9] = "print"
  BY DEF StepNames, AddSteps, DelSteps
<1>2. \A i \in 1 .. Len(s) : i = 1 \/ i = 2 \/ i = 3 \/ i = 4 \/ i = 5 \/ i = 6 \/ i = 7 \/ i = 8 \/ i = 9
  BY <1>1
<1>3. /\ 1 \in 1 .. Len(s) /\ 2 \in 1 .. Len(s) /\ 3 \in 1 .. Len(s) /\ 4 \in 1 .. Len(s)
      /\ 5 \in 1 .. Len(s) /\ 6 \in 1 .. Len(s) /\ 7 \in 1 .. Len(s) /\ 8 \in 1 .. Len(s)
      /\ 9 \in 1 .. Len(s)
  BY <1>1
<1> HIDE DEF s
<1>4. Steps(s) = {"settings", "tmp", "arp", "rename", "ipam", "addr", "print"}
  <2>1. \A i \in 1 .. Len(s) : s[i] \in {"settings", "tmp", "arp", "rename", "ipam", "addr", "print"}
    BY <1>1, <1>2
  <2> QED BY <1>1, <1>3, <2>1 DEF Steps
<1>5. ScanThenAdd(s)
  BY <1>1, <1>2, <1>3 DEF ScanThenAdd
<1>6. ASSUME NEW i \in 1 .. Len(s), NEW j \in 1 .. Len(s), i < j PROVE MayFollow(s[i], s[j])
  BY <1>1, <1>2, <1>6, Names DEF MayFollow, AddSteps, DelSteps
<1> QED BY <1>1, <1>4, <1>5, <1>6 DEF Ordered, s

(* ipvlan                                                                  *)
LEMMA IpvlanScript ==
    LET s == <<"settings", "tmp", "rename", "ipam", "addr", "settings", "print">>
    IN  /\ s \in Seq(StepNames) /\ Ordered(s) /\ ScanThenAdd(s)
        /\ Steps(s) = {"settings", "tmp", "rename", "ipam", "addr", "print"}
<1> DEFINE s == <<"settings", "tmp", "rename", "ipam", "addr", "settings", "print">>
<1>1. /\ s \in Seq(StepNames) /\ Len(s) = 7
      /\ s[1] = "settings" /\ s[2] = "tmp" /\ s[3] = "rename" /\ s[4] = "ipam" /\ s[5] = "addr"
      /\ s[6] = "settings" /\ s[7] = "print"
  BY DEF StepNames, AddSteps, DelSteps
<1>2. \A i \in 1 .. Len(s) : i = 1 \/ i = 2 \/ i = 3 \/ i = 4 \/ i = 5 \/ i = 6 \/ i = 7
  BY <1>1
<1>3. /\ 1 \in 1 .. Len(s) /\ 2 \in 1 .. Len(s) /\ 3 \in 1 .. Len(s) /\ 4 \in 1 .. Len(s)
      /\ 5 \in 1 .. Len(s) /\ 6 \in 1 .. Len(s) /\ 7 \in 1 .. Len(s)
  BY <1>1
<1> HIDE DEF s
<1>4. Steps(s) = {"settings", "tmp", "rename", "ipam", "addr", "print"}
  <2>1. \A i \in 1 .. Len(s) : s[i] \in {"settings", "tmp", "rename", "ipam", "addr", "print"}
    BY <1>1, <1>2
  <2> QED BY <1>1, <1>3, <2>1 DEF Steps
<1>5. ScanThenAdd(s)
  BY <1>1, <1>2, <1>3 DEF ScanThenAdd
<1>6. ASSUME NEW i \in 1 .. Len(s), NEW j \in 1 .. Len(s), i < j PROVE MayFollow(s[i], s[j])
  BY <1>1, <1>2, <1>6, Names DEF MayFollow, AddSteps, DelSteps
<1> QED BY <1>1, <1>4, <1>5, <1>6 DEF Ordered, s

(* TeardownIPMasq                                                          *)
LEMMA TeardownScript ==
    LET s == <<"delJump", "clear", "delChain">>
    IN  /\ s \in Seq(StepNames) /\ Ordered(s) /\ ScanThenAdd(s)
        /\ Steps(s) = {"delJump", "clear", "delChain"}
<1> DEFINE s == <<"delJump", "clear", "delChain">>
<1>1. /\ s \in Seq(StepNames) /\ Len(s) = 3
      /\ s[1] = "delJump" /\ s[2] = "clear" /\ s[3] = "delChain"
  BY DEF StepNames, AddSteps, DelSteps
<1>2. \A i \in 1 .. Len(s) : i = 1 \/ i = 2 \/ i = 3
  BY <1>1
<1>3. 1 \in 1 .. Len(s) /\ 2 \in 1 .. Len(s) /\ 3 \in 1 .. Len(s)
  BY <1>1
<1> HIDE DEF s
<1>4. Steps(s) = {"delJump", "clear", "delChain"}
  <2>1. \A i \in 1 .. Len(s) : s[i] \in {"delJump", "clear", "delChain"}
    BY <1>1, <1>2
  <2> QED BY <1>1, <1>3, <2>1 DEF Steps
<1>5. ScanThenAdd(s)
  BY <1>1, <1>2, <1>3 DEF ScanThenAdd
<1>6. ASSUME NEW i \in 1 .. Len(s), NEW j \in 1 .. Len(s), i < j PROVE MayFollow(s[i], s[j])
  BY <1>1, <1>2, <1>6, Names DEF MayFollow, AddSteps, DelSteps
<1> QED BY <1>1, <1>4, <1>5, <1>6 DEF Ordered, s

(* A script of none.                                                       *)
LEMMA EmptyScript == <<>> \in Seq(StepNames) /\ Steps(<<>>) = {} /\ Ordered(<<>>) /\ ScanThenAdd(<<>>)
BY NoSteps

(* A well-formed script.                                                   *)
Script(s) == s \in Seq(StepNames) /\ Ordered(s) /\ ScanThenAdd(s)

(* One script after another is a script.                                   *)
LEMMA Joined ==
    ASSUME NEW s, NEW t, Script(s), Script(t), \A x \in Steps(s), y \in Steps(t) : MayFollow(x, y)
    PROVE  Script(s \o t) /\ Steps(s \o t) = Steps(s) \cup Steps(t)
BY Concatenated DEF Script

(* What every ADD has to do.                                               *)
LEMMA AddScriptSteps ==
    ASSUME NEW c \in Containers
    PROVE  /\ Script(AddScript(c)) /\ Steps(AddScript(c)) \subseteq AddSteps \ {"undo"}
           /\ {"ipam", "addr", "print"} \subseteq Steps(AddScript(c))
           /\ "veth" \in Steps(AddScript(c)) \/ "rename" \in Steps(AddScript(c))
           /\ "bridge" \in Steps(AddScript(c)) => "bridgeUp" \in Steps(AddScript(c))
           /\ "tmp" \in Steps(AddScript(c)) => "rename" \in Steps(AddScript(c))
           /\ ConfOf[c].plugin = "bridge" => "join" \in Steps(AddScript(c))
           /\ ConfOf[c].isGW => "gwAdd" \in Steps(AddScript(c))
           /\ ConfOf[c].ipMasq => NatRules \subseteq Steps(AddScript(c))
           /\ ~ ConfOf[c].ipMasq => Steps(AddScript(c)) \cap NatRules = {}
<1>1. /\ ConfOf[c].plugin \in Plugins /\ (ConfOf[c].isGW => ConfOf[c].plugin = "bridge")
      /\ ConfOf[c].ipMasq => ConfOf[c].plugin \in {"bridge", "ptp"}
      /\ ConfOf[c].isGW \in BOOLEAN /\ ConfOf[c].ipMasq \in BOOLEAN
  BY InterfaceAssumption DEF InterfaceAssumption, Config
<1>2. Script(<<"print">>) /\ Steps(<<"print">>) = {"print"}
  BY Single DEF Script, StepNames, AddSteps
<1>3. /\ Script(SetupIPMasq(c))
      /\ Steps(SetupIPMasq(c)) = IF ConfOf[c].ipMasq THEN NatRules ELSE {}
  BY <1>1, MasqScript, EmptyScript DEF SetupIPMasq, Script, NatRules
<1>4. /\ Script(SetupIPMasq(c) \o <<"print">>)
      /\ Steps(SetupIPMasq(c) \o <<"print">>) = (IF ConfOf[c].ipMasq THEN NatRules ELSE {}) \cup {"print"}
  <2>1. \A x \in NatRules, y \in {"print"} : MayFollow(x, y)
    BY Names DEF NatRules, MayFollow, AddSteps, DelSteps
  <2> QED BY <1>2, <1>3, <2>1, Joined
<1>5. CASE ConfOf[c].plugin = "bridge"
  <2> DEFINE b == <<"bridge", "bridgeUp", "veth", "join", "settings", "ipam", "addr", "settings">>
  <2> DEFINE B == {"bridge", "bridgeUp", "veth", "join", "settings", "ipam", "addr"}
  <2> DEFINE G == IF ConfOf[c].isGW THEN {"gwList", "gwScan", "gwAdd", "settings"} ELSE {}
  <2> DEFINE N == IF ConfOf[c].ipMasq THEN NatRules ELSE {}
  <2>1. Script(b) /\ Steps(b) = B
    BY BridgeScript DEF Script
  <2>2. Script(BridgeGateway(c)) /\ Steps(BridgeGateway(c)) = G
    BY <1>1, GatewayScript, EmptyScript DEF BridgeGateway, Script
  <2>3. AddScript(c) = ((b \o BridgeGateway(c)) \o SetupIPMasq(c)) \o <<"print">>
    BY <1>5 DEF AddScript, BridgeAdd
  <2>4. Script(b \o BridgeGateway(c)) /\ Steps(b \o BridgeGateway(c)) = B \cup G
    <3>1. \A x \in B, y \in {"gwList", "gwScan", "gwAdd", "settings"} : MayFollow(x, y)
      BY Names DEF MayFollow, AddSteps, DelSteps
    <3>2. \A x \in B, y \in G : MayFollow(x, y)
      BY <3>1
    <3> HIDE DEF b, B, G
    <3> QED BY <2>1, <2>2, <3>2, Joined
  <2>5. /\ Script((b \o BridgeGateway(c)) \o SetupIPMasq(c))
        /\ Steps((b \o BridgeGateway(c)) \o SetupIPMasq(c)) = B \cup G \cup N
    <3>1. \A x \in B \cup {"gwList", "gwScan", "gwAdd", "settings"}, y \in NatRules : MayFollow(x, y)
      BY Names DEF MayFollow, AddSteps, DelSteps, NatRules
    <3>2. \A x \in B \cup G, y \in N : MayFollow(x, y)
      BY <3>1
    <3>3. Script(SetupIPMasq(c)) /\ Steps(SetupIPMasq(c)) = N
      BY <1>3
    <3> HIDE DEF b, B, G, N
    <3> QED BY <2>4, <3>2, <3>3, Joined
  <2>6. Script(AddScript(c)) /\ Steps(AddScript(c)) = B \cup G \cup N \cup {"print"}
    <3>1. \A x \in B \cup {"gwList", "gwScan", "gwAdd", "settings"} \cup NatRules, y \in {"print"} :
            MayFollow(x, y)
      BY Names DEF MayFollow, AddSteps, DelSteps, NatRules
    <3>2. \A x \in B \cup G \cup N, y \in {"print"} : MayFollow(x, y)
      BY <3>1
    <3> HIDE DEF b, B, G, N
    <3> QED BY <1>2, <2>3, <2>5, <3>2, Joined
  <2>7. B \cup G \cup N \cup {"print"} \subseteq AddSteps \ {"undo"}
    BY DEF AddSteps, NatRules
  <2>8. {"ipam", "addr", "print", "veth", "bridgeUp", "join"} \subseteq B \cup {"print"}
    OBVIOUS
  <2>9. /\ ConfOf[c].isGW => "gwAdd" \in G
        /\ ConfOf[c].ipMasq => NatRules \subseteq N
        /\ ~ ConfOf[c].ipMasq => (B \cup G \cup N \cup {"print"}) \cap NatRules = {}
        /\ "tmp" \notin B \cup G \cup N \cup {"print"}
    BY DEF NatRules
  <2> HIDE DEF b, B, G, N
  <2> QED BY <2>6, <2>7, <2>8, <2>9
<1>6. CASE ConfOf[c].plugin = "ptp"
  <2> DEFINE p == <<"settings", "ipam", "veth", "settings", "addr", "settings">>
  <2> DEFINE P == {"settings", "ipam", "veth", "addr"}
  <2> DEFINE N == IF ConfOf[c].ipMasq THEN NatRules ELSE {}
  <2>1. Script(p) /\ Steps(p) = P
    BY PtpScript DEF Script
  <2>2. AddScript(c) = (p \o SetupIPMasq(c)) \o <<"print">>
    BY <1>6 DEF AddScript, PtpAdd
  <2>3. Script(p \o SetupIPMasq(c)) /\ Steps(p \o SetupIPMasq(c)) = P \cup N
    <3>1. \A x \in P, y \in NatRules : MayFollow(x, y)
      BY Names DEF MayFollow, AddSteps, DelSteps, NatRules
    <3>2. \A x \in P, y \in N : MayFollow(x, y)
      BY <3>1
    <3>3. Script(SetupIPMasq(c)) /\ Steps(SetupIPMasq(c)) = N
      BY <1>3
    <3> HIDE DEF p, P, N
    <3> QED BY <2>1, <3>2, <3>3, Joined
  <2>4. Script(AddScript(c)) /\ Steps(AddScript(c)) = P \cup N \cup {"print"}
    <3>1. \A x \in P \cup NatRules, y \in {"print"} :
            MayFollow(x, y)
      BY Names DEF MayFollow, AddSteps, DelSteps, NatRules
    <3>2. \A x \in P \cup N, y \in {"print"} : MayFollow(x, y)
      BY <3>1
    <3> HIDE DEF p, P, N
    <3> QED BY <1>2, <2>2, <2>3, <3>2, Joined
  <2>5. P \cup N \cup {"print"} \subseteq AddSteps \ {"undo"}
    BY DEF AddSteps, NatRules
  <2>6. {"ipam", "addr", "print", "veth"} \subseteq P \cup {"print"}
    OBVIOUS
  <2>7. /\ ConfOf[c].ipMasq => NatRules \subseteq N
        /\ ~ ConfOf[c].ipMasq => (P \cup N \cup {"print"}) \cap NatRules = {}
        /\ "tmp" \notin P \cup N \cup {"print"} /\ "bridge" \notin P \cup N \cup {"print"}
    BY DEF NatRules
  <2> HIDE DEF p, P, N
  <2> QED BY <1>1, <1>6, <2>4, <2>5, <2>6, <2>7
<1>7. CASE ConfOf[c].plugin = "macvlan"
  <2>1. AddScript(c) = MacvlanAdd
    BY <1>7 DEF AddScript
  <2>2. /\ Script(AddScript(c))
        /\ Steps(AddScript(c)) = {"settings", "tmp", "arp", "rename", "ipam", "addr", "print"}
    BY <2>1, MacvlanScript DEF MacvlanAdd, Script
  <2> QED BY <1>1, <1>7, <2>2 DEF AddSteps, NatRules
<1>8. CASE ConfOf[c].plugin = "ipvlan"
  <2>1. AddScript(c) = IpvlanAdd
    BY <1>8 DEF AddScript
  <2>2. /\ Script(AddScript(c))
        /\ Steps(AddScript(c)) = {"settings", "tmp", "rename", "ipam", "addr", "print"}
    BY <2>1, IpvlanScript DEF IpvlanAdd, Script
  <2> QED BY <1>1, <1>8, <2>2 DEF AddSteps, NatRules
<1> QED BY <1>1, <1>5, <1>6, <1>7, <1>8 DEF Plugins

(* What a DEL has to do, as long as there is a namespace.                  *)
LEMMA DelScriptSteps ==
    ASSUME NEW c \in Containers
    PROVE  /\ Script(DelScript(c)) /\ Steps(DelScript(c)) \subseteq DelSteps
           /\ {"ipamDel", "end"} \subseteq Steps(DelScript(c))
           /\ "delLink" \in Steps(DelScript(c)) <=> HasNetns(c)
           /\ \A x \in {"delJump", "clear", "delChain"} :
                x \in Steps(DelScript(c)) <=> HasNetns(c) /\ ConfOf[c].ipMasq
<1> DEFINE T == IF ConfOf[c].ipMasq THEN {"delJump", "clear", "delChain"} ELSE {}
<1> DEFINE m == IF ~ HasNetns(c) THEN <<>> ELSE IF HasVeth(c) THEN VethDel(c) ELSE VlanDel
<1> DEFINE M == IF HasNetns(c) THEN {"delLink"} \cup T ELSE {}
<1>1. ConfOf[c].ipMasq \in BOOLEAN /\ (ConfOf[c].ipMasq => HasVeth(c))
  BY InterfaceAssumption DEF InterfaceAssumption, Config, HasVeth
<1>2. /\ Script(<<"ipamDel">>) /\ Steps(<<"ipamDel">>) = {"ipamDel"}
      /\ Script(<<"delLink">>) /\ Steps(<<"delLink">>) = {"delLink"}
      /\ Script(<<"end">>) /\ Steps(<<"end">>) = {"end"}
  BY Single DEF Script, StepNames, DelSteps
<1>3. Script(TeardownIPMasq(c)) /\ Steps(TeardownIPMasq(c)) = T
  BY <1>1, TeardownScript, EmptyScript DEF TeardownIPMasq, Script
<1>4. Script(VethDel(c)) /\ Steps(VethDel(c)) = {"delLink"} \cup T
  <2>1. \A x \in {"delLink"}, y \in {"delJump", "clear", "delChain"} : MayFollow(x, y)
    BY Names DEF MayFollow, AddSteps, DelSteps
  <2>2. \A x \in {"delLink"}, y \in T : MayFollow(x, y)
    BY <2>1
  <2> HIDE DEF T
  <2> QED BY <1>2, <1>3, <2>2, Joined DEF VethDel
<1>5. Script(m) /\ Steps(m) = M
  BY <1>1, <1>2, <1>4, EmptyScript DEF VlanDel, Script
<1>6. DelScript(c) = (<<"ipamDel">> \o m) \o <<"end">>
  BY DEF DelScript
<1>7. \A x \in M : x \in {"delLink", "delJump", "clear", "delChain"}
  OBVIOUS
<1>8. Script(<<"ipamDel">> \o m) /\ Steps(<<"ipamDel">> \o m) = {"ipamDel"} \cup M
  <2>1. \A x \in {"ipamDel"}, y \in {"delLink", "delJump", "clear", "delChain"} : MayFollow(x, y)
    BY Names DEF MayFollow, AddSteps, DelSteps
  <2>2. \A x \in {"ipamDel"}, y \in M : MayFollow(x, y)
    BY <1>7, <2>1
  <2> HIDE DEF m, M
  <2> QED BY <1>2, <1>5, <2>2, Joined
<1>9. Script(DelScript(c)) /\ Steps(DelScript(c)) = {"ipamDel"} \cup M \cup {"end"}
  <2>1. \A x \in {"ipamDel", "delLink", "delJump", "clear", "delChain"}, y \in {"end"} : MayFollow(x, y)
    BY Names DEF MayFollow, AddSteps, DelSteps
  <2>2. \A x \in {"ipamDel"} \cup M, y \in {"end"} : MayFollow(x, y)
    BY <1>7, <2>1
  <2> DEFINE k == <<"ipamDel">> \o m
  <2> HIDE DEF m, M
  <2>3. Script(k) /\ Steps(k) = {"ipamDel"} \cup M /\ DelScript(c) = k \o <<"end">>
    BY <1>6, <1>8
  <2> HIDE DEF k
  <2> DEFINE e == <<"end">>
  <2>4. Script(e) /\ Steps(e) = {"end"} /\ DelScript(c) = k \o e
    BY <1>2, <2>3
  <2> HIDE DEF e
  <2>5. \A x \in Steps(k), y \in Steps(e) : MayFollow(x, y)
    BY <2>2, <2>3, <2>4
  <2>6. Script(k \o e) /\ Steps(k \o e) = Steps(k) \cup Steps(e)
    BY <2>3, <2>4, <2>5, Joined
  <2> QED BY <2>3, <2>4, <2>6
<1>10. {"ipamDel"} \cup M \cup {"end"} \subseteq DelSteps
  BY DEF DelSteps
<1>11. /\ "delLink" \in M <=> HasNetns(c)
       /\ \A x \in {"delJump", "clear", "delChain"} : x \in M <=> HasNetns(c) /\ ConfOf[c].ipMasq
  BY <1>1
<1> HIDE DEF m, M, T
<1> QED BY <1>9, <1>10, <1>11
-----------------------------------------------------------------------------
(* Temporary links                                                         *)

(* macvlan is about to remove the link that it cannot use.                 *)
LEMMA AbandonKeeps ==
    ASSUME PInv, NEW c \in Containers, NEW h \in {"rename", "arp"}, At(c, h), AbandonTmp(c),
           UNCHANGED kernel, (NoFault /\ h = "rename") \/ Fault
    PROVE  PInv'
<1>1. CASE ConfOf[c].plugin = "ipvlan" /\ Fail(c)
  <2>1. CASE NoFault /\ h = "rename"
    BY <1>1, <2>1, AddFails, PlainSteps
  <2>2. CASE Fault
    BY <1>1, <2>2, FaultKeeps
  <2> QED BY <2>1, <2>2
<1>2. CASE todo' = [todo EXCEPT ![c] = <<"undo">>] /\ UNCHANGED <<ip, seen, status, raced>>
  <2>1. Types /\ Local(c) /\ Counted
    BY CountersKeep DEF PInv
  <2>2. status[c] = "unknown" /\ Adding(c) /\ h \in Rest(c)
    BY <2>1, CommandOf DEF DelSteps
  <2>3. /\ <<"undo">> \in Seq(StepNames) /\ Steps(<<"undo">>) = {"undo"} /\ Ordered(<<"undo">>)
        /\ ScanThenAdd(<<"undo">>)
    BY Single DEF StepNames, AddSteps
  <2>4. /\ todo' \in [Containers -> Seq(StepNames)] /\ todo'[c] = <<"undo">>
        /\ \A d \in Containers : d # c => todo'[d] = todo[d]
    BY <1>2, <2>1, <2>3 DEF Types
  <2>5. /\ bridge' = bridge /\ brAddrs' = brAddrs /\ netns' = netns /\ links' = links
        /\ addrs' = addrs
        /\ joined' = joined /\ held' = held /\ nat' = nat
        /\ ip' = ip /\ seen' = seen /\ status' = status /\ raced' = raced
    BY <1>2 DEF kernel
  <2>6. Frame(c)
    BY <2>1, <2>4, <2>5 DEF Frame, Counted
  <2>7. Types'
    BY <2>1, <2>4, <2>5 DEF Types, Counted
  <2>8. /\ Rest(c)' = {"undo"} /\ Live(c)' /\ OrderAt(c)' /\ ~ Adding(c)' /\ ~ Deleting(c)'
        /\ Undoing(c)'
    <3>1. Rest(c)' = {"undo"}
      BY <2>3, <2>4 DEF Rest
    <3>2. Live(c)'
      BY <3>1, NoSteps DEF Live, Rest
    <3> QED BY <2>3, <2>4, <3>1, <3>2 DEF OrderAt, Adding, Deleting, Undoing
  <2>9. CommandAt(c)'
    <3>1. \A a \in Addrs : a # "undo"
      BY Names DEF AddSteps
    <3> QED BY <2>2, <2>5, <2>8, <3>1 DEF CommandAt, NatRules
  <2>10. GatewayAt(c)'
    <3>1. GatewayContested(c)' <=> GatewayContested(c)
      BY DEF GatewayContested
    <3> QED BY <2>1, <2>5, <2>8, <3>1 DEF Local, GatewayAt
  <2>11. /\ IdleAt(c)' /\ AttachedAt(c)' /\ NoneAt(c)' /\ DetachAt(c)' /\ AddAt(c)' /\ DelAt(c)'
         /\ TmpAt(c)'
         /\ BrokenAt(c)'
    BY <2>2, <2>5, <2>8 DEF IdleAt, AttachedAt, NoneAt, DetachAt, AddAt, DelAt, TmpAt, BrokenAt
  <2>12. ContainerAt(c)'
    BY <2>1, <2>5 DEF Local, ContainerAt, HasNetns
  <2>13. Local(c)'
    BY <2>8, <2>9, <2>10, <2>11, <2>12 DEF Local
  <2>14. {"bridgeUp", "gwUp"} \cap Rest(c) = {}
    <3>1. h \notin BridgeSteps
      BY Names DEF BridgeSteps, AddSteps
    <3> QED BY <3>1, NothingPending
  <2> QED BY <2>5, <2>6, <2>7, <2>13, <2>14, StillHeldOnce, StillUp, Together
<1> QED BY <1>1, <1>2 DEF AbandonTmp

(* The name of the interface is taken.                                     *)
LEMMA RenameTakenKeeps ==
    ASSUME PInv, NEW c \in Containers, RenameTaken(c) PROVE PInv'
BY AbandonKeeps DEF RenameTaken

(* The link cannot be configured or renamed.                               *)
LEMMA RenameFaultKeeps ==
    ASSUME PInv, NEW c \in Containers, RenameFault(c) PROVE PInv'
BY AbandonKeeps DEF RenameFault

(* The temporary link is removed.                                          *)
LEMMA UndoKeeps ==
    ASSUME PInv, NEW c \in Containers, Undo(c) PROVE PInv'
<1>1. /\ At(c, "undo") /\ links' = [links EXCEPT ![c] = @ \ {"tmp"}] /\ Fail(c) /\ NoFault
      /\ bridge' = bridge /\ brAddrs' = brAddrs /\ netns' = netns /\ addrs' = addrs
      /\ joined' = joined /\ held' = held /\ nat' = nat
  BY DEF Undo
<1>2. Types /\ Local(c) /\ Counted
  BY <1>1, CountersKeep DEF PInv
<1>3. status[c] = "unknown"
  BY <1>1, <1>2, CommandOf
<1>4. End(c, "unknown") /\ raced' = raced
  BY <1>1, <1>3 DEF Fail
<1>5. /\ Over(c) /\ status'[c] = "unknown"
      /\ \A d \in Containers : d # c =>
            todo'[d] = todo[d] /\ ip'[d] = ip[d] /\ seen'[d] = seen[d] /\ status'[d] = status[d]
      /\ todo' \in [Containers -> Seq(StepNames)]
      /\ ip' \in [Containers -> Addrs \cup {None}] /\ seen' \in [Containers -> SUBSET Addrs]
      /\ status' \in [Containers -> {"none", "attached", "detaching", "unknown", "broken"}]
  BY <1>2, <1>4, EndTypes DEF Outcomes
<1>6. /\ links' \in [Containers -> SUBSET {"if", "tmp"}] /\ links'[c] = links[c] \ {"tmp"}
      /\ \A d \in Containers : d # c => links'[d] = links[d]
  BY <1>1, <1>2 DEF Types
<1>7. Frame(c)
  BY <1>1, <1>2, <1>5, <1>6 DEF Frame, Counted
<1>8. Types'
  BY <1>1, <1>2, <1>4, <1>5, <1>6 DEF Types, Counted
<1>9. Local(c)'
  <2>1. /\ OrderAt(c)' /\ IdleAt(c)' /\ CommandAt(c)' /\ DetachAt(c)' /\ AddAt(c)' /\ DelAt(c)'
        /\ AttachedAt(c)' /\ GatewayAt(c)' /\ NoneAt(c)'
    BY <1>5, Ends
  <2>2. ContainerAt(c)'
    BY <1>1, <1>2, <1>6 DEF Local, ContainerAt, HasNetns
  <2>3. TmpAt(c)' /\ BrokenAt(c)'
    BY <1>5, <1>6 DEF TmpAt, BrokenAt
  <2> QED BY <2>1, <2>2, <2>3 DEF Local
<1>10. {"bridgeUp", "gwUp"} \cap Rest(c) = {}
  <2>1. "undo" \notin BridgeSteps
    BY Names DEF BridgeSteps, AddSteps
  <2> QED BY <1>1, <2>1, NothingPending
<1> QED BY <1>1, <1>4, <1>7, <1>8, <1>9, <1>10, StillHeldOnce, StillUp, Together

-----------------------------------------------------------------------------
(* ensureBridgeAddr                                                        *)

(* The address need not be added only if it is there.                      *)
LEMMA BridgeAddrFoundKeeps ==
    ASSUME PInv, NEW c \in Containers, BridgeAddrFound(c) PROVE PInv'
<1>1. /\ At(c, "gwScan") /\ NoFault
      /\ bridge' = bridge /\ brAddrs' = brAddrs /\ netns' = netns /\ links' = links
      /\ addrs' = addrs
      /\ joined' = joined /\ held' = held /\ nat' = nat
      /\ ip' = ip /\ seen' = seen /\ status' = status /\ raced' = raced
  BY DEF BridgeAddrFound, kernel
<1>2. \/ todo' = [todo EXCEPT ![c] = Tail(@)]
      \/ ConfOf[c].gw \in seen[c] /\ todo' = [todo EXCEPT ![c] = Tail(Tail(@))]
  BY DEF BridgeAddrFound
<1>3. Types /\ Local(c) /\ Counted /\ "gwScan" \notin DelSteps
  BY <1>1, CountersKeep DEF PInv, DelSteps
<1>4. Taken(c, "gwScan")
  BY <1>1, <1>2, <1>3 DEF Taken, Types
<1>5. todo'[c] \in Seq(StepNames)
  BY <1>3, <1>4, GoesOn
<1>6. todo' \in [Containers -> Seq(StepNames)] /\ \A d \in Containers : d # c => todo'[d] = todo[d]
  BY <1>2, <1>3, <1>5 DEF Types
<1>7. Frame(c)
  BY <1>1, <1>3, <1>6 DEF Frame, Counted
<1>8. Types'
  BY <1>1, <1>3, <1>6 DEF Types, Counted
<1>9. /\ OrderAt(c)' /\ CommandAt(c)' /\ IdleAt(c)' /\ AttachedAt(c)' /\ NoneAt(c)' /\ BrokenAt(c)'
      /\ DelAt(c)' /\ DetachAt(c)' /\ ContainerAt(c)' /\ TmpAt(c)' /\ AddAt(c)' /\ HeldOnce'
      /\ BridgeOK'
      /\ Adding(c) /\ status'[c] = "unknown"
  BY <1>1, <1>3, <1>4, <1>7, AddStep DEF NatRules
<1>10. GatewayAt(c)'
  <2>1. GatewayContested(c)' <=> GatewayContested(c)
    BY DEF GatewayContested
  <2>2. ASSUME todo' = [todo EXCEPT ![c] = Tail(@)], "gwAdd" \in Rest(c) PROVE "gwAdd" \in Rest(c)'
    <3>1. /\ todo[c] \in Seq(StepNames) /\ todo[c] # <<>> /\ Head(todo[c]) = "gwScan"
          /\ todo'[c] = Tail(todo[c])
      BY <1>1, <1>3, <2>2 DEF Types, At, Live
    <3>2. Steps(todo[c]) = {Head(todo[c])} \cup Steps(Tail(todo[c]))
      BY <3>1, TakeStep
    <3> QED BY <2>2, <3>1, <3>2 DEF Rest
  <2> QED BY <1>1, <1>2, <1>3, <1>9, <2>1, <2>2 DEF Local, GatewayAt
<1>11. Local(c)'
  BY <1>9, <1>10 DEF Local
<1> QED BY <1>7, <1>8, <1>9, <1>11, Together

(* The bridge that is set down is about to be set up again.                *)
LEMMA ForceDownKeeps ==
    ASSUME PInv, NEW c \in Containers, ForceDown(c) PROVE PInv'
<1>1. PICK a \in seen[c] \ {ConfOf[c].gw} : todo' = [todo EXCEPT ![c] = <<a, "gwUp">> \o @]
  BY DEF ForceDown
<1>2. /\ At(c, "gwScan") /\ ConfOf[c].force /\ bridge' = "down" /\ NoFault
      /\ brAddrs' = brAddrs /\ netns' = netns /\ links' = links /\ addrs' = addrs
      /\ joined' = joined /\ held' = held /\ nat' = nat
      /\ ip' = ip /\ seen' = seen /\ status' = status /\ raced' = raced
  BY DEF ForceDown
<1>3. /\ Types /\ Local(c) /\ Counted /\ a \in Addrs /\ a # ConfOf[c].gw
      /\ a \notin AddSteps \cup DelSteps
  BY <1>1, <1>2, CountersKeep, Names DEF PInv, Types
<1>4. Adding(c) /\ ~ Deleting(c) /\ ~ Undoing(c) /\ status[c] = "unknown" /\ HasNetns(c) /\ Live(c)
  BY <1>2, <1>3, CommandOf DEF DelSteps
<1>5. /\ todo[c] \in Seq(StepNames) /\ todo[c] # <<>> /\ Head(todo[c]) = "gwScan"
      /\ Ordered(todo[c]) /\ ScanThenAdd(todo[c])
  BY <1>2, <1>3 DEF Types, At, Live, Local, OrderAt
<1> DEFINE f == <<a, "gwUp">>
<1>6. f \in Seq(StepNames) /\ Steps(f) = {a, "gwUp"} /\ Ordered(f) /\ ScanThenAdd(f)
  <2>1. f \in Seq(StepNames) /\ Len(f) = 2 /\ f[1] = a /\ f[2] = "gwUp"
    BY <1>3 DEF StepNames, AddSteps
  <2>2. (\A i \in 1 .. Len(f) : i = 1 \/ i = 2) /\ 1 \in 1 .. Len(f) /\ 2 \in 1 .. Len(f)
    BY <2>1
  <2> HIDE DEF f
  <2>3. Steps(f) = {a, "gwUp"}
    BY <2>1, <2>2 DEF Steps
  <2>4. MayFollow(a, "gwUp")
    BY <1>3, Names DEF MayFollow, AddSteps, DelSteps
  <2>5. Ordered(f)
    BY <2>1, <2>2, <2>4 DEF Ordered
  <2>6. ScanThenAdd(f)
    BY <1>3, <2>1, <2>2 DEF ScanThenAdd, AddSteps
  <2> QED BY <2>1, <2>3, <2>5, <2>6
<1>7. /\ f \o todo[c] \in Seq(StepNames) /\ Steps(f \o todo[c]) = {a, "gwUp"} \cup Rest(c)
      /\ Ordered(f \o todo[c]) /\ ScanThenAdd(f \o todo[c])
  <2>1. /\ Rest(c) = {"gwScan"} \cup Steps(Tail(todo[c]))
        /\ \A y \in Steps(Tail(todo[c])) : MayFollow("gwScan", y)
    BY <1>5, TakeStep DEF Rest
  <2>2. ASSUME NEW y \in Rest(c)
        PROVE  /\ y \notin Addrs \cup {"bridge", "bridgeUp", "gwUp", "tmp", "rename"}
    BY <2>1, Names DEF MayFollow, AddSteps
  <2>3. \A x \in {a, "gwUp"}, y \in Rest(c) : MayFollow(x, y)
    BY <1>3, <2>2 DEF MayFollow, AddSteps, DelSteps
  <2> HIDE DEF f
  <2> QED BY <1>5, <1>6, <2>3, Concatenated DEF Rest
<1>8. /\ todo' \in [Containers -> Seq(StepNames)] /\ todo'[c] = f \o todo[c]
      /\ \A d \in Containers : d # c => todo'[d] = todo[d]
  BY <1>1, <1>3, <1>7 DEF Types
<1> HIDE DEF f
<1>9. Rest(c)' = {a, "gwUp"} \cup Rest(c) /\ OrderAt(c)'
  BY <1>7, <1>8 DEF Rest, OrderAt
<1>10. \A x \in AddSteps \cup DelSteps : x # "gwUp" => (x \in Rest(c)' <=> x \in Rest(c))
  BY <1>3, <1>9
<1>11. /\ Adding(c)' /\ ~ Deleting(c)' /\ ~ Undoing(c)' /\ (Made(c)' <=> Made(c))
       /\ status'[c] = "unknown"
       /\ HasNetns(c)'
  BY <1>2, <1>4, <1>10 DEF Adding, Deleting, Undoing, Made, AddSteps, DelSteps, HasNetns
<1>12. Live(c)'
  BY <1>9, <1>11, NoSteps DEF Live, Rest, Adding
<1>13. Frame(c)
  BY <1>2, <1>3, <1>8 DEF Frame, Counted
<1>14. Types'
  BY <1>2, <1>3, <1>8 DEF Types, Counted
<1>15. CommandAt(c)'
  <2>1. Rest(c)' \subseteq (AddSteps \cup Addrs) \ {"undo"}
    BY <1>3, <1>4, <1>9, Names DEF Local, CommandAt, AddSteps
  <2>2. /\ "bridge" \in Rest(c)' => "bridgeUp" \in Rest(c)'
        /\ "tmp" \in Rest(c)' => "rename" \in Rest(c)'
        /\ "ipam" \in Rest(c)' => "addr" \in Rest(c)'
        /\ "delJump" \in Rest(c)' => "clear" \in Rest(c)'
        /\ "clear" \in Rest(c)' => "delChain" \in Rest(c)'
    BY <1>3, <1>10 DEF Local, CommandAt, AddSteps, DelSteps
  <2>3. ~ ConfOf[c].ipMasq => Rest(c)' \cap (NatRules \cup {"delJump", "clear", "delChain"}) = {}
    BY <1>3, <1>10 DEF Local, CommandAt, AddSteps, DelSteps, NatRules
  <2>4. \A b \in Addrs : b \in Rest(c)' => ConfOf[c].force /\ b # ConfOf[c].gw
    BY <1>2, <1>3, <1>9, Names DEF Local, CommandAt, AddSteps
  <2> QED BY <1>11, <2>1, <2>2, <2>3, <2>4 DEF CommandAt
<1>16. AddAt(c)'
  <2>1. \A x \in {"ipam", "addr", "join"} \cup NatRules : x \in Rest(c)' <=> x \in Rest(c)
    BY <1>10 DEF AddSteps, NatRules
  <2> QED BY <1>2, <1>3, <1>4, <1>11, <2>1 DEF Local, AddAt
<1>17. GatewayAt(c)'
  <2>1. GatewayContested(c)' <=> GatewayContested(c)
    BY DEF GatewayContested
  <2>2. "gwAdd" \in Rest(c)' <=> "gwAdd" \in Rest(c)
    BY <1>10 DEF AddSteps
  <2> QED BY <1>2, <1>3, <1>4, <1>11, <2>1, <2>2 DEF Local, GatewayAt
<1>18. IdleAt(c)' /\ AttachedAt(c)' /\ DelAt(c)' /\ DetachAt(c)' /\ NoneAt(c)' /\ BrokenAt(c)'
  BY <1>11, <1>12 DEF IdleAt, AttachedAt, DelAt, DetachAt, NoneAt, BrokenAt
<1>19. ContainerAt(c)'
  BY <1>2, <1>3 DEF Local, ContainerAt, HasNetns
<1>20. TmpAt(c)'
  BY <1>2, <1>3, <1>4, <1>9, <1>13, Counters DEF Local, TmpAt
<1>21. Local(c)'
  BY <1>9, <1>15, <1>16, <1>17, <1>18, <1>19, <1>20 DEF Local
<1>22. BridgeOK'
  BY <1>9 DEF BridgeOK
<1>23. HeldOnce'
  BY <1>2, <1>13, StillHeldOnce
<1> QED BY <1>13, <1>14, <1>21, <1>22, <1>23, Together

-----------------------------------------------------------------------------
(* The runtime                                                             *)

(* A container without a command has no steps left.                        *)
LEMMA Idle ==
    ASSUME NEW c \in Containers, ~ Live(c), Types
    PROVE  Rest(c) = {} /\ ~ Adding(c) /\ ~ Deleting(c) /\ ~ Undoing(c)
<1>1. Rest(c) = {}
  BY NoSteps DEF Live, Rest
<1> QED BY <1>1 DEF Adding, Deleting, Undoing

(* A command begins.                                                       *)
LEMMA Beginning ==
    ASSUME PInv, NEW c \in Containers, ~ Live(c), NEW s, Script(s), Steps(s) # {},
           NEW o \in {"unknown", "detaching"},
           todo' = [todo EXCEPT ![c] = s], status' = [status EXCEPT ![c] = o],
           UNCHANGED <<kernel, ip, seen, raced>>, NoFault
    PROVE  /\ Frame(c) /\ Types' /\ HeldOnce' /\ BridgeOK' /\ Rest(c)' = Steps(s) /\ status'[c] = o
           /\ OrderAt(c)' /\ IdleAt(c)' /\ ContainerAt(c)' /\ TmpAt(c)' /\ BrokenAt(c)'
           /\ AttachedAt(c)' /\ NoneAt(c)'
           /\ netns' = netns /\ links' = links /\ addrs' = addrs /\ nat' = nat /\ held' = held
           /\ seen'[c] = {}
           /\ (HasNetns(c)' <=> HasNetns(c))
<1>1. Types /\ Local(c) /\ Counted /\ Rest(c) = {} /\ ~ Undoing(c)
  BY CountersKeep, Idle DEF PInv
<1>2. /\ bridge' = bridge /\ brAddrs' = brAddrs /\ netns' = netns /\ links' = links
      /\ addrs' = addrs
      /\ joined' = joined /\ held' = held /\ nat' = nat
      /\ ip' = ip /\ seen' = seen /\ raced' = raced
  BY DEF kernel
<1>3. /\ todo' \in [Containers -> Seq(StepNames)] /\ todo'[c] = s
      /\ \A d \in Containers : d # c => todo'[d] = todo[d]
  BY <1>1 DEF Types, Script
<1>4. /\ status' \in [Containers -> {"none", "attached", "detaching", "unknown", "broken"}]
      /\ status'[c] = o
      /\ \A d \in Containers : d # c => status'[d] = status[d]
  BY <1>1 DEF Types
<1>5. Frame(c)
  BY <1>1, <1>2, <1>3, <1>4 DEF Frame, Counted
<1>6. Types'
  BY <1>1, <1>2, <1>3, <1>4 DEF Types, Counted
<1>7. Rest(c)' = Steps(s) /\ OrderAt(c)'
  BY <1>3 DEF Rest, OrderAt, Script
<1>8. Live(c)'
  BY <1>7, NoSteps DEF Live, Rest
<1>9. IdleAt(c)' /\ BrokenAt(c)' /\ AttachedAt(c)' /\ NoneAt(c)'
  BY <1>4, <1>8 DEF IdleAt, BrokenAt, AttachedAt, NoneAt
<1>10. HasNetns(c)' <=> HasNetns(c)
  BY <1>2 DEF HasNetns
<1>11. ContainerAt(c)'
  BY <1>1, <1>2, <1>10 DEF Local, ContainerAt
<1>12. TmpAt(c)'
  BY <1>1, <1>2, <1>5, Counters DEF Local, TmpAt
<1>13. HeldOnce'
  BY <1>2, <1>5, StillHeldOnce
<1>14. BridgeOK'
  BY <1>1, <1>2, <1>5, StillUp
<1>15. seen'[c] = {}
  BY <1>1, <1>2 DEF Local, IdleAt
<1> QED BY <1>2, <1>4, <1>5, <1>6, <1>7, <1>9, <1>10, <1>11, <1>12, <1>13, <1>14, <1>15

(* An ADD has everything to do.                                            *)
LEMMA BeginAddKeeps ==
    ASSUME PInv, NEW c \in Containers, BeginAdd(c) PROVE PInv'
<1> DEFINE s == AddScript(c)
<1>1. /\ Script(s) /\ Steps(s) \subseteq AddSteps \ {"undo"}
      /\ {"ipam", "addr", "print"} \subseteq Steps(s)
      /\ "veth" \in Steps(s) \/ "rename" \in Steps(s)
      /\ "bridge" \in Steps(s) => "bridgeUp" \in Steps(s)
      /\ "tmp" \in Steps(s) => "rename" \in Steps(s)
      /\ ConfOf[c].plugin = "bridge" => "join" \in Steps(s)
      /\ ConfOf[c].isGW => "gwAdd" \in Steps(s)
      /\ ConfOf[c].ipMasq => NatRules \subseteq Steps(s)
      /\ ~ ConfOf[c].ipMasq => Steps(s) \cap NatRules = {}
  BY AddScriptSteps
<1>2. /\ ~ Live(c) /\ HasNetns(c) /\ todo' = [todo EXCEPT ![c] = s]
      /\ status' = [status EXCEPT ![c] = "unknown"]
      /\ UNCHANGED <<kernel, ip, seen, raced>> /\ NoFault
  BY DEF BeginAdd
<1> HIDE DEF s
<1>3. /\ Frame(c) /\ Types' /\ HeldOnce' /\ BridgeOK' /\ Rest(c)' = Steps(s)
      /\ status'[c] = "unknown"
      /\ OrderAt(c)' /\ IdleAt(c)' /\ ContainerAt(c)' /\ TmpAt(c)' /\ BrokenAt(c)'
      /\ AttachedAt(c)' /\ NoneAt(c)'
      /\ seen'[c] = {} /\ (HasNetns(c)' <=> HasNetns(c))
  BY <1>1, <1>2, Beginning
<1>4. "end" \notin Steps(s) /\ "undo" \notin Steps(s) /\ \A a \in Addrs : a \notin Steps(s)
  BY <1>1, Names DEF AddSteps
<1>5. Adding(c)' /\ ~ Deleting(c)' /\ ~ Undoing(c)' /\ ~ Made(c)'
  BY <1>1, <1>3, <1>4 DEF Adding, Deleting, Undoing, Made
<1>6. CommandAt(c)'
  <2>1. \A x \in {"delJump", "clear", "delChain"} : x \notin Steps(s)
    BY <1>1 DEF AddSteps
  <2> QED BY <1>1, <1>2, <1>3, <1>4, <1>5, <2>1 DEF CommandAt
<1>7. AddAt(c)'
  BY <1>1, <1>3, <1>5 DEF AddAt
<1>8. GatewayAt(c)'
  BY <1>1, <1>3 DEF GatewayAt
<1>9. DelAt(c)' /\ DetachAt(c)'
  BY <1>3, <1>5 DEF DelAt, DetachAt
<1>10. Local(c)'
  BY <1>3, <1>6, <1>7, <1>8, <1>9 DEF Local
<1> QED BY <1>3, <1>10, Together

(* The DEL of an attachment will find what the ADD has made.               *)
LEMMA BeginDelKeeps ==
    ASSUME PInv, NEW c \in Containers, BeginDel(c) PROVE PInv'
<1> DEFINE s == DelScript(c)
<1> DEFINE o == IF status[c] = "attached" THEN "detaching" ELSE "unknown"
<1>1. /\ Script(s) /\ Steps(s) \subseteq DelSteps /\ {"ipamDel", "end"} \subseteq Steps(s)
      /\ "delLink" \in Steps(s) <=> HasNetns(c)
      /\ \A x \in {"delJump", "clear", "delChain"} : x \in Steps(s) <=> HasNetns(c) /\ ConfOf[c].ipMasq
  BY DelScriptSteps
<1>2. /\ ~ Live(c) /\ todo' = [todo EXCEPT ![c] = s] /\ status' = [status EXCEPT ![c] = o]
      /\ UNCHANGED <<kernel, ip, seen, raced>> /\ NoFault /\ o \in {"unknown", "detaching"}
  BY DEF BeginDel
<1> HIDE DEF s
<1>3. /\ Frame(c) /\ Types' /\ HeldOnce' /\ BridgeOK' /\ Rest(c)' = Steps(s) /\ status'[c] = o
      /\ OrderAt(c)' /\ IdleAt(c)' /\ ContainerAt(c)' /\ TmpAt(c)' /\ BrokenAt(c)'
      /\ AttachedAt(c)' /\ NoneAt(c)'
      /\ netns' = netns /\ links' = links /\ addrs' = addrs /\ nat' = nat /\ held' = held
      /\ seen'[c] = {} /\ (HasNetns(c)' <=> HasNetns(c))
  <2> HIDE DEF o
  <2> QED BY <1>1, <1>2, Beginning
<1>4. "print" \notin Steps(s) /\ "undo" \notin Steps(s) /\ \A a \in Addrs : a \notin Steps(s)
  BY <1>1, Names DEF DelSteps
<1>5. ~ Adding(c)' /\ Deleting(c)' /\ ~ Undoing(c)'
  BY <1>1, <1>3, <1>4 DEF Adding, Deleting, Undoing
<1>6. CommandAt(c)'
  <2>1. \A x \in {"bridge", "tmp", "ipam"} \cup NatRules : x \notin Steps(s)
    BY <1>1 DEF DelSteps, NatRules
  <2>2. /\ "delJump" \in Steps(s) => "clear" \in Steps(s)
        /\ "clear" \in Steps(s) => "delChain" \in Steps(s)
        /\ ~ ConfOf[c].ipMasq => Steps(s) \cap (NatRules \cup {"delJump", "clear", "delChain"}) = {}
    BY <1>1, <2>1
  <2> QED BY <1>1, <1>2, <1>3, <1>4, <1>5, <2>1, <2>2 DEF CommandAt
<1>7. AddAt(c)'
  BY <1>5 DEF AddAt
<1>8. GatewayAt(c)'
  BY <1>2, <1>3, <1>5 DEF GatewayAt
<1>9. ContainerAt(c) /\ AttachedAt(c) /\ Types
  BY DEF PInv, Local
<1>10. DelAt(c)'
  <2>1. netns[c] = "first" => HasNetns(c)
    BY DEF HasNetns
  <2>2. "ipamDel" \in Rest(c)' /\ ("delLink" \in Rest(c)' <=> HasNetns(c))
        /\ ("delChain" \in Rest(c)' <=> HasNetns(c) /\ ConfOf[c].ipMasq)
    BY <1>1, <1>3
  <2> QED BY <1>3, <1>9, <2>1, <2>2 DEF DelAt, ContainerAt
<1>11. DetachAt(c)'
  <2>1. ASSUME status'[c] = "detaching" PROVE status[c] = "attached"
    BY <1>3, <2>1
  <2>2. ASSUME status[c] = "attached", HasNetns(c) PROVE Removable(c)'
    BY <1>3, <1>9, <2>2 DEF AttachedAt, Removable
  <2>3. ASSUME status[c] = "attached", ConfOf[c].ipMasq PROVE "jump" \in nat'[c]
    BY <1>3, <1>9, <2>3 DEF AttachedAt, NatRules
  <2>4. /\ ("delLink" \in Rest(c)' <=> HasNetns(c))
        /\ \A x \in {"delJump", "clear", "delChain"} : x \in Rest(c)' <=> HasNetns(c) /\ ConfOf[c].ipMasq
    BY <1>1, <1>3
  <2> QED BY <2>1, <2>2, <2>3, <2>4 DEF DetachAt
<1>12. Local(c)'
  BY <1>3, <1>6, <1>7, <1>8, <1>10, <1>11 DEF Local
<1> QED BY <1>3, <1>12, Together

(* A reservation and rules outlive the namespace.                          *)
LEMMA LoseNetnsKeeps ==
    ASSUME PInv, NEW c \in Containers, LoseNetns(c) PROVE PInv'
<1>1. /\ ~ Live(c) /\ status[c] # "none" /\ netns' = [netns EXCEPT ![c] = "gone"]
      /\ links' = [links EXCEPT ![c] = {}] /\ addrs' = [addrs EXCEPT ![c] = {}]
      /\ joined' = joined \ {c}
      /\ bridge' = bridge /\ brAddrs' = brAddrs /\ held' = held /\ nat' = nat /\ todo' = todo
      /\ ip' = ip /\ seen' = seen /\ status' = status /\ raced' = raced /\ NoFault
  BY DEF LoseNetns
<1>2. Types /\ Local(c) /\ Counted /\ Rest(c) = {} /\ ~ Adding(c) /\ ~ Deleting(c) /\ ~ Undoing(c)
  BY <1>1, CountersKeep, Idle DEF PInv
<1>3. /\ netns'[c] = "gone" /\ links'[c] = {} /\ addrs'[c] = {}
      /\ \A d \in Containers : d # c => netns'[d] = netns[d] /\ links'[d] = links[d] /\ addrs'[d] = addrs[d]
  BY <1>1, <1>2 DEF Types
<1>4. Frame(c)
  BY <1>1, <1>2, <1>3 DEF Frame, Counted
<1>5. Types'
  BY <1>1, <1>2 DEF Types, Counted
<1>6. /\ Rest(c)' = {} /\ ~ Adding(c)' /\ ~ Deleting(c)' /\ ~ Undoing(c)' /\ ~ Live(c)'
      /\ ~ HasNetns(c)'
  BY <1>1, <1>2, <1>3 DEF Rest, Adding, Deleting, Undoing, Live, HasNetns
<1>7. IdleAt(c)' /\ OrderAt(c)' /\ BrokenAt(c)' /\ NoneAt(c)'
  <2>1. faults' = 0 => faults = 0
    BY <1>2, <1>4, Counters
  <2> QED BY <1>1, <1>2, <2>1 DEF Local, IdleAt, OrderAt, BrokenAt, NoneAt
<1>8. CommandAt(c)' /\ DetachAt(c)'
  <2>1. status'[c] # "detaching"
    BY <1>1, <1>2 DEF Local, IdleAt
  <2> QED BY <1>6, <2>1 DEF CommandAt, DetachAt
<1>9. AddAt(c)' /\ DelAt(c)'
  BY <1>6 DEF AddAt, DelAt
<1>10. ContainerAt(c)' /\ TmpAt(c)'
  BY <1>1, <1>2, <1>3 DEF Local, ContainerAt, TmpAt
<1>11. GatewayAt(c)'
  <2>1. GatewayContested(c)' <=> GatewayContested(c)
    BY DEF GatewayContested
  <2> QED BY <1>1, <1>2, <1>6, <2>1 DEF Local, GatewayAt
<1>12. AttachedAt(c)'
  BY <1>1, <1>2, <1>3, <1>6 DEF Local, AttachedAt
<1>13. Local(c)'
  BY <1>7, <1>8, <1>9, <1>10, <1>11, <1>12 DEF Local
<1> QED BY <1>1, <1>2, <1>4, <1>5, <1>13, StillHeldOnce, StillUp, Together

(* A new namespace is empty.                                               *)
LEMMA NewNetnsKeeps ==
    ASSUME PInv, NEW c \in Containers, NewNetns(c) PROVE PInv'
<1>1. /\ ~ Live(c) /\ status[c] = "none" /\ netns' = [netns EXCEPT ![c] = "later"]
      /\ links' = links /\ addrs' = addrs /\ joined' = joined
      /\ bridge' = bridge /\ brAddrs' = brAddrs /\ held' = held /\ nat' = nat /\ todo' = todo
      /\ ip' = ip /\ seen' = seen /\ status' = status /\ raced' = raced /\ NoFault
  BY DEF NewNetns
<1>2. Types /\ Local(c) /\ Counted /\ Rest(c) = {} /\ ~ Adding(c) /\ ~ Deleting(c) /\ ~ Undoing(c)
  BY <1>1, CountersKeep, Idle DEF PInv
<1>3. netns'[c] = "later" /\ \A d \in Containers : d # c => netns'[d] = netns[d]
  BY <1>1, <1>2 DEF Types
<1>4. Frame(c)
  BY <1>1, <1>2, <1>3 DEF Frame, Counted
<1>5. Types'
  BY <1>1, <1>2 DEF Types, Counted
<1>6. Rest(c)' = {} /\ ~ Adding(c)' /\ ~ Deleting(c)' /\ ~ Undoing(c)' /\ ~ Live(c)' /\ HasNetns(c)'
  BY <1>1, <1>2, <1>3 DEF Rest, Adding, Deleting, Undoing, Live, HasNetns
<1>7. IdleAt(c)' /\ OrderAt(c)' /\ BrokenAt(c)' /\ NoneAt(c)'
  BY <1>1, <1>2, <1>3 DEF Local, IdleAt, OrderAt, BrokenAt, NoneAt
<1>8. CommandAt(c)' /\ DetachAt(c)' /\ AttachedAt(c)'
  BY <1>1, <1>6 DEF CommandAt, DetachAt, AttachedAt
<1>9. AddAt(c)' /\ DelAt(c)'
  BY <1>6 DEF AddAt, DelAt
<1>10. ContainerAt(c)'
  BY <1>1, <1>2, <1>6 DEF Local, ContainerAt
<1>11. TmpAt(c)'
  BY <1>1, <1>2, <1>4, Counters DEF Local, TmpAt
<1>12. GatewayAt(c)'
  <2>1. GatewayContested(c)' <=> GatewayContested(c)
    BY DEF GatewayContested
  <2> QED BY <1>1, <1>2, <1>6, <2>1 DEF Local, GatewayAt
<1>13. Local(c)'
  BY <1>7, <1>8, <1>9, <1>10, <1>11, <1>12 DEF Local
<1> QED BY <1>1, <1>2, <1>4, <1>5, <1>13, StillHeldOnce, StillUp, Together

(* What is left before the last step is that step.                         *)
LEMMA LastStep ==
    ASSUME PInv, NEW c \in Containers, NEW h \in {"print", "end"}, At(c, h)
    PROVE  Rest(c) = {h}
<1>1. todo[c] \in Seq(StepNames) /\ todo[c] # <<>> /\ Head(todo[c]) = h /\ Ordered(todo[c])
  BY DEF PInv, Types, At, Live, Local, OrderAt
<1>2. Rest(c) = {h} \cup Steps(Tail(todo[c])) /\ \A y \in Steps(Tail(todo[c])) : MayFollow(h, y)
  BY <1>1, TakeStep DEF Rest
<1> QED BY <1>2 DEF MayFollow

(* An ADD that returns has done everything, and so has a DEL.              *)
LEMMA ReturnKeeps ==
    ASSUME PInv, NEW c \in Containers, Return(c) PROVE PInv'
<1>1. PICK h \in {"print", "end"}, o \in {"attached", "none"} :
        At(c, h) /\ End(c, o) /\ (h = "print" <=> o = "attached")
  BY DEF Return
<1>2. UNCHANGED kernel /\ raced' = raced /\ NoFault
  BY DEF Return
<1>3. Types /\ Local(c) /\ Counted /\ o \in Outcomes /\ raced' \in BOOLEAN
  BY <1>2, CountersKeep DEF PInv, Types, Outcomes
<1>4. Frame(c) /\ Types' /\ Over(c) /\ status'[c] = o
  BY <1>1, <1>2, <1>3, EndFrame
<1>5. Rest(c) = {h}
  BY <1>1, LastStep
<1>6. /\ OrderAt(c)' /\ IdleAt(c)' /\ CommandAt(c)' /\ DetachAt(c)' /\ AddAt(c)' /\ DelAt(c)'
      /\ o # "attached" => AttachedAt(c)' /\ GatewayAt(c)'
      /\ o # "none" => NoneAt(c)'
  BY <1>3, <1>4, Ends DEF Outcomes
<1>7. /\ bridge' = bridge /\ brAddrs' = brAddrs /\ netns' = netns /\ links' = links
      /\ addrs' = addrs
      /\ joined' = joined /\ held' = held /\ nat' = nat /\ (HasNetns(c)' <=> HasNetns(c))
  BY <1>2 DEF kernel, HasNetns
<1>8. ContainerAt(c)'
  BY <1>3, <1>7 DEF Local, ContainerAt
<1>9. TmpAt(c)' /\ BrokenAt(c)'
  BY <1>3, <1>4, <1>5, <1>7, Counters DEF Local, TmpAt, BrokenAt, Undoing
<1>10. ASSUME o = "attached" PROVE AttachedAt(c)' /\ GatewayAt(c)'
  <2>1. h = "print" /\ Adding(c) /\ Made(c)
    BY <1>1, <1>5, <1>10 DEF Adding, Made
  <2>2. /\ "if" \in links[c] /\ ip[c] \in held[c] /\ addrs[c] = {ip[c]}
        /\ ConfOf[c].plugin = "bridge" => c \in joined
        /\ ConfOf[c].ipMasq => NatRules \subseteq nat[c]
    BY <1>3, <1>5, <2>1 DEF Local, AddAt, NatRules
  <2>3. nat[c] \subseteq NatRules
    BY <1>3 DEF Types
  <2>4. AttachedAt(c)'
    BY <1>7, <2>2, <2>3 DEF AttachedAt
  <2>5. GatewayContested(c)' <=> GatewayContested(c)
    BY DEF GatewayContested
  <2>6. GatewayAt(c)'
    BY <1>3, <1>5, <1>7, <2>1, <2>5 DEF Local, GatewayAt
  <2> QED BY <2>4, <2>6
<1>11. ASSUME o = "none" PROVE NoneAt(c)'
  <2>1. h = "end" /\ Deleting(c)
    BY <1>1, <1>5, <1>11 DEF Deleting
  <2> QED BY <1>3, <1>5, <1>7, <2>1 DEF Local, DelAt, NoneAt
<1>12. Local(c)'
  BY <1>6, <1>8, <1>9, <1>10, <1>11 DEF Local
<1> QED BY <1>2, <1>4, <1>5, <1>7, <1>12, StillHeldOnce, StillUp, Together

-----------------------------------------------------------------------------
(* The invariant and the theorems                                          *)

(* Nothing is attached.                                                    *)
LEMMA Initially == Init => PInv
<1> SUFFICES ASSUME Init PROVE PInv
  OBVIOUS
<1>1. Types
  <2>1. <<>> \in Seq(StepNames)
    OBVIOUS
  <2>2. MaxCrashes \in Nat /\ MaxFaults \in Nat
    BY InterfaceAssumption DEF InterfaceAssumption
  <2>3. crashes \in 0 .. MaxCrashes /\ faults \in 0 .. MaxFaults
    BY <2>2 DEF Init
  <2>4. todo \in [Containers -> Seq(StepNames)]
    BY <2>1 DEF Init
  <2> QED BY <2>3, <2>4 DEF Init, Types
<1>2. ASSUME NEW c \in Containers PROVE Local(c)
  <2>1. /\ todo[c] = <<>> /\ netns[c] = "first" /\ links[c] = {} /\ addrs[c] = {} /\ held[c] = {}
        /\ nat[c] = {}
        /\ ip[c] = None /\ seen[c] = {} /\ status[c] = "none"
    BY DEF Init
  <2>2. Rest(c) = {} /\ OrderAt(c) /\ ~ Live(c)
    BY <2>1, NoSteps DEF Rest, OrderAt, Live
  <2>3. ~ Adding(c) /\ ~ Deleting(c) /\ ~ Undoing(c)
    BY <2>2 DEF Adding, Deleting, Undoing
  <2> QED BY <2>1, <2>2, <2>3 DEF Local, IdleAt, CommandAt, ContainerAt, AddAt, GatewayAt, AttachedAt, DelAt,
                               DetachAt, NoneAt, TmpAt, BrokenAt, HasNetns
<1>3. HeldOnce /\ BridgeOK
  BY DEF Init, HeldOnce, BridgeOK
<1> QED BY <1>1, <1>2, <1>3 DEF PInv

(* Every step of a command keeps the invariant.                            *)
LEMMA StepKeeps ==
    ASSUME PInv, NEW c \in Containers, Step(c) PROVE PInv'
<1>1. CASE EnsureBridge(c) \/ BridgeUp(c) \/ MakeVeth(c) \/ VethExists(c) \/ SetMaster(c)
  <2>1. ASSUME BridgeUp(c) PROVE PInv'
    BY <2>1, BridgeUpKeeps DEF BridgeUp
  <2> QED BY <1>1, <2>1, EnsureBridgeKeeps, MakeVethKeeps, VethExistsKeeps, SetMasterKeeps
<1>2. CASE MakeTmp(c) \/ Rename(c) \/ RenameTaken(c) \/ RenameFault(c) \/ Undo(c)
  BY <1>2, MakeTmpKeeps, RenameKeeps, RenameTakenKeeps, RenameFaultKeeps, UndoKeeps
<1>3. CASE ExecAdd(c) \/ ExecAddExhausted(c) \/ ExecAddFault(c) \/ ConfigureIface(c) \/ Settings(c)
  <2>1. ASSUME Settings(c) PROVE PInv'
    BY <2>1, SettingsKeeps DEF Settings
  <2> QED BY <1>3, <2>1, ExecAddKeeps, ExecAddExhaustedKeeps, ExecAddFaultKeeps, ConfigureIfaceKeeps
<1>4. CASE \/ ListBridgeAddrs(c) \/ BridgeAddrFound(c) \/ BridgeAddrOther(c)
           \/ ForceDown(c) \/ DeleteBridgeAddr(c) \/ BridgeAddrGone(c)
           \/ AddBridgeAddr(c) \/ BridgeAddrExists(c)
  BY <1>4, ListBridgeAddrsKeeps, BridgeAddrFoundKeeps, BridgeAddrOtherKeeps, ForceDownKeeps,
     DeleteBridgeAddrKeeps, BridgeAddrGoneKeeps, AddBridgeAddrKeeps, BridgeAddrExistsKeeps
<1>5. CASE \E rule \in {"chain", "accept", "masquerade", "jump"} : InstallRule(c, rule)
  BY <1>5, InstallRuleKeeps DEF NatRules
<1>6. CASE DeleteJump(c) \/ DeleteJumpMissing(c) \/ ClearChain(c) \/ DeleteChain(c)
  BY <1>6, DeleteJumpKeeps, DeleteJumpMissingKeeps, ClearChainKeeps, DeleteChainKeeps
<1>7. CASE ExecDel(c) \/ DelLink(c) \/ DelLinkFails(c) \/ Return(c) \/ CallFault(c)
  BY <1>7, ExecDelKeeps, DelLinkKeeps, DelLinkFailsKeeps, ReturnKeeps, CallFaultKeeps
<1> QED BY <1>1, <1>2, <1>3, <1>4, <1>5, <1>6, <1>7 DEF Step

(* So does a step that changes nothing.                                    *)
LEMMA Stutters ==
    ASSUME PInv, UNCHANGED vars PROVE PInv'
<1>1. /\ bridge' = bridge /\ brAddrs' = brAddrs /\ netns' = netns /\ links' = links
      /\ addrs' = addrs
      /\ joined' = joined /\ held' = held /\ nat' = nat /\ todo' = todo /\ ip' = ip /\ seen' = seen
      /\ status' = status /\ raced' = raced /\ crashes' = crashes /\ faults' = faults
  BY DEF vars, kernel
<1>2. Types'
  BY <1>1 DEF PInv, Types
<1>3. HeldOnce' /\ BridgeOK'
  BY <1>1 DEF PInv, HeldOnce, BridgeOK, Rest, NoErrors
<1>4. ASSUME NEW c \in Containers PROVE Local(c)'
  BY <1>1 DEF PInv, Local, IdleAt, OrderAt, CommandAt, ContainerAt, AddAt, GatewayAt, AttachedAt, DelAt,
              DetachAt, NoneAt, TmpAt, BrokenAt, Rest, Live, HasNetns, Adding, Deleting, Undoing, Made, Removable,
              HasVeth, GatewayContested, NoErrors
<1> QED BY <1>2, <1>3, <1>4 DEF PInv

(* Every reachable state satisfies the inductive invariant.                *)
THEOREM Invariance == Spec => []PInv
<1>1. Init => PInv
  BY Initially
<1>2. PInv /\ [Next]_vars => PInv'
  <2> SUFFICES ASSUME PInv, [Next]_vars PROVE PInv'
    OBVIOUS
  <2>1. ASSUME NEW c \in Containers,
               BeginAdd(c) \/ BeginDel(c) \/ Step(c) \/ LoseNetns(c) \/ NewNetns(c) \/ Crash(c)
        PROVE  PInv'
    BY <2>1, BeginAddKeeps, BeginDelKeeps, StepKeeps, LoseNetnsKeeps, NewNetnsKeeps, CrashKeeps
  <2>2. CASE UNCHANGED vars
    BY <2>2, Stutters
  <2> QED BY <2>1, <2>2 DEF Next
<1> QED BY <1>1, <1>2, PTL DEF Spec

(* The variables have their types, and an idle container no locals of a    *)
(* command.                                                                *)
THEOREM TypeCorrect == Spec => []TypeOK
<1>1. PInv => TypeOK
  BY DEF PInv, Types, TypeOK, Local, IdleAt, StepNames
<1> QED BY <1>1, Invariance, PTL

(* An attachment that cmdAdd has reported has its interface, its reserved  *)
(* address, its port, its gateway and its rules until cmdDel begins.       *)
THEOREM AttachmentsAreComplete == Spec => []AttachedIsComplete
<1>1. ASSUME PInv PROVE AttachedIsComplete
  <2> SUFFICES ASSUME NEW c \in Containers, status[c] = "attached", HasNetns(c)
      PROVE  /\ "if" \in links[c]
             /\ \E a \in held[c] : addrs[c] = {a}
             /\ \A d \in Containers \ {c} : status[d] = "attached" => addrs[c] \cap addrs[d] = {}
             /\ ConfOf[c].plugin = "bridge" => c \in joined
             /\ ConfOf[c].isGW /\ ~ GatewayContested(c) => ConfOf[c].gw \in brAddrs
             /\ ConfOf[c].ipMasq => nat[c] = NatRules
    BY DEF AttachedIsComplete
  <2>1. \A d \in Containers : AttachedAt(d)
    BY <1>1 DEF PInv, Local
  <2>2. ASSUME NEW d \in Containers \ {c}, status[d] = "attached" PROVE addrs[c] \cap addrs[d] = {}
    <3>1. addrs[c] \subseteq held[c] /\ addrs[d] \subseteq held[d]
      BY <2>1, <2>2 DEF AttachedAt
    <3>2. held[c] \cap held[d] = {}
      BY <1>1, <2>2 DEF PInv, HeldOnce
    <3> QED BY <3>1, <3>2
  <2>3. /\ "if" \in links[c] /\ (\E a \in held[c] : addrs[c] = {a})
        /\ (ConfOf[c].plugin = "bridge" => c \in joined) /\ (ConfOf[c].ipMasq => nat[c] = NatRules)
    BY <2>1 DEF AttachedAt
  <2>4. ConfOf[c].isGW /\ ~ GatewayContested(c) => ConfOf[c].gw \in brAddrs
    BY <1>1 DEF PInv, Local, GatewayAt
  <2> QED BY <2>2, <2>3, <2>4
<1> QED BY <1>1, Invariance, PTL

(* After a cmdDel without an error nothing of the container is left, but   *)
(* the masquerading if the namespace had gone before; nor is a temporary   *)
(* link left, but by ipvlan, as long as no call fails.                     *)
THEOREM DelRemovesResources == Spec => []ResourcesRemoved
<1>1. ASSUME PInv PROVE ResourcesRemoved
  <2> SUFFICES ASSUME NEW c \in Containers
      PROVE  /\ status[c] = "none" => "if" \notin links[c] /\ addrs[c] = {} /\ held[c] = {}
             /\ status[c] = "none" /\ netns[c] = "first" => nat[c] = {}
             /\ crashes + faults = 0 /\ ~ Live(c) /\ ConfOf[c].plugin # "ipvlan" => "tmp" \notin links[c]
    BY DEF ResourcesRemoved
  <2>1. Types /\ ContainerAt(c) /\ NoneAt(c) /\ TmpAt(c)
    BY <1>1 DEF PInv, Local
  <2>2. crashes + faults = 0 => NoErrors
    <3>1. MaxCrashes \in Nat /\ MaxFaults \in Nat
      BY InterfaceAssumption DEF InterfaceAssumption
    <3> QED BY <2>1, <3>1 DEF Types, NoErrors
  <2>3. ~ Live(c) => "rename" \notin Rest(c) /\ ~ Undoing(c)
    BY <2>1, Idle
  <2> QED BY <2>1, <2>2, <2>3 DEF ContainerAt, NoneAt, TmpAt
<1> QED BY <1>1, Invariance, PTL

(* The DEL of a complete attachment finds all that it wants to remove, and *)
(* fails only if a call does.                                              *)
THEOREM DelOfAttachedSucceeds == Spec => []DelSucceeds
<1>1. PInv => DelSucceeds
  BY DEF PInv, Local, BrokenAt, DelSucceeds
<1> QED BY <1>1, Invariance, PTL

(* When every command is over, a bridge that was set down to change its    *)
(* address is up again, unless an address had gone under an ADD.           *)
THEOREM BridgeIsLeftUp == Spec => []BridgeStaysUp
<1>1. ASSUME PInv PROVE BridgeStaysUp
  <2>1. Types /\ BridgeOK
    BY <1>1 DEF PInv
  <2>2. crashes + faults = 0 => NoErrors
    <3>1. MaxCrashes \in Nat /\ MaxFaults \in Nat
      BY InterfaceAssumption DEF InterfaceAssumption
    <3> QED BY <2>1, <3>1 DEF Types, NoErrors
  <2>3. \A c \in Containers : ~ Live(c) => "bridgeUp" \notin Rest(c) /\ "gwUp" \notin Rest(c)
    BY <2>1, Idle
  <2> QED BY <2>1, <2>2, <2>3 DEF BridgeOK, BridgeStaysUp
<1> QED BY <1>1, Invariance, PTL
====
