--------------------------- MODULE FlannelProofs ---------------------------
(***************************************************************************)
(* Proofs about the flannel plugin, for any number of containers, networks *)
(* and attachments, any contents of subnet.env, crashes and failures.      *)
(***************************************************************************)
EXTENDS Flannel, TLAPS

(* A configuration that was rendered for some network of container c.      *)
IsConf(c, n) ==
    /\ Usable(n) /\ n # None
    /\ {"name", "type", "ipMasq", "mtu", "ipam"} \subseteq DOMAIN n
    /\ \E a \in Attachments : ContainerOf[a] = c /\ n["name"] = NetworkOf[a]

(* n is for attachment a, among those of its container.                    *)
IsFor(n, a) == n["name"] = NetworkOf[a]

(* The types that TypeOK leaves open.                                      *)
FilesOK ==
    /\ DOMAIN scratch = Containers /\ DOMAIN conf = Containers
    /\ cmd \in [Containers -> Attachments \cup {None}]
    /\ DOMAIN given = Attachments
    /\ \A c \in Containers :
        /\ scratch[c] \in {NoFile, Torn} \/ IsConf(c, scratch[c])
        /\ pc[c] = "remove" => conf[c] \in {NoFile, Torn} \/ IsConf(c, conf[c])
        /\ pc[c] \in {"open", "write", "add", "print"} =>
            IsConf(c, conf[c]) /\ IsFor(conf[c], cmd[c])
        /\ pc[c] = "del" => IsConf(c, conf[c])
    /\ \A a \in Attachments :
        given[a] # None => IsConf(ContainerOf[a], given[a]) /\ IsFor(given[a], a)

(* An ADD starts from nothing, writes its configuration, and then has the  *)
(* delegate make what this configuration says.                             *)
AddOK ==
    \A c \in Containers :
        /\ pc[c] \in {"load", "open", "write", "add"} => made[cmd[c]] = {} \/ cmd[c] \in misused
        /\ pc[c] \in {"write", "add", "print"} => given[cmd[c]] = conf[c]
        /\ pc[c] = "write" => scratch[c] = Torn
        /\ pc[c] \in {"add", "print"} => scratch[c] = conf[c]
        /\ pc[c] = "print" => made[cmd[c]] = Makes(conf[c])

(* What is in the scratch file, or was read from it, is the configuration  *)
(* that its network was added with last, or that network is not there.     *)
Current(c, n) ==
    \A a \in Attachments : ContainerOf[a] = c /\ IsFor(n, a) => given[a] \in {n, None}

ScratchOK ==
    \A c \in Containers :
        /\ Usable(scratch[c]) => Current(c, scratch[c])
        /\ pc[c] \in {"remove", "del"} /\ Usable(conf[c]) =>
            /\ Current(c, conf[c])
            /\ ~ IsFor(conf[c], cmd[c]) =>
                /\ cmd[c] \in misused
                /\ \A b \in Attachments : ContainerOf[b] = c /\ IsFor(conf[c], b) => b \in misused

(* Nothing is there but what the configuration that was saved asks for.    *)
MadeOK ==
    \A a \in Attachments \ misused : made[a] # {} => given[a] # None /\ made[a] \subseteq Makes(given[a])

(* The inductive invariant.                                                *)
FInv ==
    /\ TypeOK /\ FilesOK /\ AddOK /\ ScratchOK /\ MadeOK
    /\ NothingLeft /\ MadeIsRecorded /\ AttachedIsWhole

-----------------------------------------------------------------------------
(* What ADD renders is a configuration for its network.                    *)
LEMMA RenderOK ==
  ASSUME NEW a \in Attachments, NEW e \in Envs, Loads(e), Accepts(Delegate[a])
  PROVE  IsConf(ContainerOf[a], Render(a, e)) /\ IsFor(Render(a, e), a)
<1>1. /\ DOMAIN Added(a, e) = {"name", "type", "ipMasq", "mtu", "ipam"}
      /\ Added(a, e)["name"] = NetworkOf[a]
  BY DEF Added
<1> DEFINE n == WithDefaults(Delegate[a], Added(a, e))
<1>2. {"name", "type", "ipMasq", "mtu", "ipam"} \subseteq DOMAIN n /\ n["name"] = NetworkOf[a]
  BY <1>1 DEF WithDefaults, Accepts
<1>3. /\ {"name", "type", "ipMasq", "mtu", "ipam"} \subseteq DOMAIN Render(a, e)
      /\ Render(a, e)["name"] = NetworkOf[a]
  <2> HIDE DEF n
  <2>1. /\ {"name", "type", "ipMasq", "mtu", "ipam"} \subseteq DOMAIN WithDefaults(n, [isGateway |-> TRUE])
        /\ WithDefaults(n, [isGateway |-> TRUE])["name"] = NetworkOf[a]
    BY <1>2 DEF WithDefaults
  <2>2. Render(a, e) = n \/ Render(a, e) = WithDefaults(n, [isGateway |-> TRUE])
    BY DEF Render, n
  <2> QED BY <1>2, <2>1, <2>2
<1>4. Render(a, e) \notin {NoFile, Torn, None}
  BY ConfAssumption
<1> QED BY <1>3, <1>4 DEF IsConf, IsFor, Usable

(* The networks of a container have different names.                       *)
LEMMA OneNetwork ==
  ASSUME NEW a \in Attachments, NEW b \in Attachments, ContainerOf[a] = ContainerOf[b],
         NEW n, IsFor(n, a), IsFor(n, b)
  PROVE  a = b
BY FlannelAssumption DEF IsFor

(* The parts that a delegate may make.                                     *)
LEMMA MakesParts == \A n : Makes(n) \subseteq {"addr", "link", "masq"}
BY DEF Makes

(* A DEL takes nothing from another attachment, unless it has got the      *)
(* configuration of that attachment's network ...                          *)
LEMMA DelSparesOthers ==
  ASSUME FInv, NEW c \in Containers, pc[c] = "del", NEW b \in Attachments \ misused, b # cmd[c]
  PROVE  Removes(cmd[c], conf[c], b) = {}
<1>1. cmd[c] \in Attachments /\ ContainerOf[cmd[c]] = c /\ Usable(conf[c])
  BY DEF FInv, TypeOK, FilesOK, IsConf
<1>2. ~ (ContainerOf[b] = c /\ IsFor(conf[c], b))
  BY <1>1, OneNetwork DEF FInv, ScratchOK
<1> QED BY <1>1, <1>2 DEF Removes, IsFor

(* ... and never anything from an attachment of another container; ...     *)
LEMMA DelSparesOtherContainers ==
  ASSUME FInv, NEW c \in Containers, pc[c] = "del", NEW b \in Attachments, ContainerOf[b] # c
  PROVE  Removes(cmd[c], conf[c], b) = {}
BY FlannelAssumption DEF FInv, TypeOK, Removes

(* ... but it takes all that was made for its own.                         *)
LEMMA DelTakesAll ==
  ASSUME FInv, NEW c \in Containers, pc[c] = "del", cmd[c] \notin misused
  PROVE  made[cmd[c]] \subseteq Removes(cmd[c], conf[c], cmd[c])
<1>1. cmd[c] \in Attachments /\ ContainerOf[cmd[c]] = c /\ IsConf(c, conf[c]) /\ Usable(conf[c])
  BY DEF FInv, TypeOK, FilesOK, IsConf
<1>2. IsFor(conf[c], cmd[c]) /\ given[cmd[c]] \in {conf[c], None}
  BY <1>1 DEF FInv, ScratchOK, Current
<1>3. made[cmd[c]] = {} \/ made[cmd[c]] \subseteq Makes(conf[c])
  BY <1>1, <1>2 DEF FInv, MadeOK
<1>4. {"link"} \cup (Makes(conf[c]) \ {"link"}) = Removes(cmd[c], conf[c], cmd[c])
  BY <1>1, <1>2 DEF Removes, IsFor
<1> QED BY <1>3, <1>4

(* subnet.env changes, and commands start.                                 *)
LEMMA BeginPreserves ==
  ASSUME FInv, ChangeEnv \/ \E a \in Attachments : BeginAdd(a) \/ BeginDel(a)
  PROVE  FInv'
<1> USE FlannelAssumption DEF FInv, TypeOK, PCs, Goto, history
<1>1. CASE ChangeEnv
  <2>1. TypeOK'
    BY <1>1 DEF ChangeEnv, FilesOK
  <2>2. FilesOK'
    BY <1>1 DEF ChangeEnv, FilesOK
  <2>3. AddOK'
    BY <1>1 DEF ChangeEnv, FilesOK, AddOK, NothingLeft, Quiet
  <2>4. ScratchOK'
    BY <1>1 DEF ChangeEnv, FilesOK, AddOK, ScratchOK, Current
  <2>5. MadeOK'
    BY <1>1 DEF ChangeEnv, FilesOK, AddOK, ScratchOK, MadeOK
  <2>6. NothingLeft'
    BY <1>1 DEF ChangeEnv, FilesOK, AddOK, NothingLeft, Quiet
  <2>7. MadeIsRecorded'
    BY <1>1 DEF ChangeEnv, FilesOK, AddOK, MadeOK, MadeIsRecorded
  <2>8. AttachedIsWhole'
    BY <1>1 DEF ChangeEnv, FilesOK, AddOK, AttachedIsWhole, Quiet
  <2> QED BY <2>1, <2>2, <2>3, <2>4, <2>5, <2>6, <2>7, <2>8
<1>2. ASSUME NEW a \in Attachments, BeginAdd(a) PROVE FInv'
  <2>1. TypeOK'
    BY <1>2 DEF BeginAdd, Begin, FilesOK
  <2>2. FilesOK'
    BY <1>2 DEF BeginAdd, Begin, FilesOK
  <2>3. AddOK'
    BY <1>2 DEF BeginAdd, Begin, FilesOK, AddOK, NothingLeft, Quiet
  <2>4. ScratchOK'
    BY <1>2 DEF BeginAdd, Begin, FilesOK, AddOK, ScratchOK, Current
  <2>5. MadeOK'
    BY <1>2 DEF BeginAdd, Begin, FilesOK, AddOK, ScratchOK, MadeOK
  <2>6. NothingLeft'
    BY <1>2 DEF BeginAdd, Begin, FilesOK, AddOK, NothingLeft, Quiet
  <2>7. MadeIsRecorded'
    BY <1>2 DEF BeginAdd, Begin, FilesOK, AddOK, MadeOK, MadeIsRecorded
  <2>8. AttachedIsWhole'
    BY <1>2 DEF BeginAdd, Begin, FilesOK, AddOK, AttachedIsWhole, Quiet
  <2> QED BY <2>1, <2>2, <2>3, <2>4, <2>5, <2>6, <2>7, <2>8
<1>3. ASSUME NEW a \in Attachments, BeginDel(a) PROVE FInv'
  <2>1. TypeOK'
    BY <1>3 DEF BeginDel, Begin, FilesOK
  <2>2. FilesOK'
    BY <1>3 DEF BeginDel, Begin, FilesOK
  <2>3. AddOK'
    BY <1>3 DEF BeginDel, Begin, FilesOK, AddOK, NothingLeft, Quiet
  <2>4. ScratchOK'
    BY <1>3 DEF BeginDel, Begin, FilesOK, AddOK, ScratchOK, Current
  <2>5. MadeOK'
    BY <1>3 DEF BeginDel, Begin, FilesOK, AddOK, ScratchOK, MadeOK
  <2>6. NothingLeft'
    BY <1>3 DEF BeginDel, Begin, FilesOK, AddOK, NothingLeft, Quiet
  <2>7. MadeIsRecorded'
    BY <1>3 DEF BeginDel, Begin, FilesOK, AddOK, MadeOK, MadeIsRecorded
  <2>8. AttachedIsWhole'
    BY <1>3 DEF BeginDel, Begin, FilesOK, AddOK, AttachedIsWhole, Quiet
  <2> QED BY <2>1, <2>2, <2>3, <2>4, <2>5, <2>6, <2>7, <2>8
<1> QED BY <1>1, <1>2, <1>3

(* ADD.                                                                    *)
LEMMA AddPreserves ==
  ASSUME FInv, NEW c \in Containers,
         \/ Load(c) \/ LoadFails(c) \/ OpenScratch(c) \/ WriteScratch(c) \/ SaveFault(c)
         \/ DelegateAdd(c) \/ DelegateAddFails(c) \/ PrintResult(c)
  PROVE  FInv'
<1> USE FlannelAssumption DEF FInv, TypeOK, PCs, Goto, history
<1>1. CASE Load(c)
  <2>0. IsConf(c, Render(cmd[c], env)) /\ IsFor(Render(cmd[c], env), cmd[c])
    <3>1. cmd[c] \in Attachments /\ ContainerOf[cmd[c]] = c
      BY <1>1 DEF Load, FilesOK
    <3>2. env \in Envs /\ Loads(env) /\ Accepts(Delegate[cmd[c]])
      BY <1>1 DEF Load, Loads
    <3> QED BY <3>1, <3>2, RenderOK
  <2>1. TypeOK'
    BY <1>1, <2>0 DEF Load, FilesOK, IsConf
  <2>2. FilesOK'
    BY <1>1, <2>0 DEF Load, FilesOK
  <2>3. AddOK'
    BY <1>1 DEF Load, FilesOK, AddOK, NothingLeft, Quiet
  <2>4. ScratchOK'
    BY <1>1 DEF Load, FilesOK, AddOK, ScratchOK, Current
  <2>5. MadeOK'
    BY <1>1 DEF Load, FilesOK, AddOK, ScratchOK, MadeOK
  <2>6. NothingLeft'
    BY <1>1 DEF Load, FilesOK, AddOK, NothingLeft, Quiet
  <2>7. MadeIsRecorded'
    BY <1>1 DEF Load, FilesOK, AddOK, MadeOK, MadeIsRecorded
  <2>8. AttachedIsWhole'
    BY <1>1 DEF Load, FilesOK, AddOK, AttachedIsWhole, Quiet
  <2> QED BY <2>1, <2>2, <2>3, <2>4, <2>5, <2>6, <2>7, <2>8
<1>2. CASE LoadFails(c)
  <2>1. TypeOK'
    BY <1>2 DEF LoadFails, End, FilesOK
  <2>2. FilesOK'
    BY <1>2 DEF LoadFails, End, FilesOK
  <2>3. AddOK'
    BY <1>2 DEF LoadFails, End, FilesOK, AddOK, NothingLeft, Quiet
  <2>4. ScratchOK'
    BY <1>2 DEF LoadFails, End, FilesOK, AddOK, ScratchOK, Current
  <2>5. MadeOK'
    BY <1>2 DEF LoadFails, End, FilesOK, AddOK, ScratchOK, MadeOK
  <2>6. NothingLeft'
    BY <1>2 DEF LoadFails, End, FilesOK, AddOK, NothingLeft, Quiet
  <2>7. MadeIsRecorded'
    BY <1>2 DEF LoadFails, End, FilesOK, AddOK, MadeOK, MadeIsRecorded
  <2>8. AttachedIsWhole'
    BY <1>2 DEF LoadFails, End, FilesOK, AddOK, AttachedIsWhole, Quiet
  <2> QED BY <2>1, <2>2, <2>3, <2>4, <2>5, <2>6, <2>7, <2>8
<1>3. CASE OpenScratch(c)
  <2>1. TypeOK'
    BY <1>3 DEF OpenScratch, FilesOK
  <2>2. FilesOK'
    BY <1>3 DEF OpenScratch, FilesOK
  <2>3. AddOK'
    BY <1>3 DEF OpenScratch, FilesOK, AddOK, NothingLeft, Quiet
  <2>4. ScratchOK'
    BY <1>3 DEF OpenScratch, FilesOK, AddOK, ScratchOK, Current, Usable
  <2>5. MadeOK'
    BY <1>3 DEF OpenScratch, FilesOK, AddOK, ScratchOK, MadeOK
  <2>6. NothingLeft'
    BY <1>3 DEF OpenScratch, FilesOK, AddOK, NothingLeft, Quiet
  <2>7. MadeIsRecorded'
    BY <1>3 DEF OpenScratch, FilesOK, AddOK, MadeOK, MadeIsRecorded
  <2>8. AttachedIsWhole'
    BY <1>3 DEF OpenScratch, FilesOK, AddOK, AttachedIsWhole, Quiet
  <2> QED BY <2>1, <2>2, <2>3, <2>4, <2>5, <2>6, <2>7, <2>8
<1>4. CASE WriteScratch(c)
  <2>1. TypeOK'
    BY <1>4 DEF WriteScratch, FilesOK
  <2>2. FilesOK'
    BY <1>4 DEF WriteScratch, FilesOK
  <2>3. AddOK'
    BY <1>4 DEF WriteScratch, FilesOK, AddOK, NothingLeft, Quiet
  <2>4. ScratchOK'
    <3>1. Current(c, conf[c])
      BY <1>4, OneNetwork DEF WriteScratch, FilesOK, AddOK, Current
    <3>2. /\ scratch' = [scratch EXCEPT ![c] = conf[c]] /\ pc' = [pc EXCEPT ![c] = "add"]
          /\ UNCHANGED <<conf, cmd, given, misused>>
      BY <1>4 DEF WriteScratch
    <3> QED BY <3>1, <3>2 DEF FilesOK, ScratchOK, Current
  <2>5. MadeOK'
    BY <1>4 DEF WriteScratch, FilesOK, AddOK, ScratchOK, MadeOK
  <2>6. NothingLeft'
    BY <1>4 DEF WriteScratch, FilesOK, AddOK, NothingLeft, Quiet
  <2>7. MadeIsRecorded'
    BY <1>4 DEF WriteScratch, FilesOK, AddOK, MadeOK, MadeIsRecorded, IsConf, Usable
  <2>8. AttachedIsWhole'
    BY <1>4 DEF WriteScratch, FilesOK, AddOK, AttachedIsWhole, Quiet
  <2> QED BY <2>1, <2>2, <2>3, <2>4, <2>5, <2>6, <2>7, <2>8
<1>5. CASE SaveFault(c)
  <2>1. TypeOK'
    BY <1>5 DEF SaveFault, End, Fault, FilesOK
  <2>2. FilesOK'
    BY <1>5 DEF SaveFault, End, Fault, FilesOK
  <2>3. AddOK'
    BY <1>5 DEF SaveFault, End, Fault, FilesOK, AddOK, NothingLeft, Quiet
  <2>4. ScratchOK'
    BY <1>5 DEF SaveFault, End, Fault, FilesOK, AddOK, ScratchOK, Current
  <2>5. MadeOK'
    BY <1>5 DEF SaveFault, End, Fault, FilesOK, AddOK, ScratchOK, MadeOK
  <2>6. NothingLeft'
    BY <1>5 DEF SaveFault, End, Fault, FilesOK, AddOK, NothingLeft, Quiet
  <2>7. MadeIsRecorded'
    BY <1>5 DEF SaveFault, End, Fault, FilesOK, AddOK, MadeOK, MadeIsRecorded
  <2>8. AttachedIsWhole'
    BY <1>5 DEF SaveFault, End, Fault, FilesOK, AddOK, AttachedIsWhole, Quiet
  <2> QED BY <2>1, <2>2, <2>3, <2>4, <2>5, <2>6, <2>7, <2>8
<1>6. CASE DelegateAdd(c)
  <2>1. TypeOK'
    BY <1>6, MakesParts DEF DelegateAdd, FilesOK
  <2>2. FilesOK'
    BY <1>6, MakesParts DEF DelegateAdd, FilesOK
  <2>3. AddOK'
    BY <1>6 DEF DelegateAdd, FilesOK, AddOK, NothingLeft, Quiet
  <2>4. ScratchOK'
    BY <1>6 DEF DelegateAdd, FilesOK, AddOK, ScratchOK, Current
  <2>5. MadeOK'
    BY <1>6 DEF DelegateAdd, FilesOK, AddOK, MadeOK, IsConf
  <2>6. NothingLeft'
    BY <1>6 DEF DelegateAdd, FilesOK, AddOK, NothingLeft, Quiet
  <2>7. MadeIsRecorded'
    BY <1>6 DEF DelegateAdd, FilesOK, AddOK, MadeOK, MadeIsRecorded
  <2>8. AttachedIsWhole'
    BY <1>6 DEF DelegateAdd, FilesOK, AddOK, AttachedIsWhole, Quiet
  <2> QED BY <2>1, <2>2, <2>3, <2>4, <2>5, <2>6, <2>7, <2>8
<1>7. CASE DelegateAddFails(c)
  <2>1. TypeOK'
    BY <1>7, MakesParts DEF DelegateAddFails, End, Fault, FilesOK
  <2>2. FilesOK'
    BY <1>7 DEF DelegateAddFails, End, Fault, FilesOK
  <2>3. AddOK'
    BY <1>7 DEF DelegateAddFails, End, Fault, FilesOK, AddOK, NothingLeft, Quiet
  <2>4. ScratchOK'
    BY <1>7 DEF DelegateAddFails, End, Fault, FilesOK, AddOK, ScratchOK, Current
  <2>5. MadeOK'
    BY <1>7 DEF DelegateAddFails, End, FilesOK, AddOK, MadeOK, IsConf
  <2>6. NothingLeft'
    BY <1>7 DEF DelegateAddFails, End, Fault, FilesOK, AddOK, NothingLeft, Quiet
  <2>7. MadeIsRecorded'
    BY <1>7 DEF DelegateAddFails, End, Fault, FilesOK, AddOK, MadeOK, MadeIsRecorded
  <2>8. AttachedIsWhole'
    BY <1>7 DEF DelegateAddFails, End, Fault, FilesOK, AddOK, AttachedIsWhole, Quiet
  <2> QED BY <2>1, <2>2, <2>3, <2>4, <2>5, <2>6, <2>7, <2>8
<1>8. CASE PrintResult(c)
  <2>1. TypeOK'
    BY <1>8 DEF PrintResult, End, FilesOK
  <2>2. FilesOK'
    BY <1>8 DEF PrintResult, End, FilesOK
  <2>3. AddOK'
    BY <1>8 DEF PrintResult, End, FilesOK, AddOK, NothingLeft, Quiet
  <2>4. ScratchOK'
    BY <1>8 DEF PrintResult, End, FilesOK, AddOK, ScratchOK, Current
  <2>5. MadeOK'
    BY <1>8 DEF PrintResult, End, FilesOK, AddOK, ScratchOK, MadeOK
  <2>6. NothingLeft'
    BY <1>8 DEF PrintResult, End, FilesOK, AddOK, NothingLeft, Quiet
  <2>7. MadeIsRecorded'
    BY <1>8 DEF PrintResult, End, FilesOK, AddOK, MadeOK, MadeIsRecorded
  <2>8. AttachedIsWhole'
    BY <1>8 DEF PrintResult, End, FilesOK, AddOK, AttachedIsWhole, Quiet
  <2> QED BY <2>1, <2>2, <2>3, <2>4, <2>5, <2>6, <2>7, <2>8
<1> QED BY <1>1, <1>2, <1>3, <1>4, <1>5, <1>6, <1>7, <1>8

(* DEL, up to the call of the delegate.                                    *)
LEMMA DelPreserves ==
  ASSUME FInv, NEW c \in Containers,
         ReadScratch(c) \/ ReadFault(c) \/ RemoveScratch(c) \/ RemoveFault(c)
  PROVE  FInv'
<1> USE FlannelAssumption DEF FInv, TypeOK, PCs, Goto, history
<1>1. CASE ReadScratch(c)
  <2>1. TypeOK'
    BY <1>1 DEF ReadScratch, FilesOK
  <2>2. FilesOK'
    BY <1>1 DEF ReadScratch, FilesOK
  <2>3. AddOK'
    BY <1>1 DEF ReadScratch, FilesOK, AddOK, NothingLeft, Quiet
  <2>4. ScratchOK'
    BY <1>1 DEF ReadScratch, FilesOK, ScratchOK, Current, Usable, IsFor
  <2>5. MadeOK'
    BY <1>1 DEF ReadScratch, FilesOK, AddOK, ScratchOK, MadeOK
  <2>6. NothingLeft'
    BY <1>1 DEF ReadScratch, FilesOK, AddOK, NothingLeft, Quiet
  <2>7. MadeIsRecorded'
    BY <1>1 DEF ReadScratch, FilesOK, AddOK, MadeOK, MadeIsRecorded
  <2>8. AttachedIsWhole'
    BY <1>1 DEF ReadScratch, FilesOK, AddOK, AttachedIsWhole, Quiet
  <2> QED BY <2>1, <2>2, <2>3, <2>4, <2>5, <2>6, <2>7, <2>8
<1>2. CASE ReadFault(c)
  <2>1. TypeOK'
    BY <1>2 DEF ReadFault, Fault, FilesOK
  <2>2. FilesOK'
    BY <1>2 DEF ReadFault, Fault, FilesOK
  <2>3. AddOK'
    BY <1>2 DEF ReadFault, Fault, FilesOK, AddOK, NothingLeft, Quiet
  <2>4. ScratchOK'
    BY <1>2 DEF ReadFault, FilesOK, ScratchOK, Current, Usable
  <2>5. MadeOK'
    BY <1>2 DEF ReadFault, Fault, FilesOK, AddOK, ScratchOK, MadeOK
  <2>6. NothingLeft'
    BY <1>2 DEF ReadFault, Fault, FilesOK, AddOK, NothingLeft, Quiet
  <2>7. MadeIsRecorded'
    BY <1>2 DEF ReadFault, Fault, FilesOK, AddOK, MadeOK, MadeIsRecorded
  <2>8. AttachedIsWhole'
    BY <1>2 DEF ReadFault, Fault, FilesOK, AddOK, AttachedIsWhole, Quiet
  <2> QED BY <2>1, <2>2, <2>3, <2>4, <2>5, <2>6, <2>7, <2>8
<1>3. CASE RemoveScratch(c)
  <2>1. TypeOK'
    BY <1>3 DEF RemoveScratch, End, FilesOK, IsConf, Usable
  <2>2. FilesOK'
    BY <1>3 DEF RemoveScratch, End, FilesOK, IsConf, Usable
  <2>3. AddOK'
    BY <1>3 DEF RemoveScratch, End, FilesOK, AddOK, NothingLeft, Quiet
  <2>4. ScratchOK'
    BY <1>3 DEF RemoveScratch, End, FilesOK, ScratchOK, Current, Usable
  <2>5. MadeOK'
    BY <1>3 DEF RemoveScratch, End, FilesOK, AddOK, ScratchOK, MadeOK
  <2>6. NothingLeft'
    BY <1>3 DEF RemoveScratch, End, FilesOK, AddOK, NothingLeft, Quiet
  <2>7. MadeIsRecorded'
    BY <1>3 DEF RemoveScratch, End, FilesOK, AddOK, MadeOK, MadeIsRecorded
  <2>8. AttachedIsWhole'
    BY <1>3 DEF RemoveScratch, End, FilesOK, AddOK, AttachedIsWhole, Quiet
  <2> QED BY <2>1, <2>2, <2>3, <2>4, <2>5, <2>6, <2>7, <2>8
<1>4. CASE RemoveFault(c)
  <2>1. TypeOK'
    BY <1>4 DEF RemoveFault, End, Fault, FilesOK, IsConf, Usable
  <2>2. FilesOK'
    BY <1>4 DEF RemoveFault, End, Fault, FilesOK, IsConf, Usable
  <2>3. AddOK'
    BY <1>4 DEF RemoveFault, End, Fault, FilesOK, AddOK, NothingLeft, Quiet
  <2>4. ScratchOK'
    BY <1>4 DEF RemoveFault, End, Fault, FilesOK, AddOK, ScratchOK, Current
  <2>5. MadeOK'
    BY <1>4 DEF RemoveFault, End, Fault, FilesOK, AddOK, ScratchOK, MadeOK
  <2>6. NothingLeft'
    BY <1>4 DEF RemoveFault, End, Fault, FilesOK, AddOK, NothingLeft, Quiet
  <2>7. MadeIsRecorded'
    BY <1>4 DEF RemoveFault, End, Fault, FilesOK, AddOK, MadeOK, MadeIsRecorded
  <2>8. AttachedIsWhole'
    BY <1>4 DEF RemoveFault, End, Fault, FilesOK, AddOK, AttachedIsWhole, Quiet
  <2> QED BY <2>1, <2>2, <2>3, <2>4, <2>5, <2>6, <2>7, <2>8
<1> QED BY <1>1, <1>2, <1>3, <1>4

(* The call of the delegate by DEL ends, and a command is killed.          *)
LEMMA EndPreserves ==
  ASSUME FInv, NEW c \in Containers, DelegateDel(c) \/ DelegateDelFails(c) \/ Crash(c)
  PROVE  FInv'
<1> USE FlannelAssumption DEF FInv, TypeOK, PCs, history
<1>1. CASE DelegateDel(c)
  <2>1. \A b \in Attachments : made'[b] = made[b] \ Removes(cmd[c], conf[c], b)
    BY <1>1 DEF DelegateDel
  <2>2. \A b \in Attachments \ misused : b # cmd[c] => made'[b] = made[b]
    <3>1. pc[c] = "del"
      BY <1>1 DEF DelegateDel
    <3>2. \A b \in Attachments \ misused : b # cmd[c] => Removes(cmd[c], conf[c], b) = {}
      BY <3>1, DelSparesOthers
    <3> HIDE DEF FInv, TypeOK
    <3> QED BY <2>1, <3>2
  <2>0. \A b \in Attachments : ContainerOf[b] # c => made'[b] = made[b]
    <3>1. pc[c] = "del"
      BY <1>1 DEF DelegateDel
    <3>2. \A b \in Attachments : ContainerOf[b] # c => Removes(cmd[c], conf[c], b) = {}
      BY <3>1, DelSparesOtherContainers
    <3> HIDE DEF FInv, TypeOK
    <3> QED BY <2>1, <3>2
  <2>3. cmd[c] \notin misused => made'[cmd[c]] = {}
    BY <1>1, <2>1, DelTakesAll DEF DelegateDel, FilesOK
  <2>4. TypeOK'
    BY <1>1 DEF DelegateDel, End, FilesOK
  <2>5. FilesOK'
    BY <1>1 DEF DelegateDel, End, FilesOK
  <2>6. AddOK'
    BY <1>1, <2>0 DEF DelegateDel, End, FilesOK, AddOK
  <2>7. ScratchOK'
    BY <1>1 DEF DelegateDel, End, FilesOK, ScratchOK, Current
  <2>a. /\ \A b \in Attachments \ {cmd[c]} : given'[b] = given[b]
        /\ UNCHANGED <<scratch, overwritten, misused, consumed>>
    BY <1>1 DEF DelegateDel, FilesOK
  <2>8. MadeOK'
    <3>1. MadeOK
      OBVIOUS
    <3> HIDE DEF FInv, TypeOK
    <3> QED BY <2>2, <2>3, <2>a, <3>1 DEF MadeOK
  <2>9. NothingLeft'
    <3>1. cmd[c] \in Attachments /\ ContainerOf[cmd[c]] = c
      BY <1>1 DEF DelegateDel, FilesOK
    <3>2. ASSUME NEW b \in Attachments \ misused, b # cmd[c], status'[b] = "none", Quiet(b)'
          PROVE  status[b] = "none" /\ Quiet(b)
      BY <1>1, <3>1, <3>2 DEF DelegateDel, End, FilesOK, Quiet
    <3>3. misused' = misused
      BY <1>1 DEF DelegateDel
    <3> QED BY <2>2, <2>3, <3>2, <3>3 DEF NothingLeft
  <2>10. MadeIsRecorded'
    <3>1. MadeIsRecorded
      OBVIOUS
    <3> HIDE DEF FInv, TypeOK
    <3> QED BY <2>2, <2>3, <2>a, <3>1 DEF MadeIsRecorded
  <2>11. AttachedIsWhole'
    BY <1>1, <2>2 DEF DelegateDel, End, FilesOK, AttachedIsWhole, Quiet
  <2> QED BY <2>4, <2>5, <2>6, <2>7, <2>8, <2>9, <2>10, <2>11
<1>2. ASSUME pc[c] # "idle", End(c, "failed"), UNCHANGED <<env, scratch, history>>,
             faults' \in 0 .. MaxFaults, crashes' \in 0 .. MaxCrashes,
             made' \in [Attachments -> SUBSET {"addr", "link", "masq"}],
             \A b \in Attachments \ misused : b # cmd[c] => made'[b] = made[b],
             \A b \in Attachments : ContainerOf[b] # c => made'[b] = made[b],
             \A b \in Attachments : b # cmd[c] => made'[b] \subseteq made[b],
             made'[cmd[c]] \subseteq made[cmd[c]] \/ (pc[c] = "add" /\ made'[cmd[c]] \subseteq Makes(conf[c]))
      PROVE  FInv'
  <2>1. TypeOK'
    BY <1>2 DEF End, FilesOK
  <2>2. FilesOK'
    BY <1>2 DEF End, FilesOK
  <2>3. AddOK'
    BY <1>2 DEF End, FilesOK, AddOK
  <2>4. ScratchOK'
    BY <1>2 DEF End, FilesOK, ScratchOK, Current
  <2>5. MadeOK'
    BY <1>2 DEF End, FilesOK, AddOK, MadeOK, IsConf
  <2>6. NothingLeft'
    BY <1>2 DEF End, FilesOK, NothingLeft, Quiet
  <2>7. MadeIsRecorded'
    BY <1>2 DEF End, FilesOK, AddOK, MadeIsRecorded
  <2>8. AttachedIsWhole'
    BY <1>2 DEF End, FilesOK, AttachedIsWhole, Quiet
  <2> QED BY <2>1, <2>2, <2>3, <2>4, <2>5, <2>6, <2>7, <2>8
<1>3. ASSUME pc[c] = "del", RemovesSome(c)
      PROVE  /\ made' \in [Attachments -> SUBSET {"addr", "link", "masq"}]
             /\ \A b \in Attachments \ misused : b # cmd[c] => made'[b] = made[b]
             /\ \A b \in Attachments : ContainerOf[b] # c => made'[b] = made[b]
             /\ \A b \in Attachments : made'[b] \subseteq made[b]
             /\ cmd[c] \in Attachments
  BY <1>3, DelSparesOthers, DelSparesOtherContainers DEF RemovesSome, FilesOK
<1>4. ASSUME pc[c] = "add", NEW s \in SUBSET Makes(conf[c]), made' = [made EXCEPT ![cmd[c]] = s]
      PROVE  /\ made' \in [Attachments -> SUBSET {"addr", "link", "masq"}]
             /\ \A b \in Attachments : b # cmd[c] => made'[b] = made[b]
             /\ made'[cmd[c]] \subseteq Makes(conf[c])
             /\ ContainerOf[cmd[c]] = c
  BY <1>4, MakesParts DEF FilesOK
<1>5. CASE DelegateDelFails(c)
  BY <1>2, <1>3, <1>5 DEF DelegateDelFails, Fault
<1>6. CASE Crash(c)
  <2>1. /\ pc[c] # "idle" /\ End(c, "failed") /\ UNCHANGED <<env, scratch, history>>
        /\ faults' \in 0 .. MaxFaults /\ crashes' \in 0 .. MaxCrashes
    BY <1>6 DEF Crash
  <2>2. CASE pc[c] = "add"
    BY <1>2, <1>4, <1>6, <2>1, <2>2 DEF Crash
  <2>3. CASE pc[c] = "del"
    BY <1>2, <1>3, <1>6, <2>1, <2>3 DEF Crash
  <2>4. CASE pc[c] \notin {"add", "del"}
    BY <1>2, <1>6, <2>1, <2>4 DEF Crash
  <2> QED BY <2>2, <2>3, <2>4
<1> QED BY <1>1, <1>5, <1>6

(* The inductive invariant holds whatever the containers' commands,        *)
(* flanneld and the delegates do, and wherever they fail.                  *)
THEOREM Invariance == Spec => []FInv
<1>1. Init => FInv
  BY FlannelAssumption DEF Init, FInv, TypeOK, PCs, FilesOK, AddOK, ScratchOK, Usable, MadeOK, NothingLeft,
     MadeIsRecorded, AttachedIsWhole
<1>2. FInv /\ [Next]_vars => FInv'
  <2> SUFFICES ASSUME FInv, [Next]_vars PROVE FInv'
    OBVIOUS
  <2>1. CASE UNCHANGED vars
    BY <2>1 DEF vars, history, FInv, TypeOK, FilesOK, AddOK, ScratchOK, Current, MadeOK, NothingLeft,
                Quiet, MadeIsRecorded, AttachedIsWhole
  <2>2. CASE Next
    BY <2>2, BeginPreserves, AddPreserves, DelPreserves, EndPreserves DEF Next
  <2> QED BY <2>1, <2>2
<1> QED BY <1>1, <1>2, PTL DEF Spec

(* Type correctness of the flannel plugin: a delegate is only ever called  *)
(* with a complete configuration for a network of its container.           *)
THEOREM TypeCorrect == Spec => []TypeOK
<1>1. FInv => TypeOK
  BY DEF FInv
<1> QED BY <1>1, Invariance, PTL

(* When cmdDel has succeeded its delegate has removed all that cmdAdd's    *)
(* has made, although subnet.env may have changed in between.              *)
THEOREM DelRemovesAll == Spec => []NothingLeft
<1>1. FInv => NothingLeft
  BY DEF FInv
<1> QED BY <1>1, Invariance, PTL

(* saveScratchNetConf comes before the delegate: what is made is recorded, *)
(* wherever the plugin is killed.                                          *)
THEOREM RecordedBeforeMade == Spec => []MadeIsRecorded
<1>1. FInv => MadeIsRecorded
  BY DEF FInv
<1> QED BY <1>1, Invariance, PTL

(* Commands for other networks and other containers leave an attachment    *)
(* whole, unless they read its configuration from the scratch file.        *)
THEOREM AttachedStaysWhole == Spec => []AttachedIsWhole
<1>1. FInv => AttachedIsWhole
  BY DEF FInv
<1> QED BY <1>1, Invariance, PTL
=============================================================================
