# A formal model of the CNI plugins

TLA+ modules that model the Container Network Interface repository (libcni, the
reference plugins and the IPAM plugins), TLC configurations that check them on small
instances, and TLAPS proofs, for every instance, of all the safety properties that the passing runs check. `PROJECT.json` lists components, runs, mutants,
hazards, findings and theorems, and maps every definition to the lines it models.

Paths below are relative to the repository (`src/`).

## 1. Inventory

CNI is a set of executables. A container runtime runs one of them with the operation
(`CNI_COMMAND` ADD or DEL), the container id, the path of a network namespace and an
interface name in environment variables and a network configuration on stdin; an
interface plugin runs an IPAM plugin in turn, in the same way. Nothing is in memory
between two commands except in the DHCP daemon, so the state is what the executables
leave behind: files, kernel links and addresses, iptables rules.

| Component | State it keeps | Operations | Interacts through |
|---|---|---|---|
| host-local (`plugins/ipam/host-local`) | a directory per network: one file per reserved address, `last_reserved_ip` | ADD: `Get`; DEL: `Release` | `flock` on the directory; run by interface plugins |
| address arithmetic (`pkg/ip/cidr.go`, `validateRangeIP`, `networkRange`) | none | `NextIP`, `PrevIP`, `Network`, range checks | called by host-local |
| DHCP lease (`plugins/ipam/dhcp/lease.go`) | the ACK, three points in time, a stop channel | `AcquireLease`, `maintain`, `renew`, `commit`, `Stop` | packets to a DHCP server; the container's link |
| DHCP daemon (`daemon.go`, `main.go`) | a map of leases under a mutex | RPCs `Allocate`, `Release` | Unix socket; plugin processes that may die |
| DHCP options (`options.go`) | none | parsing of routers, routes, durations | called by lease and daemon |
| bridge, ptp, macvlan, ipvlan (`plugins/main`) | links, addresses, the shared bridge, iptables chains | ADD, DEL | netlink, iptables, an IPAM plugin |
| `pkg/ip` links and masquerading, `pkg/ipam` | as above | `SetupVeth`, `DelLinkByName(Addr)`, `SetupIPMasq`, `TeardownIPMasq`, `ConfigureIface` | called by the interface plugins |
| flannel (`plugins/meta/flannel`) | a scratch configuration file per container | ADD, DEL | runs a delegate plugin |
| tuning, loopback | sysctls; the flag of `lo` | ADD, DEL | kernel |
| `pkg/ns` | the namespace of an OS thread, mount points of namespaces | `Do`, `Set`, `GetNS`, `NewNS`, `Close` | kernel, Go scheduler; called by every plugin and the DHCP daemon |
| `pkg/skel`, `pkg/invoke`, `libcni` | environment of a child process | dispatch, execution, configuration lookup | exec |
| `pkg/types`, `pkg/version`, `pkg/utils` | none | JSON, reflection | all |

Which behaviours are hard, and what makes each component correct:

* **host-local.** Processes for one network run concurrently, may be killed between two
  system calls, and ignore the error of `flock` and the errors of the walk in a DEL.
  Correct is: an address is never in two hands, a reservation survives until the DEL of
  its container, what is returned is in the configured range, a search fails only if
  there is nothing to find, a DEL frees everything, the damage of a crash is bounded,
  every command ends.
* **Address arithmetic.** Lengths change in `big.Int`, byte loops with early exits,
  host bits that stay in a parsed CIDR. Correct is: bytes and integers agree, and what
  `NewIPAllocator` accepts is a usable range.
* **DHCP lease.** Two timers and an expiry race with retries that take a minute, and longer if other
  IP packets are on the link; the server may be late, refuse, answer badly or go; `Stop` may come at any time.
  Correct is: an expired lease is given up, within a bound that depends on the traffic only, and a live one is not,
  renewal is not overslept, `Stop` returns, the address does not change.
* **DHCP daemon.** Concurrent handlers for the same key, clients that die while the
  handler goes on, repeated DELs, a map that is lost with the process. Correct is: the
  lease of an attached interface is maintained, that of a detached one is not, a handler
  stops its own lease only, every call is answered.
* **Interface plugins.** Each command is a sequence of calls with no transaction and
  almost no undo, ADDs of several containers share the bridge, and a DEL meets whatever
  a failed ADD or DEL has left. Correct is: an attachment reported complete stays so, a DEL
  that succeeds leaves nothing, the DEL of a complete attachment succeeds, the bridge is up when all is quiet.
* **flannel.** DEL knows only what ADD has written to a scratch file, which is named after the container and
  removed before the delegate is run; `subnet.env` changes while containers run. Correct is: whatever a delegate has made
  is on record, a DEL that succeeds leaves nothing, an attachment is not harmed by the commands for another.
* **Namespaces.** A namespace belongs to a thread and a goroutine to no thread in particular; errors on
  the way back are ignored, and new threads are born in the namespace of their parent. Correct is: a function runs in
  its namespace at every step, threads come home, the host namespace that is handed out is the caller's, nothing stays
  mounted without an owner, every call returns.
* **Options, environment, arguments.** Byte formats with compressed fields, and texts that are joined here and split there.
  Correct is: what goes in comes out, or is refused.

The hazards are listed with their lines in `PROJECT.json`, each with the properties that
would catch it going wrong.

## 2. Modules

| Module | Models | Role |
|---|---|---|
| `IPRange` | `allocator.go`, `cidr.go` | address arithmetic over integers |
| `IPBytes` | the same over byte slices | shown to agree with `IPRange` |
| `RangeCheck` | `NewIPAllocator` | every configuration over the addresses of `IPBytes` |
| `AddressPool` | - | abstract specification of an IPAM plugin |
| `HostLocal` | `plugins/ipam/host-local` | one action per system call; refines `AddressPool` |
| `HostLocalInv` | - | the inductive invariants |
| `HostLocalProofs` | - | theorems on host-local |
| `LeaseTimes` | `lease.go` `commit` | the three times, in `time.Duration` arithmetic |
| `DHCPLease` | `lease.go` | one lease's goroutine, in real time |
| `DHCPLeaseProofs` | - | its inductive invariant and theorems, and one on the three times |
| `LeaseCycle` | - | abstract life cycle of a lease, which `DHCPLease` and each lease of `DHCPDaemon` refine |
| `DHCPDaemon` | `daemon.go`, `main.go` | handlers, map of leases, plugin processes |
| `DHCPDaemonProofs` | - | its inductive invariants and theorems |
| `InterfacePlugin` | `plugins/main/{bridge,ptp,macvlan,ipvlan}`, `pkg/ip`, `pkg/ipam` | ADD and DEL as step sequences |
| `InterfacePluginProofs` | - | its inductive invariant and theorems |
| `Flannel` | `plugins/meta/flannel` | ADD and DEL, the scratch file, an abstract delegate |
| `FlannelProofs` | - | its inductive invariant and theorems |
| `NetNS` | `pkg/ns/ns.go` | goroutines, threads and namespaces |
| `NetNSProofs` | - | its inductive invariant and theorems |
| `Concatenation` | `strings.Join` | sequences that are put together from parts |
| `DHCPOptions` | `options.go`, `Routes` of `lease.go` | static and classless routes, against a server that encodes them |
| `Invocation` | `libcni/api.go`, `pkg/invoke`, `pkg/skel`, `pkg/types/args.go` | parameters from the runtime to plugin, delegate and IPAM |
| `Conversions` | - | composes `RangeCheck`, `DHCPOptions` and `Invocation`: one initial state per input |
| `ConversionsProofs` | - | theorems on `IPBytes`, `RangeCheck`, `DHCPOptions` and `Invocation` |
| `Induction` | - | induction and recursion over the natural numbers, as lemmas the provers can use |
| `MC...` | - | instances for TLC |

### HostLocal

`dir` maps every file name (`LastFile` or an address) to its content: `NoFile`, `Empty` for a file
that was created and not written, a container id, or for `last_reserved_ip` an address. `lock` is
the holder of the flock. `pc`, `op`, `cid`, `conf`, `cur`, `endIP`, `todo` and `result` are the program
counter and the variables of a process. `granted` is history: the pairs of container and address that
an ADD has printed and no DEL has been started for since. A slot of `Procs` is used again once its
process has ended, so that behaviours have any number of commands.

| Code | Actions |
|---|---|
| `cmdAdd`, `cmdDel`, `disk.New`, `NewIPAllocator` | `Begin`, `Reject`, `Open`, `OpenFault` |
| `FileLock.Lock` (error ignored in `Get` and `Release`) | `Lock`, `LockFault` |
| `Get`, requested address | `RefuseRequest`, `Request` |
| `Get`, loop with `getSearchRange` | `Search`, `SearchFault`, `Exhausted`, `SkipGateway`, `Try`, `Advance` |
| `Store.Reserve` | `Taken`, `Create`, `WriteID`, `Close`, `Undo`, `Truncate`, `WriteLast` and their faults |
| `Store.ReleaseByID` | `Walk`, `Match`, `Mismatch`, `Remove`, `WalkDone` and their faults |
| deferred `Unlock`, result printed, process killed | `Unlock`, `Return`, `PrintFault`, `Crash` |

Two assumptions about the runtime are in `Begin`: it runs one command per container at a time, and it
considers the container's addresses given back when it starts a DEL. A lock that fails (`LockFault`) leaves
the process running inside `Get` without the lock, as in the code. `ReleaseByID` compares the content of
*every* file, `last_reserved_ip` included, with the id; the id may be the empty string or the
text of an address (run `hostlocal_live`).

### IPRange, IPBytes, RangeCheck

An address is an integer, a mask the number of addresses it spans, and a subnet keeps the host bits
of the text it was parsed from. `IPBytes` has the loops of `validateRangeIP`, `networkRange`,
`ip.Network` and the `big.Int` conversions of `NextIP` and `PrevIP` as they are, with bytes of
`Base` values and addresses of `Width` bytes.

### LeaseTimes, DHCPLease

`renewal`, `rebinding` and `expire` are the seconds left until the three points in time; they are cut off
at `-MaxPast`, one more than any property looks at, so that a lease may be renewed any number of times
without an horizon. `wait` is how long the goroutine stays blocked, and `Tick` lets a second pass. `pc` is
`client` (socket about to be made), `try` (a packet is out), `sleep` (between two tries), `loop` (head of
`maintain`'s loop), `select`, `done` or `failed`. The server's choices (when it answers, with which
times and address, whether at all) are nondeterministic. An ACK's packet may take any time up to the timeout, and longer
if there is traffic: the client's socket is a packet socket that gets every IP packet of the link, and `GetOffer` and
`GetAcknowledgement` of the vendored client set the read timeout anew after each packet that is not theirs (`vendor/github.com/d2g/dhcp4client/client.go:127`,
`172`). `ForeignPacket` is such a packet; it may come any number of times, so that a single try may last for ever. `held` (history) sums up what these packets may have cost
since the last `commit`, up to `MaxHeld`, from where nothing is said about the time any more. A failure to open the socket returns at once, and `maintain` then spins; `ClientFault` lumps
the rounds of one second together. `tried` is history: what was tried since the last `commit`, and
whether `renew` has ignored an error of `commit` since.

### DHCPDaemon

`leases` is the map, `owner`, `phase` and `closed` describe the lease objects (with the life cycle that
`DHCPLease` has in detail), `pc`, `att`, `lse` and `client` the handlers and whether their plugin process
still waits, `status` what the runtime knows of an attachment, `keyOf` the key of each attachment (the
concatenation of container id and network name, which different attachments may share), `disturbed` (history) whether a plugin
process was killed, a DEL repeated, or a lease replaced in the map by that of another attachment. `Acquired` ... `SetLease` are `Allocate`,
`GetLease` ... `Stopped` are `Release`, the accesses to the map under the mutex being one action each. `Panic` is the
close of a closed channel in a handler: it ends the daemon. An acquisition, and a goroutine that was stopped, may stay as they are for ever (`AwaitsLease`): the
lease may be in a try that foreign packets prolong. Lease objects are reused
once neither the map nor a handler refers to them.

### InterfacePlugin

`todo` is the sequence of the steps that the running command has still to take: `AddScript` and
`DelScript` give it for each plugin, in the order of the calls in `cmdAdd` and `cmdDel` (`AddSteps` and `DelSteps` are the names of the steps). Each step has
an action for success, one for each error the code meets by itself (a name or an address that is taken, an
address or a rule that is missing, IPAM exhausted), and `CallFault` for any other failure. `kernel` is
what the commands leave behind. Calls whose effect no property speaks of (routes, MTU, hardware
addresses, sysctls, forwarding) are `settings` steps, which may fail. `ensureBridgeAddr` is modelled in
full: the list of addresses is read in one step and used in later ones. The IPAM plugin is external
here: it behaves as an `AddressPool`, and it may fail with the address reserved all the same, as
`HostLocal` shows (`LastFault`, `PrintFault`). A container whose namespace is gone gets no `CNI_NETNS` in its DEL;
`netns` remembers whether a namespace is the container's first one. `raced` (history) tells that an ADD has found the
bridge's address gone which it was about to delete.

### Flannel

`env` is `subnet.env`, a record of its fields, some of them missing or not parseable; `scratch` the scratch file of each
container: no file, `Torn` after it was opened and before it was written, or a rendered configuration. `Render` is the dictionary that
`cmdAdd` builds, with what the network's own `delegate` dictionary already has kept as it is. `made` is what the delegate has made
for an attachment: its address, its interface, and masquerading if `ipMasq` is set. The delegate is external: it finds the interface by
its own name, and address and masquerading under the network's name in the configuration, as the bridge plugin with
host-local does, which is why a DEL with another network's configuration takes from the wrong attachment. When it fails it has done any part.
`given`, `overwritten`, `misused` and `consumed` are history.

| Code | Actions |
|---|---|
| `cmdAdd`, `loadFlannelNetConf`, `loadFlannelSubnetEnv` | `BeginAdd`, `Load`, `LoadFails` |
| `saveScratchNetConf` | `OpenScratch`, `WriteScratch`, `SaveFault` |
| `delegateAdd` | `DelegateAdd`, `DelegateAddFails`, `PrintResult` |
| `consumeScratchNetConf` (deferred `Remove`) | `ReadScratch`, `ReadFault`, `RemoveScratch`, `RemoveFault` |
| `cmdDel` | `BeginDel`, `DelegateDel`, `DelegateDelFails` |
| flanneld; a kill | `ChangeEnv`; `Crash` |

### NetNS

`tns` is the namespace of each thread, `on` the thread a goroutine is locked to; a goroutine that is not locked takes each of its
steps on any free thread (`RunsOn`). `Do` and `NewNS` start a worker (`Go`) and wait for it. `Do` first notes the thread that its caller is on (`Gettid`, in `tid`) and in a later step opens
the namespace that this thread is in *then* (`OpenHost`): a caller that is not locked may be on another thread by that time, and the old one be a worker's; `overtaken` (history) has the callers whose
`Do` met this. The worker gets a free
thread and locks itself to it (`Dispatch`), opens the thread's namespace (`OpenThread`), enters the target (`Set`), runs the
function, during which it may call `Do` and `NewNS` itself, goes back (`SetBack`) and ends (`Exit`), upon which its thread serves
other goroutines again. `Clone` is the scheduler's new thread, which is born in the namespace of the thread that clones it, as in
the Go releases of the code's time. `mnt` and `obj` are the mount point and the object of a namespace that `NewNS` makes.
A `Do` that cannot open its caller's namespace returns without a worker (`HostFault`). `Close` may fail to close the file, after which the object is neither usable nor closed (`"stale"`), or to unmount it (`CloseFault`);
the failure to close a handle that is mounted nowhere changes nothing and is left out.

### DHCPOptions, Invocation, Conversions

In `DHCPOptions` an option is what a server has encoded, cut after any number of bytes; `ParseRoutes` and
`ParseCIDRRoutes` are the loops of `options.go` over these bytes (`NextRoute`, `NextCIDRRoute` is the body), and `RoutesAreOffered` compares with the routes that
went in. In `Invocation` a text is a sequence of words and separators (`Words`), joined by `AsEnv` and `Stringify` and split by
`DelegatePath` and `LoadArgs`; `TakePair` is the body of the loop of `LoadArgs`. Environments are lists with duplicates, since `AsEnv` appends to `os.Environ()`, and the
properties hold whichever of two values `Getenv` finds: this depends on the release of Go.

## 3. Runs

Runs that pass. The bounds are in the `.cfg` files; every one names its bound as a constant.

| Run | Instance | What is shown |
|---|---|---|
| `hostlocal` | 2 processes, 2 containers, two overlapping ranges of one network with the gateway in the middle and at the end, 1 kill, 2 failing calls, `flock` included | the inductive invariant `IInv` (which has `TypeOK`, and implies `PendingIsOnDisk` and `ReturnsPoolAddress`), `GrantedIsOnDisk`, `ExhaustedMeansFull`, `NoLeak`, `OrphanBound` |
| `hostlocal_live` | requests granted and refused, a configuration that is rejected, ids that are the empty string and an address, 1 kill, fairness | `ReleaseFreesAll`, refinement of `AddressPool` (`ImplementsPool`), `Terminates` |
| `conversions` | bytes of 2 bits, addresses of 2 bytes, all masks, all configurations; up to two routes in an option (`MaxRoutes`), widths 0, 1, 8, 9, 32 and 33, cut anywhere; up to two pairs of arguments, parameters empty or not, three environments | `BytesAgree`: comparison, end of a network, successor and predecessor; `AcceptedRangeIsSound`, which is `ConfAssumption` of `HostLocal` for the configurations it covers; `RoutesAreOffered`; `ParametersArrive` |
| `dhcp_lease` | 3 tries, delays of 2 and 4 and a timeout of 2 units, leases of 12 and 30, T1 and T2 missing, 6 or 30, a Duration in which 85 times 30 overflows, foreign packets, of whose time up to 5 units are counted, bad ACKs, a server that may go, fairness | `NotOverdue`, `EndsForAReason`, `WakesForRenewal`, `StopReturns`, `LeaseEnds` |
| `dhcp_daemon` | 2 concurrent calls, 2 containers with keys that differ or collide, 1 killed client, repeated DELs, restarts, fairness | `StopsOwnKey`, `AttachedIsMaintained`, `DetachedIsStopped`, `CallsReturn` |
| `bridge` | 3 containers on a bridge, 2 gateways, `forceAddress` on two of them, 2 addresses, 1 kill, 1 failing call | `AttachedIsComplete`, `ResourcesRemoved`, `BridgeStaysUp` |
| `interfaces` | ptp (with masquerading), macvlan, ipvlan, 2 addresses for 3 containers, 1 failing call, the namespaces of ptp and macvlan may go | `DelSucceeds`, `AttachedIsComplete`, `ResourcesRemoved` |
| `netns` | 3 threads, the locked main goroutine, one that is not locked, 2 workers, a namespace with a path and one to make, 1 failing call (and the clean-up after it), fairness | `RunsInTarget`, `ThreadsComeHome`, `HostIsCallers`, `MountsOwned`, `CallsReturn` |
| `flannel` | 1 container on 2 networks (bridge with defaults, ipvlan with its own values) and a third that is refused, 4 contents of `subnet.env`, 2 failures, 1 kill | `NothingLeft`, `MadeIsRecorded`, `AttachedIsWhole` |

Why the bounds are enough. In host-local all interference is pairwise: two processes meet every order of
system calls, and a third would only queue for the lock. Ranges of two and three addresses with
the gateway among them have searches that wrap, that skip the gateway, that fail and that meet
an address freed behind them; two overlapping ranges make
`last_reserved_ip` point out of the range; two failing calls reach the `Undo` that fails as well. What TLC
shows there for two processes is proved for any number, and so are the safety properties of all the other runs (section 5): for these the bounds below matter only for liveness, and for the
faithfulness of what is being proved. For bytes, two bits and two
bytes have masks that end inside the first byte, at a byte boundary and inside the last byte. For
the lease, 12 units are shorter than a round of renewing (19 at most) and 30 are longer than it and shorter than both rounds, so that a lease runs out during the first, during the second or not at all; the code's own delays (4 to 32 s) would only
have more states of the same kind, and the theorems are about any.
In the daemon, two calls are an ADD or a DEL of each container, or, once a client was killed, two handlers for the
same key, and three lease objects are one in the map for each of two keys and one that is being acquired. One client may be killed; repeated DELs and
restarts are not bounded. The run that shows the repeated DEL has neither colliding keys nor killed clients, so that only the panic can end a lease there. In `NetNS`, two workers are two independent calls or one nested in the other, and three threads are one for the
main goroutine and one for each worker, so that the handler has to share. In `Flannel` all that containers share is `subnet.env`, which changes at any
time, so that one container is enough, and two networks contend for its scratch file; two failures are an ADD and a DEL that fail. For the interface
plugins, interference is through the bridge and the IPAM pool, both of which two containers contend
for; a kill or a failing call in a behaviour already produce an attachment that is
half made and then half removed, and commands are repeated without a bound.

Symmetry is used only in runs without liveness, over processes, ids, RPC slots and pool addresses that
no constant tells apart. Deadlock is checked everywhere but for the lease, whose goroutine ends.

Every property of a passing run has a mutant of the code that violates it (`PROJECT.json`); the mutants
are the definitions commented "Mutant:" next to the definitions they replace.

### Fairness

* `HostLocal`: weak fairness of a process's steps (it runs unless it is killed), and strong
  fairness of `Lock`: Linux wakes the waiters of a `flock` in the order of their requests, so that
  nobody waits for ever while others come and go.
* `DHCPLease`: weak fairness of the goroutine and of time, and strong fairness of `SeeStop`: a Go `select`
  chooses at random among the branches that are ready, so that the stop branch is taken in the end if it is
  ready again and again. No fairness is assumed of the server or of the caller of `Stop`, nor that the traffic on the link pauses: `StopReturns` and `LeaseEnds` have the
  alternative that the goroutine stays in one try for ever, which no step of its own can end.
* `DHCPDaemon`: weak fairness of the steps of the handlers other than the end of an acquisition. None is assumed of acquisitions and of lease goroutines, for the same reason;
  `CallsReturn` has the alternative that a handler waits for its lease for ever.
* `NetNS`: weak fairness of the workers, of callers whose worker has ended, and of `Clone`: the scheduler starts a thread when a
  goroutine is ready and no thread is free. Strong fairness of `Finish`: the functions that the plugins pass to `Do` make a finite number
  of nested calls.

## 4. Disagreements between code and documentation

Runs that expect a violation, each of a statement in a comment or a document.

| Run | Statement | What happens |
|---|---|---|
| `hostlocal_smallest` | "end is inclusive and may be allocated" (`allocator.go:30`) | the search stops at its end without trying it: a `/30` with all defaults never yields an address |
| `dhcp_lease_bad_ack` | "lease expired, bringing interface DOWN" (`lease.go:208`) | `renew` ignores `commit`'s error, and expiry is never looked at |
| `dhcp_daemon_redelivered` | "The acquired lease will be maintained until Release() is called." (`daemon.go:52`) | a second DEL closes a closed channel and ends the daemon, and other containers' leases with it |

The exceptions that the passing properties state mark further places where the code does less than one might
expect:

* `AcceptedRangeIsSound` excludes a `rangeStart` at the broadcast address, which is accepted and tried first, and a
  subnet written with host bits, whose default start and gateway (`NextIP(Subnet.IP)`) are not the first
  addresses of the subnet.
* `NotOverdue`, `StopReturns`, `LeaseEnds` and `CallsReturn` of the daemon have no bound on the time that a try takes if other IP packets arrive on the link less than the timeout (5 s) apart: expiry and the stop channel are not
  looked at meanwhile (`lease.go:194`, `218`). `WakesForRenewal` says when renewing and rebinding are due; a round of renewing may last beyond the end of the lease, so that rebinding begins after it.
* `TimesWithinLease` assumes that 85 times the lease time does not overflow, which in nanoseconds it does for
  leases beyond some 3.4 years, the infinite lease included (`lease.go:156`).
* Rebinding is a new DISCOVER, so that `Ack` may bring another address than the container's (`lease.go:204`).
* `AttachedIsMaintained` and `DetachedIsStopped` end with a collision: if two attachments share a key, as two interfaces of a
  container on one network do, the second lease takes the place of the first (`daemon.go:115`).
* After an ADD of bridge that got no address every DEL fails, since `DelLinkByNameAddr` returns an error for an interface without an
  address before it deletes it (`link.go:156`); `ResourcesRemoved` speaks of DELs that succeed.
* `BridgeStaysUp` excepts two ADDs that force the same new address: one deletes what the other was about to delete, and
  `deleteBridgeAddr` then returns between down and up (`bridge.go:104`).
* `MadeIsRecorded`, `NothingLeft` and `AttachedIsWhole` except what follows from one scratch file for all networks of a container
  (`flannel.go:136`), and a DEL removes the file before the delegate is run (`flannel.go:142`), so that the delegate's failure is final:
  all later DELs fail.
* `HostIsCallers` excepts callers that are not locked once a thread is astray, because `Do` ignores the error of the way back
  (`ns.go:255`) or because a thread was cloned from one that is abroad; and those whose thread was another goroutine's when its namespace was opened: the id of the thread is taken at `ns.go:69`, the
  path is opened at `ns.go:117`. TLC reaches this with a handler and a `NewNS` of the main goroutine. Of the code in this repository only the DHCP daemon calls `Do` from goroutines that are not locked, and the functions it passes
  do not use the host namespace. `MountsOwned` excepts a `Close` that fails: whether it was to close the file (`ns.go:221`) or to unmount it, with
  the object marked as closed already (`ns.go:224`), it cannot be repeated with success.
* `RoutesAreOffered` has the routes of both options, although RFC 3442 says to ignore the static routes if there are classless
  ones; one bad route discards all classless routes (`options.go:74`).
* `ParametersArrive` excepts a runtime whose own environment has other values for CNI_ variables
  (`args.go:57`), and directories and arguments that contain the separators.
* `LoadIPAMConfig` writes to `n.IPAM` before it looks whether there is one (`config.go:55`): with arguments and no `ipam` key the
  plugin panics instead of reporting the error.
* `ResourcesRemoved` excepts the masquerading of a container whose namespace is gone (`bridge.go:331`, `ptp.go:213`).
* `AttachedIsComplete` speaks of the addresses of attached interfaces only: `cmdDel` has IPAM release the address before
  it deletes the interface, so that meanwhile another container may get it (`bridge.go:327`).
* `ResourcesRemoved` also excepts the temporary link of ipvlan, which it leaves if the interface's name is taken.
* Of two concurrent first ADDs on a bridge one fails, since the other has assigned the address between its list and
  its add (`BridgeAddrExists`, `bridge.go:91`).

## 5. Proofs

`HostLocalProofs` proves, for any sets of processes, containers, addresses and configurations and any number of
crashes and faults:

* `Invariance`: `Spec => []IInv`;
* `TypeCorrect`, `GrantsStayOnDisk`, `PendingStaysOnDisk`, `OnlyPoolAddresses`, `SearchIsComplete`,
  `ReleaseIsComplete`: the invariants that follow from it;
* `OwnersKeepTheirFiles`: `Spec => [][OwnersChange]_vars`, an action property: what may happen to the file of an address in a step. A DEL reads a file (`Match`) and
  removes it later (`Remove`), without a lock if `flock` has failed; it is still its own container's file then, because nobody else may remove it or write to it in between;
* `ImplementsAddressPool`: `Spec => APool!Spec`, the refinement of `AddressPool` under `held <- granted`;
* `NothingLeaks`: `NoLeak`, if every configuration is one that `NewIPAllocator` accepts;
* `OrphansAreBounded`: `OrphanBound`, for any numbers of crashes and faults, if no container id is the empty string.

Assumptions: `SentinelAssumption` (the model's special values are distinct from data: `NoFile` is no
content, `LastFile` no address; a container id may be an address or empty), `ConfAssumption` (the range
of an accepted configuration is not empty; `AcceptedRangesAreSound` of `ConversionsProofs` shows which configurations have this), `EmptyIdAssumption` (if `flock` may fail, no container id is
the empty string: without the lock a DEL of such a container could remove a reservation whose id is
yet to be written). The numbers `MaxCrashes` and `MaxFaults` are arbitrary.

The argument. `GrantedIsOnDisk` is not inductive: a process may be about to remove or to return an address.
`IInv` adds three groups of facts.

1. *What a process knows*: `CommandOK` (its command at each point), `AddressOK` (the address it is at lies in its
   range and is not the gateway), `Locked` (inside `Get` or `Release` it has the lock, unless `flock` failed),
   `OneCommandPerId`.
2. *Reservations*: `HoldsOnDisk`, `HoldsAlone`, `HoldsFresh` (the file an ADD has created holds its id or is still empty,
   is its alone, and is no address handed out), `DelDrops`, `RemovesOwn` (a container under DEL holds nothing, and
   the file about to be removed is its own). None of these needs the lock: `O_EXCL` and the
   comparison of ids suffice, so that exclusiveness survives a `flock` that fails.
3. *How far a loop has come*: `PassedAreTaken` (all addresses between the stopping address and the
   current one are taken: `PassedOK` shows that `nextIP` walks the range once around) and `WalkedAreFreed`. These need the
   lock, or that no call failed.

`IInv` is itself an invariant of the run `hostlocal`. The proof has one lemma per group of
actions (`BeginPreserves`, `OpenPreserves`, `AdvancePreserves`, `GetPreserves`, `ReservePreserves`, `ReleasePreserves`,
`ExitPreserves`), each with a step per conjunct that the actions can disturb, over lemmas on the address arithmetic (`RangeOK`,
`NextOK`, `SearchOK`, `PassedOK`).

`NoLeak` is content with any running command of the container. What is inductive is `AllAccounted`: as long as nothing was killed and nothing has failed, every file that names
an address is accounted for by an address handed out, by the ADD that has created it, or by the DEL that will come to it. It rests on `ReleaseFreesAll`. Without
the hypothesis that the configurations are accepted it is false: `cmdDel` constructs an allocator as well, so that the DEL of a
configuration that is refused releases nothing (`Reject`). `OrphanBound` is a cardinality; it is inductive because the
set of orphans grows by at most one address in a step, and only in a step that counts as a crash or a fault.

`DHCPLeaseProofs` begins with `TimesWithinLease`: for every lease time that does not overflow when multiplied by 85, and all
options, present or missing, the renewal and the rebinding time lie within the lease, and renewing comes
first unless the server sends a rebinding time below half the lease time without a renewal time that fits. This is
what the last part of `WakesForRenewal` of the run `dhcp_lease` rests on. Its lemmas say that a Duration in range does not
wrap around, and that the defaults, a half and 85 %, are in order. Its theorems on the goroutine come after those on the daemon, below.

`DHCPDaemonProofs` proves, for any numbers of calls, attachments, leases and killed clients, and any assignment of keys, colliding or not
(`DaemonAssumption` only says that `None` is neither a lease nor an attachment, and that the bounds are numbers):

* `DaemonInvariance`, `DaemonTypes`, `StopsOnlyItsKey`, without a condition. `StopsOwnKey` is not inductive: a handler of Release takes its lease from the map, and the object
  must not become the lease of another attachment before the handler closes its channel. `DInv` adds that a lease in the map was acquired
  under the key it is stored at (`MapOK`), that until it is stored a lease is its handler's alone (`AllocatingOK`), and that
  a handler without a lease refers to none (`HandlersOK`). That `owner[lse[h]]` and `keyOf` stay as they are between `GetLease` and the reply
  rests on the garbage collector: an object that a handler refers to is not reused (`Unused`, `Collect`).
* `UndisturbedInvariance`, and from it `MaintainedWhileAttached` and `StoppedWhenDetached`, until a client is killed, a DEL repeated or a lease replaced
  by that of another attachment. `UInv` adds that every handler works for an attachment that no other handler works for, and has its client (`Orderly`:
  the runtime runs one command per container); that the lease is in the map, unstopped, from the end of Allocate until Release closes its channel
  (`KeptOK`); and that every lease that is maintained is in hand of a handler or in the map for an attachment that is up (`MaintainedOK`). With these, the steps
  `LeaseNotFound` and `Panic` cannot be taken, and a `SetLease` that would replace another attachment's lease counts as a disturbance.

* `LeasesFollowCycle`: `Spec => CycleOf(n)!Spec` for every lease object `n`, the refinement of `LeaseCycle` under `phase <- phase[n], closed <- closed[n]`. `PhasesOK` adds to `DInv`
  that what the map and the handlers refer to has been acquired, unless it is being acquired. `LeaseImplementsCycle` of `DHCPLeaseProofs`, `Spec => Cycle!Spec`, is the counterpart: the goroutine that
  `DHCPLease` has in detail keeps to the same life cycle, so that the daemon's abstraction of it (`phase`, `closed`) leaves out no order of events. Both are safety only: that a
  stopped lease comes to an end, if traffic does not hold up a try for ever, is `StopReturns`, which TLC checks.

Each invariant has one lemma for the steps of Allocate, one for those of Release and one for the rest, with a step per action.

`DHCPLeaseProofs` proves `TypeCorrect`, `OverdueIsBounded` (`NotOverdue`), `MaintenanceEnds` (`EndsForAReason`) and `RenewalIsInTime`
(`WakesForRenewal`) for any number of tries, timeout, delays and jitter, any traffic and any set of lease times and options (`TimeAssumption`: they are natural numbers, there is
at least one try, the timeout and the width of a Duration are positive, and the jitter is not above the first delay, so that no sleep is negative). The invariant `LInv`
adds to the properties where each state of `maintain` occurs (`ControlOK`), which delay goes with which try (`BackoffOK`), that
`acquire` has set the link up (`LinkOK`), what has been tried (`TriedOK`), and `OverdueOK`: what is left of the lease less
the longest time (`Left`) that the round under way can still take. `Left` shrinks with the lease as time passes, does not grow when a try fails, and
is what the bounds `RenewMax` and `MaxOverdue` were summed up from. A foreign packet may set the wait of a try back to `PacketTime`, and
adds as much to `held`, by which `OverdueOK` is relaxed as long as it is below `MaxHeld`; `MaxHeld` is arbitrary. These are recursive functions of the
number of tries; with module `Induction` the proof shows that the delays and their sums satisfy their equations, are numbers and
grow (`DelayEquation`, `RetryEquation`, `Delays`, `Retries`).

`Induction` has induction over the natural numbers in the form in which the provers can use it: the library's theorem takes a predicate as a
parameter, which they cannot instantiate, so `SetInduction` speaks of a *set* of numbers instead (from the well-foundedness of `<`), and a proof
by induction applies it to the set of the numbers that satisfy its claim. `Recursion` and `RecursionUpTo` show that a function which a module defines by recursion
exists and satisfies its equation, on all numbers or on those up to a bound.

`InterfacePluginProofs` proves, for any number of containers with any configurations, any addresses, failing calls and killed commands:
`TypeCorrect`, `AttachmentsAreComplete` (`AttachedIsComplete`), `DelRemovesResources` (`ResourcesRemoved`), `DelOfAttachedSucceeds`
(`DelSucceeds`) and `BridgeIsLeftUp` (`BridgeStaysUp`). `InterfaceAssumption` says that only bridge has `isGateway`, that only bridge and
ptp masquerade, and that an address is not the name of a step. The invariant `PInv` does not speak of positions in a script but of
the *set* of steps that are left: what a step does is done, in an ADD, or undone, in a DEL, once it is not among them any more
(`AddAt`, `DelAt`). Of the order of the steps it keeps only the pairs that matter (`OrderAt`): an interface is made before it has an address, an address is
reserved before it is assigned, the jump to a chain is removed before the chain is cleared and deleted, and the step that sets the bridge up comes after the one that sets it down. The
other parts say what an attachment keeps (`AttachedAt`), what its DEL is going to find (`DetachAt`, the reason why it does not
fail), what is left of a container that has nothing (`NoneAt`, `TmpAt`), and, of all containers, that an address is reserved
once (`HeldOnce`) and that a bridge that is down has somebody who is about to set it up (`BridgeOK`). `Frame` and `OthersKeep` say that a step for one container
keeps what holds of the others, for which only the bridge's addresses need an argument; `GoesOn`, `AddStep`, `DelStep`, `Ends` and
`FailsQuietly` treat the steps by kind, and one lemma per action does the rest.

`FlannelProofs` proves `TypeCorrect`, `DelRemovesAll` (`NothingLeft`), `RecordedBeforeMade` (`MadeIsRecorded`) and
`AttachedStaysWhole` (`AttachedIsWhole`) for any containers, networks, attachments, contents of `subnet.env` and `delegate` dictionaries (`FlannelAssumption`: a
container is attached to a network once; `ConfAssumption`: a rendered configuration is none of the model's special values). `FInv` adds that whatever is in a scratch
file or was read from it was rendered for a network of that container (`FilesOK`), and is what this network was last added with (`ScratchOK`), although
`subnet.env` may have changed since; how far an ADD has come (`AddOK`); and that nothing is there but what the saved configuration asks for (`MadeOK`).

`NetNSProofs` proves `TypeCorrect`, `FunctionsRunInTarget` (`RunsInTarget`), `ThreadsReturn` (`ThreadsComeHome`), `HostIsOriginal`
(`HostIsCallers`) and `MountsHaveOwners` (`MountsOwned`) for any numbers of threads, goroutines, namespaces and failures, and calls nested to any depth.
`NInv` adds that a worker has a thread of its own from its `Dispatch` to its `Exit` (`PlacesOK`), that a goroutine waits for one worker at a
time (`CallersOK`), that a worker is where it went and has kept where it came from (`EntersOK`), that the thread noted by a caller exists, and is the caller's own if that is locked (`TidOK`), that the namespace which a
caller has opened is the one that it called from, with the exceptions of `HostIsCallers` (`HostOK`), and that a namespace is being made as long as its caller waits or cleans up (`MakingOK`).

`ConversionsProofs` proves the four invariants of the run `conversions` for every input. The module `Conversions` has no steps, so each theorem is about
the initial states; the work is in what the loops compute, which is shown by induction over the number of their iterations.

* `BytesOK` (`BytesAgree`), for bytes of any base, addresses of any width and any masks (`BytesAssumption`: the base is at least 2, a mask spans `h * Base^k` addresses
  for a divisor `h` of the base, as masks of consecutive ones do, and `Nil` is no address). The value of a sequence of bytes grows by a byte at a time (`PrefixValues`); the first byte that differs
  decides between two values, so that the loops of `validateRangeIP` compare integers; masking off host bits byte by byte is
  division of the value by the span of the mask, and the bytes of a value of no more than `Width` of them, padded, are the address again. The decrement of the last
  byte in `networkRange` does not borrow: a mask that spans four addresses or more has host bits in this byte, which are all set before it is decremented.
* `AcceptedRangesAreSound`: for all natural numbers as addresses, a configuration that `NewIPAllocator` accepts has a sound
  range, with the two exceptions of section 4. `AcceptedOK` (`AcceptedRangeIsSound`) is the same for configurations whose addresses have bytes.
* `RoutesOK` (`RoutesAreOffered`), for any number of routes with any destinations, widths and routers (`OptionsAssumption`: these are octets, and `NoOption` is no option). The parts of
  `Concatenation` lie behind each other in the option at the lengths of `Built`; a cut leaves some whole parts and a rest; the invariant of each loop is that after `n` iterations it stands behind
  part `n` with the first `n` routes, as long as these are whole and legal. It is over after as many iterations as there are whole parts, for good,
  since a rest shorter than a route, and an error, are left alone by the body.
* `ParametersOK` (`ParametersArrive`), for texts of any length over any words, any lists of directories and pairs, and any environments
  (`TextsAssumption`: the texts are sequences of words, the names of the variables and the separators are words, `Error` is no result). What was joined with a separator that is in
  no part is split into the same parts (the invariant of the loop of `Split` is that behind part `n` it has read the first `n` parts). Only the join of no parts is split into
  something else, one empty part: an empty `CNI_PATH` is refused by the skeleton, and `LoadArgs` returns at once for an empty text. `LoadArgs` is then a loop over the runtime's pairs, after `n` of
  which it has the values of the last pairs of each key among the first `n`. `Getenv` finds the same value first and last because `Unambiguous` says that earlier values are equal to the one that counts.

The inductive invariants of `DHCPLease`, `InterfacePlugin`, `Flannel` and `NetNS` were confirmed by TLC on the instances of the runs before they were
proved; they live in the proof modules.

Only model-checked:

* the liveness properties (`Terminates`, `StopReturns`, `LeaseEnds`, the two `CallsReturn`): the prover has neither fairness nor ENABLED.

## 6. What is not modelled, and the plan

Not modelled:

* JSON, in both directions: a configuration or a result is its parsed value. With it `pkg/types/types.go`, `pkg/version` and
  the decoding of a plugin's output in `pkg/invoke/exec.go`.
* `libcni/conf.go` and cnitool: files of a directory in the order of their names, the first that fits; and a command line.
* loopback (one flag of one link) and tuning (writes of sysctls, ADD only): no state of theirs to relate to anything.
* In `options.go` the router and the subnet mask, which are passed on as they are: `parseRouter` takes a list of exactly one, `parseSubnetMask`
  does not look at the length.
* Hairpin mode, hardware addresses, MTU and routes of the interface plugins, beyond "may fail".
* IPv6: `IPRange` and `IPBytes` have the end of a network that `networkRange` computes for IPv4 (`allocator.go:226`), without the last address.
* A runtime that repeats a failed ADD of flannel without a DEL in between (`BeginAdd`): the new rendering would replace the one that the first try was made with (`flannel.go:154`). A delegate that outlives
  the flannel plugin that was killed (`Crash`): it has stopped somewhere when the next command begins.
* An IPAM plugin that reports the success of a DEL and keeps the address, as host-local does if it cannot read or remove a file (`backend.go:95`): `HostLocal` has it (`ReadFault`, `RemoveFault`), in
  `InterfacePlugin` the success of `ExecDel` frees the address.
* A second temporary link of a container, left by an ADD that was killed before the one that succeeded: `InterfacePlugin` keeps one, and `Rename` forgets it.
* The unsynchronised read of `l.ack` and `l.opts` by `Allocate` while the goroutine may renew (`lease.go:285`): it sleeps until the renewal time first.
* The HTTP server and the socket activation of the daemon; test plugins and scripts.

Done, in this order: `IPRange`, `HostLocal` with its proofs, the byte arithmetic, the DHCP lease and the daemon with its proofs, the
interface plugins, `NetNS`, `Flannel`, `DHCPOptions` and `Invocation`, the proofs about `NetNS`, `Flannel`, `DHCPLease` and `InterfacePlugin`, the rest of those about
host-local, the proofs about the conversions, with which every invariant of the passing runs is proved, and the life cycle between lease and daemon. What would come
next are compositions: `InterfacePlugin` with `HostLocal` in the place of its abstract pool and as the delegate of `Flannel`; `InterfacePlugin` with
`DHCPLease` for the change of the hardware address after the lease.
