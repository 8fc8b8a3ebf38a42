----------------------------- MODULE DHCPLease -----------------------------
(***************************************************************************)
(* One lease of the DHCP daemon: the goroutine that AcquireLease starts,   *)
(* which acquires the lease and maintains it until it is stopped or the    *)
(* lease expires, against a server whose answers may be late, negative or  *)
(* missing.                                                                *)
(*                                                                         *)
(* Time is in seconds.  The lease's three points in time are kept as the   *)
(* time that is left until them, negative once they have passed and cut    *)
(* off at -MaxPast, so that the model has no horizon.  Computation takes   *)
(* no time: Tick lets a second pass while the goroutine is blocked.        *)
(***************************************************************************)
EXTENDS LeaseTimes

CONSTANTS
    ResendCount,     \* tries of backoffRetry
    ResendDelay0,    \* its first delay
    ResendDelayMax,  \* the delay that is not doubled any more
    Jitter,          \* how far a delay is off
    Timeout,         \* how long the client waits for one packet
    LeaseTimes,      \* the lease times the server grants
    OptTimes,        \* the renewal and rebinding times it may send with them
    Addrs,           \* the addresses the server offers
    MaxHeld,         \* how much of the time that foreign packets cost is counted
    BadAcks,         \* whether an ACK may come without a lease time
    ServerMayStop    \* whether the server may go away for good

VARIABLES
    pc,         \* where the goroutine is
    state,      \* maintain's state
    tries,      \* backoffRetry: i
    delay,      \* backoffRetry: baseDelay
    wait,       \* how long the goroutine stays blocked
    renewal, rebinding, expire,   \* time left until the lease's three times
    addr,       \* YIAddr of l.ack
    reported,   \* the address in the result of Allocate
    linkUp,     \* the interface is up
    stopped,    \* l.stop is closed
    released,   \* a DHCPRELEASE was sent
    server,     \* the server answers
    tried,      \* history: what was tried since the last commit, and whether
                \* a renewal without a lease time was taken for a success
    held        \* history: how long foreign packets may have held up the tries
                \* since the last commit, counted up to MaxHeld

times == <<renewal, rebinding, expire>>
vars == <<pc, state, tries, delay, wait, renewal, rebinding, expire, addr, reported, linkUp,
          stopped, released, server, tried, held>>

Later(a, b) == IF a > b THEN a ELSE b
Earlier(a, b) == IF a < b THEN a ELSE b

(* The longest sequence of tries without foreign packets: every read times *)
(* out, every delay is long.  A renewal reads one packet per try, an       *)
(* acquisition two.                                                        *)
DelayAt[i \in Nat] ==
    IF i = 0 THEN ResendDelay0
    ELSE IF DelayAt[i - 1] < ResendDelayMax THEN 2 * DelayAt[i - 1] ELSE DelayAt[i - 1]

RetryTime[i \in Nat] == IF i = 0 THEN 0 ELSE RetryTime[i - 1] + DelayAt[i - 1] + Jitter

RenewMax == ResendCount * Timeout + RetryTime[ResendCount]
AcquireMax == ResendCount * 2 * Timeout + RetryTime[ResendCount]

MaxOverdue == RenewMax + AcquireMax
MaxPast == MaxOverdue + MaxHeld + 1

ASSUME TimeAssumption ==
    /\ ResendCount \in Nat \ {0} /\ Timeout \in Nat \ {0} /\ Jitter \in Nat
    /\ ResendDelay0 \in Nat /\ Jitter <= ResendDelay0 /\ ResendDelayMax \in Nat
    /\ LeaseTimes \subseteq Nat /\ OptTimes \subseteq Nat
    /\ Missing \notin OptTimes /\ MaxHeld \in Nat
    /\ HalfRange \in Nat \ {0}

Init ==
    /\ pc = "client" /\ state = "acquiring"
    /\ tries = 0 /\ delay = ResendDelay0 /\ wait = 0
    /\ renewal = 0 /\ rebinding = 0 /\ expire = 0
    /\ addr = Missing /\ reported = Missing
    /\ linkUp \in BOOLEAN
    /\ stopped = FALSE /\ released = FALSE
    /\ server = TRUE
    /\ tried = {} /\ held = 0

-----------------------------------------------------------------------------
(* renew and acquire, which is also how a lease is rebound.                *)

(* How long a try waits for its packets if no others come.                 *)
PacketTime == IF state = "renewing" THEN Timeout ELSE 2 * Timeout

(* newDHCPClient, and for acquire the link that is set up.                 *)
NewClient ==
    /\ pc = "client" /\ pc' = "try"
    /\ tries' = 0 /\ delay' = ResendDelay0
    /\ wait' \in 0 .. PacketTime
    /\ linkUp' = (linkUp \/ state # "renewing")
    /\ tried' = tried \cup {state}
    /\ UNCHANGED <<state, times, addr, reported, stopped, released, server, held>>

(* Neither can be done: an error without a single try.  A loop in which    *)
(* this happens again and again spins; its rounds of one second are one.   *)
ClientFault ==
    /\ pc = "client" /\ pc' = "sleep"
    /\ tries' = ResendCount /\ delay' = ResendDelay0
    /\ wait' = 1
    /\ tried' = tried \cup {state}
    /\ UNCHANGED <<state, times, addr, reported, linkUp, stopped, released, server, held>>

(* The client's socket gets every IP packet on the link, and waits as long *)
(* as before after each one that is not the answer: traffic can prolong a  *)
(* try for ever.                                                           *)
ForeignPacket ==
    /\ pc = "try" /\ wait > 0
    /\ wait' \in 0 .. PacketTime
    /\ held' = Earlier(held + PacketTime, MaxHeld)
    /\ UNCHANGED <<pc, state, tries, delay, times, addr, reported, linkUp, stopped, released, server,
                   tried>>

(* A try of backoffRetry ends without an ACK: NAK, error or timeout.       *)
TryFails ==
    /\ pc = "try" /\ wait = 0
    /\ pc' = "sleep"
    /\ tries' = tries + 1
    /\ wait' \in delay - Jitter .. delay + Jitter
    /\ delay' = IF delay < ResendDelayMax THEN 2 * delay ELSE delay
    /\ UNCHANGED <<state, times, addr, reported, linkUp, stopped, released, server, tried, held>>

(* Mutant: one try too many.                                               *)
TryOnceMore ==
    /\ pc = "sleep" /\ wait = 0 /\ tries <= ResendCount
    /\ pc' = "try"
    /\ wait' \in 0 .. PacketTime
    /\ UNCHANGED <<state, tries, delay, times, addr, reported, linkUp, stopped, released, server,
                   tried, held>>

TryAgain ==
    /\ pc = "sleep" /\ wait = 0 /\ tries < ResendCount
    /\ pc' = "try"
    /\ wait' \in 0 .. PacketTime
    /\ UNCHANGED <<state, tries, delay, times, addr, reported, linkUp, stopped, released, server,
                   tried, held>>

(* commit stores the three times and the ACK.                              *)
Commit(lease, t1, t2, a) ==
    /\ expire' = lease
    /\ rebinding' = RebindingTime(lease, t2)
    /\ renewal' = RenewalTime(lease, t1, t2)
    /\ addr' = a
    /\ tried' = {} /\ held' = 0

(* The end of a round of maintain's loop that sleeps for d.                *)
ToSelect(d) == pc' = "select" /\ wait' = d

(* The renewal and rebinding times of an ACK, as parseDuration reads them. *)
Option == OptTimes \cup {Missing}

(* An ACK: a renewal is for the address of the lease, a new acquisition    *)
(* for whatever the server offers.                                         *)
Ack ==
    /\ pc = "try" /\ wait = 0 /\ server
    /\ \E lease \in LeaseTimes, t1, t2 \in Option, a \in Addrs :
        /\ state = "renewing" => a = addr
        /\ Commit(lease, t1, t2, a)
        /\ reported' = IF state = "acquiring" THEN a ELSE reported
    /\ state' = "bound"
    /\ IF state = "acquiring" THEN pc' = "loop" /\ UNCHANGED wait ELSE ToSelect(0)
    /\ UNCHANGED <<tries, delay, linkUp, stopped, released, server>>

(* Mutant: a failed renewal never leads to rebinding.                      *)
ErrorNoRebind ==
    \/ /\ state = "acquiring"
       /\ pc' = "failed"
       /\ UNCHANGED <<state, wait, linkUp>>
    \/ /\ state = "renewing"
       /\ ToSelect(0)
       /\ UNCHANGED <<state, linkUp>>

(* Mutant: the interface is taken down without a look at the clock.        *)
ErrorDownEarly ==
    \/ /\ state = "acquiring"
       /\ pc' = "failed"
       /\ UNCHANGED <<state, wait, linkUp>>
    \/ /\ state = "renewing"
       /\ state' = IF rebinding < 0 THEN "rebinding" ELSE state
       /\ ToSelect(0)
       /\ UNCHANGED linkUp
    \/ /\ state = "rebinding"
       /\ pc' = "done"
       /\ linkUp' = FALSE
       /\ UNCHANGED <<state, wait>>

(* acquire or renew returned an error: what the caller makes of it.        *)
Error ==
    \/ /\ state = "acquiring"
       /\ pc' = "failed"
       /\ UNCHANGED <<state, wait, linkUp>>
    \/ /\ state = "renewing"
       /\ state' = IF rebinding < 0 THEN "rebinding" ELSE state
       /\ ToSelect(0)
       /\ UNCHANGED linkUp
    \/ /\ state = "rebinding" /\ expire >= 0
       /\ ToSelect(0)
       /\ UNCHANGED <<state, linkUp>>
    \/ /\ state = "rebinding" /\ expire < 0
       /\ pc' = "done"
       /\ linkUp' \in BOOLEAN    \* TRUE if LinkSetDown failed, which is only logged
       /\ UNCHANGED <<state, wait>>

(* An ACK without a lease time, for which commit returns an error: acquire *)
(* passes it on, renew does not look at it and reports success.            *)
BadAck ==
    /\ BadAcks
    /\ pc = "try" /\ wait = 0 /\ server
    /\ IF state = "renewing"
       THEN state' = "bound" /\ ToSelect(0) /\ UNCHANGED linkUp /\ tried' = tried \cup {"ignored"}
       ELSE Error /\ UNCHANGED tried
    /\ UNCHANGED <<tries, delay, times, addr, reported, stopped, released, server, held>>

(* errNoMoreTries                                                          *)
GiveUp ==
    /\ pc = "sleep" /\ wait = 0 /\ tries >= ResendCount
    /\ Error
    /\ UNCHANGED <<tries, delay, times, addr, reported, stopped, released, server, tried, held>>

-----------------------------------------------------------------------------
(* maintain                                                                *)

(* Mutant: a bound lease sleeps until it expires.                          *)
RoundLate ==
    /\ pc = "loop"
    /\ \/ state = "bound" /\ renewal > 0 /\ ToSelect(expire) /\ UNCHANGED state
       \/ state = "bound" /\ renewal <= 0 /\ pc' = "client" /\ state' = "renewing" /\ UNCHANGED wait
       \/ state \in {"renewing", "rebinding"} /\ pc' = "client" /\ UNCHANGED <<state, wait>>
    /\ UNCHANGED <<tries, delay, times, addr, reported, linkUp, stopped, released, server, tried, held>>

(* The switch: sleep until the renewal time, or renew, or rebind.          *)
Round ==
    /\ pc = "loop"
    /\ \/ state = "bound" /\ renewal > 0 /\ ToSelect(renewal) /\ UNCHANGED state
       \/ state = "bound" /\ renewal <= 0 /\ pc' = "client" /\ state' = "renewing" /\ UNCHANGED wait
       \/ state \in {"renewing", "rebinding"} /\ pc' = "client" /\ UNCHANGED <<state, wait>>
    /\ UNCHANGED <<tries, delay, times, addr, reported, linkUp, stopped, released, server, tried, held>>

(* The select: either branch, if both are ready.                           *)
Wake ==
    /\ pc = "select" /\ wait = 0
    /\ pc' = "loop"
    /\ UNCHANGED <<state, tries, delay, wait, times, addr, reported, linkUp, stopped, released,
                   server, tried, held>>

(* Mutant: the lease is released, but the loop goes on.                    *)
SeeStopNoReturn ==
    /\ pc = "select" /\ stopped
    /\ pc' = "loop"
    /\ released' \in BOOLEAN
    /\ UNCHANGED <<state, tries, delay, wait, times, addr, reported, linkUp, stopped, server, tried, held>>

SeeStop ==
    /\ pc = "select" /\ stopped
    /\ pc' = "done"
    /\ released' \in BOOLEAN    \* FALSE if release failed, which is only logged
    /\ UNCHANGED <<state, tries, delay, wait, times, addr, reported, linkUp, stopped, server, tried, held>>

(* DHCPLease.Stop closes the channel, at any time after AcquireLease has   *)
(* returned the lease.                                                     *)
Stop ==
    /\ pc # "failed" /\ reported # Missing /\ ~ stopped
    /\ stopped' = TRUE
    /\ UNCHANGED <<pc, state, tries, delay, wait, times, addr, reported, linkUp, released, server,
                   tried, held>>

ServerStops ==
    /\ ServerMayStop /\ server
    /\ server' = FALSE
    /\ UNCHANGED <<pc, state, tries, delay, wait, times, addr, reported, linkUp, stopped, released,
                   tried, held>>

(* A second passes, if the goroutine is blocked.                           *)
Tick ==
    /\ wait > 0
    /\ pc \in {"try", "sleep"} \/ (pc = "select" /\ ~ stopped)
    /\ wait' = wait - 1
    /\ renewal' = Later(renewal - 1, -MaxPast)
    /\ rebinding' = Later(rebinding - 1, -MaxPast)
    /\ expire' = Later(expire - 1, -MaxPast)
    /\ UNCHANGED <<pc, state, tries, delay, addr, reported, linkUp, stopped, released, server, tried, held>>

Run == NewClient \/ ClientFault \/ TryFails \/ TryAgain \/ Ack \/ BadAck \/ GiveUp \/ Round \/ Wake
       \/ SeeStop \/ Tick

Next == Run \/ ForeignPacket \/ Stop \/ ServerStops

Spec == Init /\ [][Next]_vars

(* Time passes and the goroutine runs; select, which chooses at random     *)
(* among the branches that are ready, takes the stop branch in the end.    *)
(* That the traffic on the link ever pauses is not assumed.                *)
Fairness == WF_vars(Run) /\ SF_vars(SeeStop)

FairSpec == Spec /\ Fairness

-----------------------------------------------------------------------------
(* The types of the variables.                                             *)
TypeOK ==
    /\ pc \in {"client", "try", "sleep", "loop", "select", "done", "failed"}
    /\ state \in {"acquiring", "bound", "renewing", "rebinding"}
    /\ tries \in 0 .. ResendCount /\ delay \in Nat /\ wait \in Nat
    /\ renewal \in Int /\ rebinding \in Int /\ expire \in Int
    /\ addr \in Addrs \cup {Missing} /\ reported \in Addrs \cup {Missing}
    /\ linkUp \in BOOLEAN /\ stopped \in BOOLEAN /\ released \in BOOLEAN /\ server \in BOOLEAN
    /\ tried \subseteq {"acquiring", "renewing", "rebinding", "ignored"}
    /\ held \in 0 .. MaxHeld

(* An expired lease is given up, and the interface taken down, within one  *)
(* round of renewing and one of rebinding, since maintain looks at the     *)
(* clock only after each of them, and within the time by which packets     *)
(* that were not for the client prolonged the tries of the two; unless the *)
(* error of commit was ignored.  No bound holds for all traffic: held says *)
(* nothing once it has reached MaxHeld.                                    *)
NotOverdue ==
    reported # Missing /\ linkUp /\ ~ stopped /\ "ignored" \notin tried /\ held < MaxHeld =>
        expire >= -(MaxOverdue + held)

(* "lease expired, bringing interface DOWN": the interface of an expired   *)
(* lease does not stay up, whatever the server answers.                    *)
ExpiredGoesDown ==
    reported # Missing /\ linkUp /\ ~ stopped /\ held < MaxHeld => expire >= -(MaxOverdue + held)

(* Maintenance ends only because the lease was stopped, or because it has  *)
(* expired after renewing and rebinding had both been tried since the last *)
(* ACK; and the interface of a lease that is maintained is never down.     *)
EndsForAReason ==
    /\ pc = "done" => stopped \/ (expire < 0 /\ {"renewing", "rebinding"} \subseteq tried)
    /\ pc # "done" /\ reported # Missing => linkUp

(* A lease is left alone until its renewal time, while it is bound the     *)
(* goroutine does not sleep past that time, and whatever options the ACK   *)
(* has, and even if commit's arithmetic overflows, renewing and rebinding  *)
(* are due no later than the lease expires.  That is when they are due:    *)
(* rebinding may still begin after the lease has expired, when a round of  *)
(* renewing takes that long.                                               *)
WakesForRenewal ==
    /\ state = "bound" /\ pc = "select" => wait = 0 \/ wait = renewal
    /\ state \in {"renewing", "rebinding"} => renewal <= 0
    /\ renewal <= expire /\ rebinding <= expire

(* Stop returns: the goroutine sees the closed channel, however often the  *)
(* other branch of the select wins and however many tries are made first,  *)
(* unless the packets of others keep a single try waiting for ever.        *)
StopReturns == stopped ~> pc = "done" \/ [](pc = "try")

(* If the server goes away for good, the daemon does not keep trying for   *)
(* ever: the lease ends, or could not be acquired at all, unless the       *)
(* packets of others keep a single try waiting for ever.                   *)
LeaseEnds == ~ server ~> pc \in {"done", "failed"} \/ [](pc = "try")
=============================================================================
