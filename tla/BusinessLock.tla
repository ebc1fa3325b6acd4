----------------------------- MODULE BusinessLock -----------------------------
(***************************************************************************)
(* Advisory locks in Redis (infrastructure/redis): runWithBusinessLocks    *)
(* over SET NX EX, EXPIRE and DEL guarded by the owner's token.            *)
(*                                                                         *)
(* A call tries its resources in sorted order and never waits: a key that  *)
(* is taken makes it give back what it has and answer "busy".  Then fn     *)
(* races with the operation timeout; the loser goes on, so after a timeout *)
(* fn may still work while its keys are released.  Time passes in Tick,    *)
(* which every key and every timer counts.  Redis and the event loop may   *)
(* be late, by at most Slack ticks where a call's timers are concerned.    *)
(*                                                                         *)
(* A call stands for its token: every call draws a new one.                *)
(***************************************************************************)
EXTENDS Integers

CONSTANTS
    Calls,      \* calls of runWithBusinessLocks, each used once: bounds a run
    Resources,  \* resource names, as numbers in their sorted order
    Wants,      \* the resources of each call
    TTL, Timeout,
    Interval,   \* between renewals, already capped to half the TTL; 0: none
    Slack,      \* how late an acquisition, a renewal or a timeout may come
    MaxFaults,  \* failed commands, lost replies and dead processes: bounds a run
    None

ASSUME LockNumbers ==
    /\ Resources \subseteq Nat
    /\ TTL \in Nat \ {0} /\ Timeout \in Nat \ {0}
    /\ Interval \in Nat /\ Slack \in Nat /\ MaxFaults \in Nat
ASSUME LockNames ==
    /\ None \notin Calls
    /\ Wants \in [Calls -> (SUBSET Resources) \ {{}}]

VARIABLES
    locks,    \* Redis: the owner's token of each key and the ticks it has left
    stage,    \* where each call is in runWithBusinessLocks
    held,     \* its local array: the keys it knows to have acquired, not yet given back
    working,  \* the calls whose fn has started and not ended
    since,    \* ticks since the first acquisition or the last start of the renewal timer
    elapsed,  \* ticks since fn started
    result,   \* what the caller was told, or will be once the keys are given back
    faults    \* how many faults there have been

vars == <<locks, stage, held, working, since, elapsed, result, faults>>

Lock == [owner : Calls \cup {None}, left : 0 .. TTL]
Stages == {"idle", "acquiring", "running", "backing off", "closing", "ended"}
Results == {"none", "settled", "busy", "timeout", "error", "crashed"}

\* The last tick at which a renewal, or else the timeout, may still be missing.
Patience == Slack + (IF Interval > 0 THEN Interval ELSE Timeout)

TypeOK ==
    /\ locks \in [Resources -> Lock]
    /\ stage \in [Calls -> Stages]
    /\ held \in [Calls -> SUBSET Resources]
    /\ working \subseteq Calls
    /\ since \in [Calls -> Nat]
    /\ elapsed \in [Calls -> 0 .. Timeout + Slack]
    /\ result \in [Calls -> Results]
    /\ faults \in 0 .. MaxFaults

Init ==
    /\ locks = [r \in Resources |-> [owner |-> None, left |-> 0]]
    /\ stage = [c \in Calls |-> "idle"]
    /\ held = [c \in Calls |-> {}]
    /\ working = {}
    /\ since = [c \in Calls |-> 0]
    /\ elapsed = [c \in Calls |-> 0]
    /\ result = [c \in Calls |-> "none"]
    /\ faults = 0

Lowest(r, S) == r \in S /\ \A s \in S : r =< s
Highest(r, S) == r \in S /\ \A s \in S : s =< r

----------------------------------------------------------------------------
(* Redis: the three commands, each atomic.                                  *)
Free(r) == locks[r].owner = None
Taken(c, r) == [locks EXCEPT ![r] = [owner |-> c, left |-> TTL]]

\* A fault: the script compares the wrong argument and never extends anything.
ExtendedNever(c, S) == locks

Extended(c, S) ==
    [r \in Resources |-> IF r \in S /\ locks[r].owner = c
                         THEN [locks[r] EXCEPT !.left = TTL] ELSE locks[r]]

\* A fault: DEL without comparing the token.
FreedUnchecked(c, r) == [locks EXCEPT ![r] = [owner |-> None, left |-> 0]]

Freed(c, r) ==
    [locks EXCEPT ![r] = IF @.owner = c THEN [owner |-> None, left |-> 0] ELSE @]

\* A fault: the resources are taken in the order each caller names them.
WantedUnsorted(c, r) == stage[c] = "acquiring" /\ r \in Wants[c] \ held[c]

\* The resource the acquisition loop is at.
Wanted(c, r) == stage[c] = "acquiring" /\ Lowest(r, Wants[c] \ held[c])

\* Something goes wrong.
Fault == faults < MaxFaults /\ faults' = faults + 1

End(c, res) ==
    /\ stage' = [stage EXCEPT ![c] = "ended"]
    /\ result' = [result EXCEPT ![c] = res]

----------------------------------------------------------------------------
(* The acquisition loop.                                                    *)
Begin(c) ==
    /\ stage[c] = "idle"
    /\ stage' = [stage EXCEPT ![c] = "acquiring"]
    /\ UNCHANGED <<locks, held, working, since, elapsed, result, faults>>

Acquire(c) ==
    \E r \in Resources :
        /\ Wanted(c, r)
        /\ Free(r)
        /\ locks' = Taken(c, r)
        /\ held' = [held EXCEPT ![c] = @ \cup {r}]
        /\ IF held'[c] = Wants[c]
           THEN /\ stage' = [stage EXCEPT ![c] = "running"]
                /\ working' = working \cup {c}
                /\ since' = [since EXCEPT ![c] = 0]
           ELSE UNCHANGED <<stage, working, since>>
        /\ UNCHANGED <<elapsed, result, faults>>

FindBusy(c) ==
    \E r \in Resources :
        /\ Wanted(c, r)
        /\ ~ Free(r)
        /\ stage' = [stage EXCEPT ![c] = IF held[c] = {} THEN "ended" ELSE "backing off"]
        /\ result' = [result EXCEPT ![c] = "busy"]
        /\ UNCHANGED <<locks, held, working, since, elapsed, faults>>

\* The connection drops after the SET: the client sends it again, or gives up.
LoseReply(c) ==
    \E r \in Resources :
        /\ Fault
        /\ Wanted(c, r)
        /\ Free(r)
        /\ locks' = Taken(c, r)
        /\ UNCHANGED <<stage, held, working, since, elapsed, result>>

\* The loop is not inside the try: an error leaves without the finally.
AcquireFails(c) ==
    /\ Fault
    /\ stage[c] = "acquiring"
    /\ End(c, "error")
    /\ UNCHANGED <<locks, held, working, since, elapsed>>

----------------------------------------------------------------------------
(* fn, its timers, and the finally.                                         *)
\* A fault: clearInterval is missing: the timer runs as long as fn does.
RenewUncleared(c) ==
    /\ c \in working
    /\ Interval > 0
    /\ locks' = Extended(c, Wants[c])
    /\ since' = [since EXCEPT ![c] = 0]
    /\ UNCHANGED <<stage, held, working, elapsed, result, faults>>

Renew(c) ==
    /\ stage[c] = "running"
    /\ Interval > 0 /\ since[c] >= Interval
    /\ locks' = Extended(c, held[c])
    /\ since' = [since EXCEPT ![c] = 0]
    /\ UNCHANGED <<stage, held, working, elapsed, result, faults>>

Close(c, res) ==
    /\ stage[c] = "running"
    /\ stage' = [stage EXCEPT ![c] = "closing"]
    /\ result' = [result EXCEPT ![c] = res]

\* fn returns or throws: if the timeout was first, nobody listens any more.
Settle(c) ==
    /\ c \in working
    /\ working' = working \ {c}
    /\ IF stage[c] = "running" THEN Close(c, "settled") ELSE UNCHANGED <<stage, result>>
    /\ UNCHANGED <<locks, held, since, elapsed, faults>>

\* A fault: a call that renews its locks has no operation timeout.
TimeOutWithoutRenewal(c) ==
    /\ Interval = 0 /\ elapsed[c] >= Timeout
    /\ Close(c, "timeout")
    /\ UNCHANGED <<locks, held, working, since, elapsed, faults>>

TimeOut(c) ==
    /\ elapsed[c] >= Timeout
    /\ Close(c, "timeout")
    /\ UNCHANGED <<locks, held, working, since, elapsed, faults>>

Releasing(c, r) == stage[c] \in {"backing off", "closing"} /\ Highest(r, held[c])

Release(c) ==
    \E r \in Resources :
        /\ Releasing(c, r)
        /\ locks' = Freed(c, r)
        /\ held' = [held EXCEPT ![c] = @ \ {r}]
        /\ stage' = [stage EXCEPT ![c] = IF held'[c] = {} THEN "ended" ELSE @]
        /\ UNCHANGED <<working, since, elapsed, result, faults>>

\* An error ends the release loop and replaces what fn returned.
ReleaseFails(c) ==
    \E r \in Resources :
        /\ Fault
        /\ Releasing(c, r)
        /\ locks' \in {locks, Freed(c, r)}
        /\ End(c, "error")
        /\ UNCHANGED <<held, working, since, elapsed>>

\* The process dies; a failed renewal, which nobody catches, is one cause.
Crash(c) ==
    /\ Fault
    /\ stage[c] \notin {"idle", "ended"}
    /\ working' = working \ {c}
    /\ End(c, "crashed")
    /\ UNCHANGED <<locks, held, since, elapsed>>

----------------------------------------------------------------------------
(* Time.                                                                    *)
Counting(c) == stage[c] = "running" \/ (stage[c] = "acquiring" /\ held[c] # {})

\* A timer of c has waited as long as it may: time does not pass before it fires.
Overdue(c) ==
    \/ stage[c] = "acquiring" /\ held[c] # {} /\ since[c] >= Slack
    \/ stage[c] = "running" /\ (since[c] >= Patience \/ elapsed[c] >= Timeout + Slack)

Older(l) == IF l.left > 1 THEN [l EXCEPT !.left = @ - 1] ELSE [owner |-> None, left |-> 0]

Tick ==
    /\ \A c \in Calls : ~ Overdue(c)
    /\ locks' = [r \in Resources |-> Older(locks[r])]
    /\ since' = [c \in Calls |-> IF Counting(c) THEN since[c] + 1 ELSE since[c]]
    /\ elapsed' = [c \in Calls |-> IF stage[c] = "running" THEN elapsed[c] + 1 ELSE elapsed[c]]
    /\ UNCHANGED <<stage, held, working, result, faults>>

----------------------------------------------------------------------------
Try(c) == Acquire(c) \/ FindBusy(c)

Step(c) ==
    \/ Begin(c) \/ Try(c) \/ LoseReply(c) \/ AcquireFails(c)
    \/ Renew(c) \/ Settle(c) \/ TimeOut(c)
    \/ Release(c) \/ ReleaseFails(c) \/ Crash(c)

Next == Tick \/ \E c \in Calls : Step(c)

Spec == Init /\ [][Next]_vars

(* Redis answers, timers fire and time passes.  Nothing is asked of fn.     *)
Fairness ==
    /\ WF_vars(Tick)
    /\ \A c \in Calls :
        /\ WF_vars(Try(c))
        /\ WF_vars(Renew(c))
        /\ WF_vars(TimeOut(c))
        /\ WF_vars(Release(c))

FairSpec == Spec /\ Fairness

----------------------------------------------------------------------------
(* Properties.                                                              *)

\* With timers late by at most Slack, no key runs out under a call that renews it,
\* or, without renewal, under one that its timeout ends in time.
PromptEnough == Slack + Patience < TTL

\* Two calls that both still count on fn's result never share a resource (a call that
\* has timed out has given up that claim, even though its fn may go on).
Exclusion ==
    \A c, d \in Calls :
        c # d /\ stage[c] = "running" /\ stage[d] = "running" => Wants[c] \cap Wants[d] = {}

\* However late a release or a renewal comes, a key leaves its owner only when its time
\* is up or by the release of that owner, never by another call's (releaseLock).
NobodyIsRobbed ==
    [][\A r \in Resources, c \in Calls :
        locks[r].owner = c /\ locks'[r].owner # c =>
            \/ locks[r].left = 1 /\ locks'[r].owner = None
            \/ stage[c] \in {"backing off", "closing"} /\ r \in held[c]]_vars

\* What the sorted order buys: without faults, calls that turn each other away cannot all
\* be turned away, for whoever stopped at the highest resource stopped at one that got in.
SomebodyGetsIn ==
    faults = 0 /\ (\A c \in Calls : stage[c] = "ended") =>
        \E c \in Calls : result[c] \in {"settled", "timeout"}

\* Every call returns, even when its fn never does (operationTimeoutMs).
EveryCallReturns == \A c \in Calls : stage[c] # "idle" ~> stage[c] = "ended"

\* Once a call has returned, or its process died, its keys go and stay away, though
\* nobody releases them and its fn may still run.
EveryKeyIsFreed ==
    \A c \in Calls, r \in Resources :
        stage[c] = "ended" ~> [](locks[r].owner # c)
============================================================================
