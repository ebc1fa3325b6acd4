-------------------------- MODULE BusinessLockProofs --------------------------
(***************************************************************************)
(* Proofs about BusinessLock, for every set of calls and resources and     *)
(* every TTL, timeout, renewal interval and slack.                         *)
(***************************************************************************)
EXTENDS BusinessLock, TLAPS

----------------------------------------------------------------------------
(* Redis.                                                                  *)

LEMMA TakenTyped ==
    ASSUME TypeOK, NEW c \in Calls, NEW r \in Resources
    PROVE  Taken(c, r) \in [Resources -> Lock]
BY LockNumbers DEF TypeOK, Lock, Taken

LEMMA FreedTyped ==
    ASSUME TypeOK, NEW c \in Calls, NEW r \in Resources
    PROVE  Freed(c, r) \in [Resources -> Lock]
BY LockNumbers DEF TypeOK, Lock, Freed

LEMMA ExtendedTyped ==
    ASSUME TypeOK, NEW c \in Calls, NEW S \in SUBSET Resources
    PROVE  Extended(c, S) \in [Resources -> Lock]
BY LockNumbers DEF TypeOK, Lock, Extended

LEMMA OlderTyped == ASSUME NEW l \in Lock PROVE Older(l) \in Lock
BY LockNumbers DEF Lock, Older

----------------------------------------------------------------------------
(* Types.                                                                  *)

LEMMA InitTyped == Init => TypeOK
BY LockNumbers DEF Init, TypeOK, Lock, Stages, Results

LEMMA FaultTyped == TypeOK /\ Fault => faults' \in 0 .. MaxFaults
BY LockNumbers DEF TypeOK, Fault

LEMMA StepTyped ==
    ASSUME TypeOK, NEW c \in Calls, Step(c)
    PROVE  TypeOK'
<1> USE DEF TypeOK, Stages, Results
<1>1. CASE Begin(c)
  BY <1>1 DEF Begin
<1>2. CASE Acquire(c)
  <2>1. PICK r \in Resources :
           /\ locks' = Taken(c, r)
           /\ held' = [held EXCEPT ![c] = @ \cup {r}]
           /\ IF held'[c] = Wants[c]
              THEN /\ stage' = [stage EXCEPT ![c] = "running"]
                   /\ working' = working \cup {c}
                   /\ since' = [since EXCEPT ![c] = 0]
              ELSE UNCHANGED <<stage, working, since>>
           /\ UNCHANGED <<elapsed, result, faults>>
    BY <1>2 DEF Acquire
  <2>2. locks' \in [Resources -> Lock]
    BY <2>1, TakenTyped
  <2>3. held' \in [Calls -> SUBSET Resources]
    BY <2>1
  <2>4. stage' \in [Calls -> Stages] /\ working' \subseteq Calls /\ since' \in [Calls -> Nat]
    <3>1. CASE held'[c] = Wants[c]
      <4>1. /\ stage' = [stage EXCEPT ![c] = "running"]
            /\ working' = working \cup {c}
            /\ since' = [since EXCEPT ![c] = 0]
        BY <2>1, <3>1, Zenon
      <4> QED
        BY <4>1
    <3>2. CASE held'[c] # Wants[c]
      BY <2>1, <3>2
    <3> QED
      BY <3>1, <3>2
  <2> QED
    BY <2>1, <2>2, <2>3, <2>4
<1>3. CASE FindBusy(c)
  BY <1>3 DEF FindBusy
<1>4. CASE LoseReply(c)
  <2>1. locks' \in [Resources -> Lock]
    BY <1>4, TakenTyped DEF LoseReply
  <2> QED
    BY <1>4, <2>1, FaultTyped DEF LoseReply
<1>5. CASE AcquireFails(c)
  BY <1>5, FaultTyped DEF AcquireFails, End
<1>6. CASE Renew(c)
  <2>1. locks' \in [Resources -> Lock]
    BY <1>6, ExtendedTyped DEF Renew
  <2> QED
    BY <1>6, <2>1 DEF Renew
<1>7. CASE Settle(c)
  BY <1>7 DEF Settle, Close
<1>8. CASE TimeOut(c)
  BY <1>8 DEF TimeOut, Close
<1>9. CASE Release(c)
  <2>1. locks' \in [Resources -> Lock]
    <3>1. PICK r \in Resources : locks' = Freed(c, r)
      BY <1>9 DEF Release
    <3> QED
      BY <3>1, FreedTyped
  <2> QED
    BY <1>9, <2>1 DEF Release
<1>10. CASE ReleaseFails(c)
  <2>1. locks' \in [Resources -> Lock]
    <3>1. PICK r \in Resources : locks' \in {locks, Freed(c, r)}
      BY <1>10 DEF ReleaseFails
    <3> QED
      BY <3>1, FreedTyped
  <2> QED
    BY <1>10, <2>1, FaultTyped DEF ReleaseFails, End
<1>11. CASE Crash(c)
  BY <1>11, FaultTyped DEF Crash, End
<1> QED
  BY <1>1, <1>2, <1>3, <1>4, <1>5, <1>6, <1>7, <1>8, <1>9, <1>10, <1>11 DEF Step, Try

LEMMA TickTyped == TypeOK /\ Tick => TypeOK'
<1> SUFFICES ASSUME TypeOK, Tick PROVE TypeOK'
  OBVIOUS
<1>1. locks' \in [Resources -> Lock]
  BY OlderTyped DEF TypeOK, Tick
<1>2. since' \in [Calls -> Nat]
  BY DEF TypeOK, Tick
<1>3. elapsed' \in [Calls -> 0 .. Timeout + Slack]
  BY LockNumbers DEF TypeOK, Tick, Overdue
<1> QED
  BY <1>1, <1>2, <1>3 DEF TypeOK, Tick

LEMMA NextTyped == TypeOK /\ [Next]_vars => TypeOK'
<1> SUFFICES ASSUME TypeOK, [Next]_vars PROVE TypeOK'
  OBVIOUS
<1>1. CASE UNCHANGED vars
  BY <1>1 DEF vars, TypeOK
<1> QED
  BY <1>1, StepTyped, TickTyped DEF Next

\* Every reachable state of keys, calls and timers is well typed.
THEOREM LocksTypeCorrect == Spec => []TypeOK
BY InitTyped, NextTyped, PTL DEF Spec

----------------------------------------------------------------------------
(* A key leaves its owner by expiry or by the owner's release.             *)

\* A key that is owned has time left.
Live == \A r \in Resources : locks[r].owner # None => locks[r].left >= 1

LEMMA InitLive == Init => Live
BY DEF Init, Live

LEMMA NextLive == TypeOK /\ Live /\ [Next]_vars => Live'
<1> SUFFICES ASSUME TypeOK, Live, [Next]_vars PROVE Live'
  OBVIOUS
<1>1. CASE Tick
  BY <1>1 DEF Tick, Older, Live, TypeOK, Lock
<1>2. CASE UNCHANGED locks
  BY <1>2 DEF Live
<1>3. ASSUME NEW c \in Calls, NEW r \in Resources,
             locks' \in {Taken(c, r), Freed(c, r), Extended(c, held[c])}
      PROVE  Live'
  BY <1>3, LockNumbers DEF Live, TypeOK, Lock, Taken, Freed, Extended
<1>4. ASSUME NEW c \in Calls, Renew(c)
      PROVE  Live'
  BY <1>4, LockNumbers DEF Renew, Live, TypeOK, Lock, Extended
<1> QED
  BY <1>1, <1>2, <1>3, <1>4 DEF Next, Step, Try, Begin, Acquire, FindBusy, LoseReply, AcquireFails,
     Settle, TimeOut, Release, ReleaseFails, Crash, vars

\* NobodyIsRobbed: whatever the delays, a call's key is never deleted or overwritten by
\* another call; releaseLock's comparison of tokens is what makes late releases harmless.
THEOREM NobodyIsRobbedHolds == Spec => NobodyIsRobbed
<1>1. ASSUME TypeOK, Live, [Next]_vars, NEW r \in Resources, NEW c \in Calls,
             locks[r].owner = c, locks'[r].owner # c
      PROVE  \/ locks[r].left = 1 /\ locks'[r].owner = None
             \/ stage[c] \in {"backing off", "closing"} /\ r \in held[c]
  <2>1. CASE Tick
    <3>1. locks'[r] = Older(locks[r])
      BY <2>1 DEF Tick
    <3>2. locks[r] \in Lock /\ locks[r].left >= 1
      BY <1>1, LockNames DEF TypeOK, Live
    <3>3. ~ (locks[r].left > 1)
      BY <1>1, <3>1, <3>2 DEF Older, Lock
    <3>4. locks[r].left = 1
      BY <3>2, <3>3, LockNumbers DEF Lock
    <3> QED
      BY <3>1, <3>3, <3>4 DEF Older
  <2>2. locks # locks'
    BY <1>1
  <2>3. ASSUME NEW d \in Calls, NEW q \in Resources, Free(q), locks' = Taken(d, q)
        PROVE  FALSE
    BY <1>1, <2>3, LockNames DEF Free, Taken, TypeOK
  <2>4. ASSUME NEW d \in Calls, locks' = Extended(d, held[d])
        PROVE  FALSE
    BY <1>1, <2>4 DEF Extended, TypeOK, Lock
  <2>5. ASSUME NEW d \in Calls, NEW q \in Resources, Releasing(d, q), locks' = Freed(d, q)
        PROVE  stage[c] \in {"backing off", "closing"} /\ r \in held[c]
    BY <1>1, <2>5 DEF Releasing, Highest, Freed, TypeOK
  <2> QED
    BY <1>1, <2>1, <2>2, <2>3, <2>4, <2>5 DEF Next, Step, Try, Begin, Acquire, FindBusy, LoseReply,
       AcquireFails, Renew, Settle, TimeOut, Release, ReleaseFails, Crash, vars
<1>2. TypeOK /\ Live /\ [Next]_vars =>
        [\A r \in Resources, c \in Calls :
            locks[r].owner = c /\ locks'[r].owner # c =>
                \/ locks[r].left = 1 /\ locks'[r].owner = None
                \/ stage[c] \in {"backing off", "closing"} /\ r \in held[c]]_vars
  BY <1>1
<1>3. Spec => []Live
  BY InitTyped, NextTyped, InitLive, NextLive, PTL DEF Spec
<1> QED
  BY <1>2, <1>3, LocksTypeCorrect, PTL DEF Spec, NobodyIsRobbed

----------------------------------------------------------------------------
(* Exclusion.  What a call holds it still owns, with at least as much time *)
(* left as it has not yet used up (Age); the timers bound the age, and     *)
(* PromptEnough keeps the bound below the TTL.                             *)

Age(c) == IF stage[c] = "running" THEN since[c] + Slack ELSE since[c]

\* A call that counts on its keys owns them all, and they are no older than it is.
HeldAreOwned ==
    \A c \in Calls, r \in Resources :
        stage[c] \in {"acquiring", "running"} /\ r \in held[c] =>
            locks[r].owner = c /\ locks[r].left >= TTL - Age(c)

Clocks(c) ==
    /\ stage[c] = "idle" => held[c] = {} /\ since[c] = 0
    /\ stage[c] = "acquiring" => since[c] =< Slack /\ (held[c] = {} => since[c] = 0)
    /\ stage[c] = "running" => since[c] =< Patience /\ held[c] = Wants[c]

LockInv == TypeOK /\ HeldAreOwned /\ \A c \in Calls : Clocks(c)

LEMMA InitLockInv == Init => LockInv
BY InitTyped, LockNumbers DEF Init, LockInv, HeldAreOwned, Clocks

\* Commands of other calls leave an owned key alone.
LEMMA OthersKeepOff ==
    ASSUME TypeOK, NEW c \in Calls, NEW d \in Calls, c # d, NEW r \in Resources,
           locks[r].owner = d, Step(c)
    PROVE  locks'[r] = locks[r]
<1>1. ASSUME NEW q \in Resources, Free(q), locks' = Taken(c, q)
      PROVE  locks'[r] = locks[r]
  BY <1>1, LockNames DEF Free, Taken, TypeOK
<1>2. ASSUME NEW q \in Resources, locks' = Freed(c, q)
      PROVE  locks'[r] = locks[r]
  BY <1>2 DEF Freed, TypeOK
<1>3. ASSUME locks' = Extended(c, held[c])
      PROVE  locks'[r] = locks[r]
  BY <1>3 DEF Extended, TypeOK
<1> QED
  BY <1>1, <1>2, <1>3 DEF Step, Try, Begin, Acquire, FindBusy, LoseReply, AcquireFails, Renew,
     Settle, TimeOut, Release, ReleaseFails, Crash

\* A step of c changes no other call's place, keys or clocks.
LEMMA OthersStay ==
    ASSUME TypeOK, NEW c \in Calls, NEW d \in Calls, c # d, Step(c)
    PROVE  stage'[d] = stage[d] /\ held'[d] = held[d] /\ since'[d] = since[d]
           /\ result'[d] = result[d]
<1>1. CASE Acquire(c)
  <2>1. held'[d] = held[d] /\ result'[d] = result[d]
    BY <1>1 DEF Acquire, TypeOK
  <2>2. stage'[d] = stage[d] /\ since'[d] = since[d]
    BY <1>1 DEF Acquire, TypeOK
  <2> QED
    BY <2>1, <2>2
<1>2. CASE FindBusy(c)
  BY <1>2 DEF FindBusy, TypeOK
<1>3. CASE Release(c)
  BY <1>3 DEF Release, TypeOK
<1>4. CASE ReleaseFails(c)
  BY <1>4 DEF ReleaseFails, End, TypeOK
<1>5. CASE Settle(c)
  BY <1>5 DEF Settle, Close, TypeOK
<1>6. CASE Begin(c) \/ LoseReply(c) \/ AcquireFails(c) \/ Renew(c) \/ TimeOut(c) \/ Crash(c)
  BY <1>6 DEF Begin, LoseReply, AcquireFails, Renew, TimeOut, Crash, Close, End, TypeOK
<1> QED
  BY <1>1, <1>2, <1>3, <1>4, <1>5, <1>6 DEF Step, Try

LEMMA AgesAreNumbers == TypeOK => \A c \in Calls : Age(c) \in Nat /\ Age(c) >= 0
BY LockNumbers DEF TypeOK, Age

\* The step of a call on its own keys and clocks.
LEMMA StepOwn ==
    ASSUME LockInv, NEW c \in Calls, Step(c), NEW r \in Resources,
           stage'[c] \in {"acquiring", "running"}, r \in held'[c]
    PROVE  locks'[r].owner = c /\ locks'[r].left >= TTL - Age(c)'
<1> USE DEF LockInv
<1>1. CASE Begin(c)
  <2>1. stage[c] = "idle" /\ held' = held /\ held[c] = {}
    BY <1>1 DEF Begin, Clocks
  <2> QED
    BY <2>1
<1>2. CASE Acquire(c)
  <2>1. PICK q \in Resources :
           /\ stage[c] = "acquiring" /\ locks' = Taken(c, q)
           /\ Free(q) /\ held' = [held EXCEPT ![c] = @ \cup {q}]
           /\ \/ stage'[c] = "acquiring" /\ since' = since
              \/ stage'[c] = "running" /\ since' = [since EXCEPT ![c] = 0]
    <3>1. PICK q \in Resources :
             /\ Wanted(c, q) /\ Free(q) /\ locks' = Taken(c, q)
             /\ held' = [held EXCEPT ![c] = @ \cup {q}]
             /\ IF held'[c] = Wants[c]
                THEN /\ stage' = [stage EXCEPT ![c] = "running"]
                     /\ working' = working \cup {c}
                     /\ since' = [since EXCEPT ![c] = 0]
                ELSE UNCHANGED <<stage, working, since>>
      BY <1>2 DEF Acquire
    <3>2. CASE held'[c] = Wants[c]
      <4>1. stage' = [stage EXCEPT ![c] = "running"] /\ since' = [since EXCEPT ![c] = 0]
        BY <3>1, <3>2, Zenon
      <4> QED
        BY <3>1, <4>1 DEF Wanted, TypeOK
    <3>3. CASE held'[c] # Wants[c]
      <4>1. stage' = stage /\ since' = since
        BY <3>1, <3>3, Zenon
      <4> QED
        BY <3>1, <4>1 DEF Wanted
    <3> QED
      BY <3>2, <3>3
  <2>2. since[c] =< Slack /\ since[c] \in Nat
    BY <2>1 DEF Clocks, TypeOK
  <2>3. Age(c)' >= Age(c) /\ Age(c)' \in Nat /\ Age(c) \in Nat
    BY <2>1, <2>2, LockNumbers DEF Age, TypeOK
  <2>4. CASE r = q
    BY <2>1, <2>3, <2>4, LockNumbers DEF Taken, TypeOK
  <2>5. CASE r # q
    <3>1. r \in held[c] /\ locks'[r] = locks[r]
      BY <2>1, <2>5 DEF TypeOK, Taken
    <3>2. locks[r].owner = c /\ locks[r].left >= TTL - Age(c) /\ locks[r].left \in Nat
      BY <2>1, <3>1, LockNumbers DEF HeldAreOwned, TypeOK, Lock
    <3> QED
      BY <2>3, <3>1, <3>2, LockNumbers
  <2> QED
    BY <2>4, <2>5
<1>3. CASE LoseReply(c)
  <2>1. PICK q \in Resources : Free(q) /\ locks' = Taken(c, q) /\ UNCHANGED <<stage, held, since>>
    BY <1>3 DEF LoseReply
  <2>2. locks[r].owner = c /\ locks[r].left >= TTL - Age(c)
    BY <2>1 DEF HeldAreOwned
  <2>3. locks'[r] = locks[r] /\ Age(c)' = Age(c)
    BY <2>1, <2>2, LockNames DEF Free, Taken, Age, TypeOK
  <2> QED
    BY <2>2, <2>3
<1>4. CASE Renew(c)
  <2>1. locks[r].owner = c /\ r \in held[c]
    BY <1>4 DEF Renew, HeldAreOwned, TypeOK
  <2>2. locks'[r].owner = c /\ locks'[r].left = TTL
    BY <1>4, <2>1 DEF Renew, Extended, TypeOK, Lock
  <2>3. Age(c)' >= 0 /\ Age(c)' \in Nat
    BY <1>4, LockNumbers DEF Renew, Age, TypeOK
  <2> QED
    BY <2>2, <2>3, LockNumbers
<1>5. CASE FindBusy(c) \/ AcquireFails(c) \/ TimeOut(c) \/ ReleaseFails(c) \/ Crash(c)
  BY <1>5 DEF FindBusy, AcquireFails, TimeOut, ReleaseFails, Crash, Close, End, TypeOK
<1>6. CASE Settle(c)
  <2>1. stage[c] # "running" /\ UNCHANGED <<stage, locks, held, since>>
    BY <1>6 DEF Settle, Close, TypeOK
  <2> QED
    BY <2>1 DEF HeldAreOwned, Age
<1>7. CASE Release(c)
  BY <1>7 DEF Release, Releasing, TypeOK
<1> QED
  BY <1>1, <1>2, <1>3, <1>4, <1>5, <1>6, <1>7 DEF Step, Try

LEMMA StepClocks ==
    ASSUME LockInv, NEW c \in Calls, Step(c)
    PROVE  Clocks(c)'
<1> USE DEF LockInv
<1>1. CASE Acquire(c)
  <2>1. PICK q \in Resources :
             /\ Wanted(c, q)
             /\ held' = [held EXCEPT ![c] = @ \cup {q}]
             /\ IF held'[c] = Wants[c]
                THEN /\ stage' = [stage EXCEPT ![c] = "running"]
                     /\ working' = working \cup {c}
                     /\ since' = [since EXCEPT ![c] = 0]
                ELSE UNCHANGED <<stage, working, since>>
    BY <1>1 DEF Acquire
  <2>2. q \in held'[c]
    BY <2>1 DEF TypeOK
  <2>3. CASE held'[c] = Wants[c]
    <3>1. stage' = [stage EXCEPT ![c] = "running"] /\ since' = [since EXCEPT ![c] = 0]
      BY <2>1, <2>3, Zenon
    <3>2. Patience \in Nat
      BY LockNumbers DEF Patience
    <3> QED
      BY <2>3, <3>1, <3>2 DEF Clocks, TypeOK, Patience
  <2>4. CASE held'[c] # Wants[c]
    <3>1. stage' = stage /\ since' = since
      BY <2>1, <2>4, Zenon
    <3> QED
      BY <2>1, <2>2, <3>1 DEF Clocks, Wanted
  <2> QED
    BY <2>3, <2>4
<1>2. CASE Renew(c)
  BY <1>2, LockNumbers DEF Renew, Clocks, Patience, TypeOK
<1>3. CASE Begin(c)
  BY <1>3, LockNumbers DEF Begin, Clocks, TypeOK
<1>4. CASE Settle(c)
  BY <1>4, LockNumbers DEF Settle, Close, Clocks, TypeOK, Patience
<1>5. CASE LoseReply(c)
  BY <1>5 DEF LoseReply, Clocks, Patience
<1>6. CASE FindBusy(c) \/ AcquireFails(c) \/ TimeOut(c) \/ ReleaseFails(c) \/ Crash(c)
  BY <1>6 DEF FindBusy, AcquireFails, TimeOut, ReleaseFails, Crash, Close, End, Clocks, TypeOK
<1>7. CASE Release(c)
  BY <1>7 DEF Release, Releasing, Clocks, TypeOK
<1> QED
  BY <1>1, <1>2, <1>3, <1>4, <1>5, <1>6, <1>7 DEF Step, Try

LEMMA StepLockInv == ASSUME LockInv, NEW c \in Calls, Step(c) PROVE LockInv'
<1>1. TypeOK'
  BY StepTyped DEF LockInv
<1>2. \A d \in Calls : Clocks(d)'
  BY StepClocks, OthersStay DEF LockInv, Clocks, Patience
<1>3. ASSUME NEW d \in Calls, NEW r \in Resources, d # c,
             stage'[d] \in {"acquiring", "running"}, r \in held'[d]
      PROVE  locks'[r].owner = d /\ locks'[r].left >= TTL - Age(d)'
  <2>1. stage'[d] = stage[d] /\ held'[d] = held[d] /\ since'[d] = since[d]
    BY <1>3, OthersStay DEF LockInv
  <2>2. locks[r].owner = d /\ locks[r].left >= TTL - Age(d)
    BY <1>3, <2>1 DEF LockInv, HeldAreOwned
  <2>3. locks'[r] = locks[r]
    BY <1>3, <2>2, OthersKeepOff DEF LockInv
  <2> QED
    BY <2>1, <2>2, <2>3 DEF Age
<1>4. HeldAreOwned'
  BY <1>3, StepOwn DEF HeldAreOwned
<1> QED
  BY <1>1, <1>2, <1>4 DEF LockInv

\* No tick passes while a timer has waited its fill, so no key in use runs out.
LEMMA TickLockInv == ASSUME PromptEnough, LockInv, Tick PROVE LockInv'
<1> USE DEF LockInv
<1>1. TypeOK'
  BY TickTyped
<1>2. Patience \in Nat /\ Patience >= 1 /\ Slack + Patience < TTL
  BY LockNumbers DEF Patience, PromptEnough
<1>3. ASSUME NEW c \in Calls PROVE Clocks(c)'
  <2>1. stage' = stage /\ held' = held /\ since[c] \in Nat /\ ~ Overdue(c)
    BY DEF Tick, TypeOK
  <2>2. since'[c] = IF Counting(c) THEN since[c] + 1 ELSE since[c]
    BY DEF Tick
  <2>3. Clocks(c)
    OBVIOUS
  <2>4. CASE stage[c] = "running"
    BY <1>2, <2>1, <2>2, <2>3, <2>4 DEF Clocks, Overdue, Counting, Patience
  <2>5. CASE stage[c] = "acquiring"
    BY <2>1, <2>2, <2>3, <2>5, LockNumbers DEF Clocks, Overdue, Counting
  <2>6. CASE stage[c] \notin {"acquiring", "running"}
    BY <2>1, <2>2, <2>3, <2>6 DEF Clocks, Counting
  <2> QED
    BY <2>4, <2>5, <2>6
<1>4. ASSUME NEW c \in Calls, NEW r \in Resources,
             stage'[c] \in {"acquiring", "running"}, r \in held'[c]
      PROVE  locks'[r].owner = c /\ locks'[r].left >= TTL - Age(c)'
  <2>1. stage' = stage /\ held' = held /\ since[c] \in Nat /\ ~ Overdue(c)
    BY DEF Tick, TypeOK
  <2>2. Counting(c) /\ since'[c] = since[c] + 1
    BY <1>4, <2>1 DEF Tick, Counting
  <2>3. locks[r].owner = c /\ locks[r].left >= TTL - Age(c) /\ locks[r].left \in Nat
    BY <1>4, <2>1, LockNumbers DEF HeldAreOwned, TypeOK, Lock
  <2>4. Age(c) < Slack + Patience /\ Age(c) \in Nat /\ Age(c)' = Age(c) + 1
    <3>1. CASE stage[c] = "running"
      BY <1>2, <2>1, <2>2, <3>1, LockNumbers DEF Overdue, Age
    <3>2. CASE stage[c] = "acquiring"
      BY <1>2, <1>4, <2>1, <2>2, <3>2, LockNumbers DEF Overdue, Age
    <3> QED
      BY <1>4, <2>1, <3>1, <3>2
  <2>5. locks[r].left > 1
    BY <1>2, <2>3, <2>4, LockNumbers
  <2>6. locks'[r] = [locks[r] EXCEPT !.left = @ - 1]
    BY <2>5 DEF Tick, Older
  <2>7. locks'[r].owner = c /\ locks'[r].left = locks[r].left - 1
    BY <2>3, <2>6 DEF TypeOK, Lock
  <2> QED
    BY <2>3, <2>4, <2>7, LockNumbers
<1> QED
  BY <1>1, <1>3, <1>4 DEF HeldAreOwned

\* Exclusion: while commands and timers are late by at most Slack and twice that plus
\* the renewal interval (without renewal, the timeout) is less than the TTL, no two calls
\* that have not timed out share a resource, whatever fails or crashes.
THEOREM ExclusionHolds == ASSUME PromptEnough PROVE Spec => []Exclusion
<1>1. LockInv /\ [Next]_vars => LockInv'
  <2> SUFFICES ASSUME LockInv, [Next]_vars PROVE LockInv'
    OBVIOUS
  <2>1. CASE UNCHANGED vars
    <3>1. TypeOK' /\ HeldAreOwned'
      BY <2>1 DEF vars, LockInv, TypeOK, HeldAreOwned, Age
    <3>2. \A c \in Calls : Clocks(c)'
      BY <2>1 DEF vars, LockInv, Clocks, Patience
    <3> QED
      BY <3>1, <3>2 DEF LockInv
  <2> QED
    BY <2>1, StepLockInv, TickLockInv DEF Next
<1>2. LockInv => Exclusion
  <2> SUFFICES ASSUME LockInv, NEW c \in Calls, NEW d \in Calls, c # d,
                      stage[c] = "running", stage[d] = "running",
                      NEW r \in Wants[c] \cap Wants[d]
               PROVE  FALSE
    BY DEF Exclusion
  <2>1. r \in Resources /\ r \in held[c] /\ r \in held[d]
    BY LockNames DEF LockInv, Clocks
  <2> QED
    BY <2>1 DEF LockInv, HeldAreOwned
<1> QED
  BY <1>1, <1>2, InitLockInv, PTL DEF Spec

----------------------------------------------------------------------------
(* Somebody gets in, as long as no fault has happened.  A call turned away  *)
(* at r was stopped by a call that owned r and had, for the order is one    *)
(* for all, nothing left to try below r: either it is past r and still on   *)
(* its way, or was itself turned away further up.  So for every key of a    *)
(* call that was turned away there is a call beyond that key which was not. *)

\* The owner of a key knows it, and is not done with it.
OwnersKnow ==
    \A r \in Resources, c \in Calls :
        locks[r].owner = c => r \in held[c] /\ stage[c] \notin {"idle", "ended"}

\* The keys held come before the keys still wanted.
InOrder(c) ==
    stage[c] = "acquiring" => \A h \in held[c], w \in Wants[c] \ held[c] : h < w

Verdict(c) ==
    /\ stage[c] \in {"idle", "acquiring", "running"} => result[c] = "none"
    /\ stage[c] = "backing off" => result[c] = "busy"
    /\ stage[c] = "closing" => result[c] \in {"settled", "timeout"}
    /\ stage[c] = "ended" => result[c] \in {"settled", "timeout", "busy"}

GotIn(c) == result[c] # "busy" /\ stage[c] \in {"running", "closing", "ended"}
Beyond(c, r) == GotIn(c) \/ (stage[c] = "acquiring" /\ \E h \in held[c] : h > r)
OnItsWay(c) == GotIn(c) \/ (stage[c] = "acquiring" /\ held[c] # {})

SomeoneBeyond ==
    \A c \in Calls, r \in Resources :
        result[c] = "busy" /\ locks[r].owner = c => \E d \in Calls : Beyond(d, r)
SomeoneOnItsWay ==
    \A c \in Calls : result[c] = "busy" => \E d \in Calls : OnItsWay(d)

OrderInv ==
    /\ TypeOK /\ OwnersKnow
    /\ \A c \in Calls : InOrder(c) /\ Verdict(c) /\ (stage[c] = "idle" => held[c] = {})
    /\ SomeoneBeyond /\ SomeoneOnItsWay

LEMMA InitOrderInv == Init => OrderInv
BY InitTyped, LockNames DEF Init, OrderInv, OwnersKnow, InOrder, Verdict, SomeoneBeyond,
   SomeoneOnItsWay

\* A step either is no fault or counts as one.
LEMMA FaultsCount ==
    ASSUME TypeOK, NEW c \in Calls, Step(c)
    PROVE  \/ /\ faults' = faults
              /\ Begin(c) \/ Try(c) \/ Renew(c) \/ Settle(c) \/ TimeOut(c) \/ Release(c)
           \/ faults' = faults + 1
<1>1. CASE LoseReply(c) \/ AcquireFails(c) \/ ReleaseFails(c) \/ Crash(c)
  BY <1>1 DEF LoseReply, AcquireFails, ReleaseFails, Crash, Fault
<1>2. CASE Acquire(c)
  BY <1>2 DEF Acquire, Try
<1>3. CASE FindBusy(c)
  BY <1>3 DEF FindBusy, Try
<1>4. CASE Release(c)
  BY <1>4 DEF Release
<1>5. CASE Begin(c) \/ Renew(c) \/ Settle(c) \/ TimeOut(c)
  BY <1>5 DEF Begin, Renew, Settle, TimeOut
<1> QED
  BY <1>1, <1>2, <1>3, <1>4, <1>5 DEF Step, Try

LEMMA FaultlessStep ==
    ASSUME TypeOK, NEW c \in Calls, Step(c), faults' = faults
    PROVE  Begin(c) \/ Try(c) \/ Renew(c) \/ Settle(c) \/ TimeOut(c) \/ Release(c)
BY FaultsCount DEF TypeOK

\* Only being turned away takes a call from the ranks of those beyond a key.
LEMMA BeyondStays ==
    ASSUME OrderInv, faults' = faults, NEW c \in Calls, Step(c), ~ FindBusy(c), NEW d \in Calls
    PROVE  /\ \A r \in Resources : Beyond(d, r) => Beyond(d, r)'
           /\ OnItsWay(d) => OnItsWay(d)'
<1> USE DEF OrderInv, Beyond, OnItsWay, GotIn
<1>1. CASE d # c
  BY <1>1, OthersStay
<1>2. CASE d = c
  <2> USE DEF Verdict
  <2>1. CASE Begin(c)
    BY <1>2, <2>1 DEF Begin, TypeOK
  <2>2. CASE Acquire(c)
    <3>1. /\ held[c] \subseteq held'[c] /\ stage[c] = "acquiring" /\ result' = result
          /\ stage'[c] \in {"acquiring", "running"}
      BY <2>2 DEF Acquire, Wanted, TypeOK
    <3>2. result[c] = "none"
      BY <3>1
    <3> QED
      BY <1>2, <3>1, <3>2
  <2>3. CASE Renew(c)
    BY <1>2, <2>3 DEF Renew
  <2>4. CASE Settle(c)
    BY <1>2, <2>4 DEF Settle, Close, TypeOK
  <2>5. CASE TimeOut(c)
    BY <1>2, <2>5 DEF TimeOut, Close, TypeOK
  <2>6. CASE Release(c)
    BY <1>2, <2>6 DEF Release, Releasing, TypeOK
  <2> QED
    BY <2>1, <2>2, <2>3, <2>4, <2>5, <2>6, FaultlessStep DEF Try
<1> QED
  BY <1>1, <1>2

\* Who stops a call leads to a call beyond everything the stopped one holds.
LEMMA SomeoneStoppedIt ==
    ASSUME OrderInv, faults' = faults, NEW c \in Calls, FindBusy(c)
    PROVE  \E e \in Calls : /\ e # c /\ OnItsWay(e)
                            /\ \A h \in held[c] : Beyond(e, h)
                            /\ \A s \in Resources : Beyond(c, s) => Beyond(e, s)
<1> USE DEF OrderInv
<1>1. PICK r \in Resources : Wanted(c, r) /\ locks[r].owner # None
  BY DEF FindBusy, Free
<1>2. stage[c] = "acquiring" /\ r \in Wants[c] \ held[c] /\ held[c] \subseteq Resources
  BY <1>1 DEF Wanted, Lowest, TypeOK
<1>3. \A h \in held[c] : h < r
  BY <1>2 DEF InOrder
<1>4. PICK d \in Calls : locks[r].owner = d
  BY <1>1 DEF TypeOK, Lock
<1>5. r \in held[d] /\ stage[d] \notin {"idle", "ended"} /\ d # c
  BY <1>2, <1>4 DEF OwnersKnow
<1>6. r \in Nat /\ held[c] \subseteq Nat /\ ~ GotIn(c) /\ ~ Beyond(c, r)
  <2>1. r \in Nat /\ held[c] \subseteq Nat /\ ~ GotIn(c)
    BY <1>2, LockNumbers DEF GotIn
  <2>2. ASSUME NEW h \in held[c], h > r PROVE FALSE
    <3>1. h \in Nat /\ h < r
      BY <1>3, <2>1
    <3> QED
      BY <2>1, <2>2, <3>1
  <2> QED
    BY <2>1, <2>2 DEF Beyond
<1>7. \E e \in Calls : e # c /\ (GotIn(e) \/ (stage[e] = "acquiring" /\ \E h \in held[e] : h >= r))
  <2>1. CASE result[d] = "busy"
    <3>1. PICK e \in Calls : Beyond(e, r)
      BY <1>4, <2>1 DEF SomeoneBeyond
    <3>2. e # c
      BY <1>6, <3>1
    <3>3. held[e] \subseteq Nat
      BY LockNumbers DEF TypeOK
    <3> QED
      BY <3>1, <3>2, <3>3, LockNumbers DEF Beyond
  <2>2. CASE result[d] # "busy"
    <3>1. stage[d] \in {"acquiring", "running", "closing"}
      BY <1>5, <2>2 DEF Verdict, TypeOK, Stages
    <3>2. r >= r
      BY <1>6
    <3> QED
      BY <1>5, <2>2, <3>1, <3>2 DEF GotIn
  <2> QED
    BY <2>1, <2>2
<1>8. PICK e \in Calls :
        e # c /\ (GotIn(e) \/ (stage[e] = "acquiring" /\ \E h \in held[e] : h >= r))
  BY <1>7
<1>9. ASSUME NEW s \in Resources, s < r PROVE Beyond(e, s)
  <2>1. CASE GotIn(e)
    BY <2>1 DEF Beyond
  <2>2. CASE stage[e] = "acquiring" /\ \E h \in held[e] : h >= r
    <3>1. PICK h \in held[e] : h >= r
      BY <2>2
    <3>2. h \in Nat /\ r \in Nat /\ s \in Nat
      BY LockNumbers DEF TypeOK
    <3>3. h > s
      BY <1>9, <3>1, <3>2
    <3> QED
      BY <2>2, <3>3 DEF Beyond
  <2> QED
    BY <1>8, <2>1, <2>2
<1>10. ASSUME NEW s \in Resources, Beyond(c, s) PROVE s < r
  <2>1. PICK h \in held[c] : h > s
    BY <1>6, <1>10 DEF Beyond
  <2>2. h \in Nat /\ s \in Nat /\ h < r
    BY <1>3, <1>6, <2>1, LockNumbers
  <2> QED
    BY <1>6, <2>1, <2>2
<1>11. OnItsWay(e)
  BY <1>8 DEF OnItsWay
<1> QED
  BY <1>2, <1>3, <1>8, <1>9, <1>10, <1>11

LEMMA StepOrdered ==
    ASSUME OrderInv, faults' = faults, NEW c \in Calls, Step(c)
    PROVE  OwnersKnow' /\ InOrder(c)' /\ Verdict(c)' /\ (stage[c] = "idle" => held[c] = {})'
<1> USE DEF OrderInv
<1>1. CASE Begin(c)
  BY <1>1 DEF Begin, OwnersKnow, InOrder, Verdict, TypeOK
<1>2. CASE FindBusy(c)
  <2>1. locks' = locks /\ held' = held /\ stage[c] = "acquiring"
        /\ stage' = [stage EXCEPT ![c] = IF held[c] = {} THEN "ended" ELSE "backing off"]
        /\ result' = [result EXCEPT ![c] = "busy"]
    BY <1>2 DEF FindBusy, Wanted
  <2>2. OwnersKnow'
    BY <2>1 DEF OwnersKnow, TypeOK
  <2> QED
    BY <2>1, <2>2 DEF InOrder, Verdict, TypeOK
<1>3. CASE Renew(c)
  <2>1. \A r \in Resources : locks'[r].owner = locks[r].owner
    BY <1>3 DEF Renew, Extended, TypeOK, Lock
  <2> QED
    BY <1>3, <2>1 DEF Renew, OwnersKnow, InOrder, Verdict
<1>4. CASE Settle(c)
  BY <1>4 DEF Settle, Close, OwnersKnow, InOrder, Verdict, TypeOK
<1>5. CASE TimeOut(c)
  BY <1>5 DEF TimeOut, Close, OwnersKnow, InOrder, Verdict, TypeOK
<1>6. CASE Release(c)
  <2>1. PICK r \in Resources :
          /\ Releasing(c, r) /\ locks' = Freed(c, r) /\ held' = [held EXCEPT ![c] = @ \ {r}]
          /\ stage' = [stage EXCEPT ![c] = IF held'[c] = {} THEN "ended" ELSE @]
          /\ result' = result
    BY <1>6 DEF Release
  <2>2. ASSUME NEW q \in Resources, NEW d \in Calls, locks'[q].owner = d
        PROVE  q \in held'[d] /\ stage'[d] \notin {"idle", "ended"}
    <3>1. locks[q].owner = d /\ (d = c => q # r)
      BY <2>1, <2>2, LockNames DEF Freed, TypeOK
    <3>2. q \in held[d] /\ stage[d] \notin {"idle", "ended"}
      BY <3>1 DEF OwnersKnow
    <3>3. q \in held'[d]
      BY <2>1, <3>1, <3>2 DEF TypeOK
    <3> QED
      BY <2>1, <3>2, <3>3 DEF TypeOK
  <2>3. stage'[c] \in {"backing off", "closing", "ended"}
        /\ (stage'[c] = "ended" \/ stage'[c] = stage[c]) /\ stage[c] \in {"backing off", "closing"}
    BY <2>1 DEF Releasing, TypeOK
  <2> QED
    BY <2>1, <2>2, <2>3 DEF OwnersKnow, InOrder, Verdict
<1>7. CASE Acquire(c)
  <2>1. PICK r \in Resources :
             /\ Wanted(c, r) /\ Free(r) /\ locks' = Taken(c, r) /\ result' = result
             /\ held' = [held EXCEPT ![c] = @ \cup {r}]
             /\ \/ stage' = stage
                \/ stage' = [stage EXCEPT ![c] = "running"]
    <3>1. PICK r \in Resources :
             /\ Wanted(c, r) /\ Free(r) /\ locks' = Taken(c, r) /\ UNCHANGED <<elapsed, result>>
             /\ held' = [held EXCEPT ![c] = @ \cup {r}]
             /\ IF held'[c] = Wants[c]
                THEN /\ stage' = [stage EXCEPT ![c] = "running"]
                     /\ working' = working \cup {c}
                     /\ since' = [since EXCEPT ![c] = 0]
                ELSE UNCHANGED <<stage, working, since>>
      BY <1>7 DEF Acquire
    <3>2. stage' = stage \/ stage' = [stage EXCEPT ![c] = "running"]
      BY <3>1, Zenon
    <3> QED
      BY <3>1, <3>2
  <2>2. stage[c] = "acquiring" /\ Lowest(r, Wants[c] \ held[c]) /\ held'[c] = held[c] \cup {r}
    BY <2>1 DEF Wanted, TypeOK
  <2>3. \A h \in held'[c], w \in Wants[c] \ held'[c] : h < w
    <3>1. ASSUME NEW h \in held'[c], NEW w \in Wants[c] \ held'[c] PROVE h < w
      <4>1. w \in Wants[c] \ held[c] /\ w # r /\ w \in Nat /\ r \in Nat
        BY <2>2, LockNames, LockNumbers
      <4>2. CASE h = r
        BY <2>2, <4>1, <4>2 DEF Lowest
      <4>3. CASE h \in held[c]
        BY <2>2, <4>1, <4>3 DEF InOrder
      <4> QED
        BY <2>2, <4>2, <4>3
    <3> QED
      BY <3>1
  <2>4. ASSUME NEW q \in Resources, NEW d \in Calls, locks'[q].owner = d
        PROVE  q \in held'[d] /\ stage'[d] \notin {"idle", "ended"}
    <3>1. CASE q = r
      BY <2>1, <2>2, <2>4, <3>1 DEF Taken, TypeOK
    <3>2. CASE q # r
      <4>1. q \in held[d] /\ stage[d] \notin {"idle", "ended"}
        BY <2>1, <2>4, <3>2 DEF Taken, TypeOK, OwnersKnow
      <4> QED
        BY <2>1, <4>1 DEF TypeOK
    <3> QED
      BY <3>1, <3>2
  <2> QED
    BY <2>1, <2>2, <2>3, <2>4 DEF OwnersKnow, InOrder, Verdict, TypeOK
<1> QED
  BY <1>1, <1>2, <1>3, <1>4, <1>5, <1>6, <1>7, FaultlessStep DEF Try

LEMMA TickOrdered == ASSUME OrderInv, Tick PROVE OrderInv'
<1> USE DEF OrderInv
<1>1. TypeOK' /\ stage' = stage /\ held' = held /\ result' = result
  BY TickTyped DEF Tick
<1>2. \A r \in Resources, c \in Calls : locks'[r].owner = c => locks[r].owner = c
  BY LockNames DEF Tick, Older, TypeOK, Lock
<1>3. OwnersKnow'
  BY <1>1, <1>2 DEF OwnersKnow
<1>4. SomeoneBeyond'
  <2>1. \A d \in Calls, r \in Resources : Beyond(d, r) => Beyond(d, r)'
    BY <1>1 DEF Beyond, GotIn
  <2> QED
    BY <1>1, <1>2, <2>1 DEF SomeoneBeyond
<1>5. SomeoneOnItsWay'
  <2>1. \A d \in Calls : OnItsWay(d) => OnItsWay(d)'
    BY <1>1 DEF OnItsWay, GotIn
  <2> QED
    BY <1>1, <2>1 DEF SomeoneOnItsWay
<1> QED
  BY <1>1, <1>3, <1>4, <1>5 DEF InOrder, Verdict

LEMMA StepOrderInv == ASSUME OrderInv, faults' = faults, NEW c \in Calls, Step(c) PROVE OrderInv'
<1> USE DEF OrderInv
<1>1. TypeOK' /\ OwnersKnow' /\ \A d \in Calls : InOrder(d)' /\ Verdict(d)'
                                                   /\ (stage[d] = "idle" => held[d] = {})'
  <2>1. ASSUME NEW d \in Calls, d # c
        PROVE  InOrder(d)' /\ Verdict(d)' /\ (stage[d] = "idle" => held[d] = {})'
    BY <2>1, OthersStay DEF InOrder, Verdict
  <2> QED
    BY <2>1, StepTyped, StepOrdered
<1>2. CASE FindBusy(c)
  <2>1. PICK e \in Calls : /\ e # c /\ OnItsWay(e)
                           /\ \A h \in held[c] : Beyond(e, h)
                           /\ \A s \in Resources : Beyond(c, s) => Beyond(e, s)
    BY <1>2, SomeoneStoppedIt
  <2>2. locks' = locks /\ held' = held
    BY <1>2 DEF FindBusy
  <2>3. \A d \in Calls : d # c => stage'[d] = stage[d] /\ result'[d] = result[d]
    BY OthersStay
  <2>4. \A d \in Calls, s \in Resources : d # c /\ Beyond(d, s) => Beyond(d, s)'
    BY <2>2, <2>3 DEF Beyond, GotIn
  <2>5. SomeoneBeyond'
    <3> SUFFICES ASSUME NEW d \in Calls, NEW r \in Resources, result'[d] = "busy",
                        locks'[r].owner = d
                 PROVE  \E x \in Calls : Beyond(x, r)'
      BY DEF SomeoneBeyond
    <3>1. CASE d = c
      <4>1. r \in held[c]
        BY <2>2, <3>1 DEF OwnersKnow
      <4> QED
        BY <2>1, <2>4, <4>1
    <3>2. CASE d # c
      <4>1. PICK x \in Calls : Beyond(x, r)
        BY <2>2, <2>3, <3>2 DEF SomeoneBeyond
      <4> QED
        BY <2>1, <2>4, <4>1
    <3> QED
      BY <3>1, <3>2
  <2>6. OnItsWay(e)'
    BY <2>1, <2>2, <2>3 DEF OnItsWay, GotIn
  <2> QED
    BY <1>1, <2>5, <2>6 DEF SomeoneOnItsWay
<1>3. CASE ~ FindBusy(c)
  <2>1. \A d \in Calls : /\ \A r \in Resources : Beyond(d, r) => Beyond(d, r)'
                         /\ OnItsWay(d) => OnItsWay(d)'
    BY <1>3, BeyondStays
  <2>2. \A d \in Calls : result'[d] = "busy" => result[d] = "busy"
    <3>1. CASE Settle(c)
      BY <3>1 DEF Settle, Close, TypeOK
    <3>2. CASE TimeOut(c)
      BY <3>2 DEF TimeOut, Close, TypeOK
    <3> QED
      BY <1>3, <3>1, <3>2, FaultlessStep DEF Try, Begin, Acquire, Renew, Release
  <2>3. \A d \in Calls, r \in Resources :
            result[d] = "busy" /\ locks'[r].owner = d => locks[r].owner = d
    <3> SUFFICES ASSUME NEW d \in Calls, NEW r \in Resources, result[d] = "busy",
                        locks'[r].owner = d, locks[r].owner # d
                 PROVE  FALSE
      OBVIOUS
    <3>1. CASE Acquire(c)
      <4>1. PICK q \in Resources : Wanted(c, q) /\ locks' = Taken(c, q)
        BY <3>1 DEF Acquire
      <4>2. d = c
        BY <4>1 DEF Taken, TypeOK
      <4> QED
        BY <4>1, <4>2 DEF Wanted, Verdict
    <3>2. CASE Release(c)
      BY <3>2, LockNames DEF Release, Freed, TypeOK
    <3>3. CASE Renew(c)
      BY <3>3 DEF Renew, Extended, TypeOK, Lock
    <3> QED
      BY <1>3, <3>1, <3>2, <3>3, FaultlessStep DEF Try, Begin, Settle, TimeOut
  <2>4. SomeoneBeyond'
    BY <2>1, <2>2, <2>3 DEF SomeoneBeyond
  <2>5. SomeoneOnItsWay'
    BY <2>1, <2>2 DEF SomeoneOnItsWay
  <2> QED
    BY <1>1, <2>4, <2>5
<1> QED
  BY <1>2, <1>3

\* SomebodyGetsIn: without faults, and however late the timers, calls that compete for
\* any sets of resources cannot all be turned away, because all try in one order.
THEOREM SomebodyGetsInHolds ==
    ASSUME Calls # {} PROVE Spec => []SomebodyGetsIn
<1> DEFINE Inv == TypeOK /\ (faults = 0 => OrderInv)
<1>1. Inv /\ [Next]_vars => Inv'
  <2> SUFFICES ASSUME Inv, [Next]_vars PROVE Inv'
    OBVIOUS
  <2>1. TypeOK'
    BY NextTyped
  <2>2. ASSUME faults' = 0 PROVE OrderInv'
    <3>1. faults' >= faults
      BY FaultsCount DEF TypeOK, Next, Tick, vars
    <3>2. faults = 0 /\ faults' = faults /\ OrderInv
      BY <2>2, <3>1 DEF TypeOK
    <3>3. CASE UNCHANGED vars
      BY <3>2, <3>3 DEF vars, OrderInv, TypeOK, OwnersKnow, InOrder, Verdict, SomeoneBeyond,
         SomeoneOnItsWay, Beyond, OnItsWay, GotIn
    <3> QED
      BY <3>2, <3>3, StepOrderInv, TickOrdered DEF Next
  <2> QED
    BY <2>1, <2>2
<1>2. Inv => SomebodyGetsIn
  <2> SUFFICES ASSUME OrderInv, \A c \in Calls : stage[c] = "ended"
               PROVE  \E c \in Calls : result[c] \in {"settled", "timeout"}
    BY DEF SomebodyGetsIn
  <2>1. PICK c \in Calls : TRUE
    OBVIOUS
  <2>2. \E d \in Calls : result[d] # "busy"
    BY <2>1 DEF OrderInv, SomeoneOnItsWay, OnItsWay, GotIn
  <2> QED
    BY <2>2 DEF OrderInv, Verdict
<1>3. Init => Inv
  BY InitTyped, InitOrderInv
<1> HIDE DEF Inv
<1> QED
  BY <1>1, <1>2, <1>3, PTL DEF Spec

============================================================================
