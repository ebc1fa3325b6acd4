-------------------------- MODULE AuthenticationProofs --------------------------
(***************************************************************************)
(* Proofs about Authentication, for every set of requests, names and       *)
(* passwords, whatever the requests ask, and for all limits and lifetimes. *)
(***************************************************************************)
EXTENDS Authentication, TLAPS

LoginStages == {"address", "username", "reading", "comparing", "failed at address",
                "failed at username", "striking", "locking", "clearing"}

\* The kinds of request that may be at a stage.
KindsAt(s) ==
    IF s \in LoginStages THEN {"login"}
    ELSE IF s = "creating" THEN {"register"}
    ELSE IF s \in {"authorised", "changing"} THEN {"change"}
    ELSE IF s = "leaving" THEN {"logout"}
    ELSE IF s = "signing" THEN {"login", "register", "change"}
    ELSE Kinds

KindInv ==
    \A r \in Requests :
        /\ stage[r] # "idle" => input[r] \in Input /\ input[r].kind \in KindsAt(stage[r])
        /\ stage[r] # "ended" => told[r] = "nothing"

\* Types, and the kind of request that each stage belongs to.
StageInv == TypeOK /\ KindInv

\* Request r goes on to stage s.
Moves(r, s) ==
    /\ Goto(r, s)
    /\ UNCHANGED <<input, uses>>
    /\ \/ s # "ended" /\ UNCHANGED told
       \/ s = "ended" /\ \E v \in Verdicts : told' = [told EXCEPT ![r] = v]

----------------------------------------------------------------------------
(* Requests.                                                               *)

LEMMA MovesStages ==
    ASSUME StageInv, NEW r \in Requests, NEW s \in Stages, Moves(r, s),
           stage[r] \notin {"idle", "ended"}, KindsAt(stage[r]) \subseteq KindsAt(s)
    PROVE  /\ KindInv'
           /\ stage' \in [Requests -> Stages]
           /\ told' \in [Requests -> Verdicts]
           /\ input' = input /\ uses' = uses
<1>1. stage' = [stage EXCEPT ![r] = s] /\ stage \in [Requests -> Stages]
  BY DEF Moves, Goto, StageInv, TypeOK
<1>2. told' \in [Requests -> Verdicts]
  BY DEF Moves, StageInv, TypeOK
<1>3. s # "ended" => told' = told
  BY DEF Moves
<1>4. \A q \in Requests : q # r => told'[q] = told[q] /\ stage'[q] = stage[q]
  BY <1>1 DEF Moves, StageInv, TypeOK
<1>5. stage[r] # "ended" \/ s = "ended" \/ told'[r] = told[r]
  BY <1>3
<1>6. s # "ended" => stage[r] # "ended"
  OBVIOUS
<1>7. input' = input /\ uses' = uses
  BY DEF Moves
<1>8. ASSUME NEW q \in Requests
      PROVE  /\ stage'[q] # "idle" => input'[q] \in Input /\ input'[q].kind \in KindsAt(stage'[q])
             /\ stage'[q] # "ended" => told'[q] = "nothing"
  <2>1. CASE q = r
    BY <1>1, <1>3, <1>6, <1>7, <2>1 DEF StageInv, KindInv
  <2>2. CASE q # r
    BY <1>4, <1>7, <2>2 DEF StageInv, KindInv
  <2> QED BY <2>1, <2>2
<1>9. KindInv'
  BY <1>8 DEF KindInv
<1> QED BY <1>1, <1>2, <1>7, <1>9

LEMMA InputFields ==
    ASSUME StageInv, NEW r \in Requests, stage[r] # "idle"
    PROVE  /\ input[r] \in Input
           /\ input[r].ip \in Ips /\ input[r].name \in Names
           /\ input[r].password \in Passwords /\ input[r].new \in Passwords
           /\ input[r].kind \in KindsAt(stage[r])
BY DEF StageInv, KindInv, Input

LEMMA CountersOf ==
    ASSUME StageInv, NEW r \in Requests, stage[r] # "idle"
    PROVE  AddressOf(r) \in Counters /\ NameOf(r) \in Counters /\ StrikesOf(r) \in Counters
BY InputFields DEF AddressOf, NameOf, StrikesOf, Counters

LEMMA CountedTyped ==
    ASSUME counters \in [Counters -> Counter], NEW c \in Counters
    PROVE  /\ Counted(c) \in [Counters -> Counter]
           /\ CountedUntimed(c) \in [Counters -> Counter]
BY DEF Counted, CountedUntimed, Counter

LEMMA FaultTyped == ASSUME faults \in 0 .. MaxFaults, Fault PROVE faults' \in 0 .. MaxFaults
BY AuthNumbers DEF Fault

LEMMA InitStages == Init => StageInv
<1> SUFFICES ASSUME Init PROVE StageInv
  OBVIOUS
<1>1. Absent \in Account /\ Zero \in Counter
  BY DEF Absent, Account, Zero, Counter
<1>2. accounts \in [Names -> Account]
  <2>1. [hash |-> First.password, version |-> 0] \in Account
    BY AuthNames DEF Account
  <2> QED BY <1>1, <2>1 DEF Init
<1>3. tokens \in [Holders -> Token]
  BY AuthNumbers, AuthNames DEF Init, Token
<1>4. \A r \in Requests : stage[r] = "idle" /\ told[r] = "nothing"
  BY DEF Init
<1>5. uses \in [Requests -> Holders]
  BY DEF Init, Holders
<1>6. blacklist \in [Holders -> 0 .. BlacklistTtl] /\ faults \in 0 .. MaxFaults
  BY AuthNumbers DEF Init
<1>7. stage \in [Requests -> Stages] /\ told \in [Requests -> Verdicts]
  BY DEF Init, Stages, Verdicts
<1>8. /\ counters \in [Counters -> Counter] /\ locked \subseteq Names
      /\ input \in [Requests -> Input \cup {None}] /\ read \in [Requests -> Account]
      /\ admitted \in [Counters -> Nat]
  BY <1>1 DEF Init
<1>9. TypeOK
  BY <1>2, <1>3, <1>5, <1>6, <1>7, <1>8 DEF TypeOK
<1> QED BY <1>4, <1>9 DEF StageInv, KindInv

----------------------------------------------------------------------------
(* Arrival.                                                                *)

LEMMA ArrivesStages ==
    ASSUME StageInv, NEW r \in Requests, NEW in \in Input, NEW kinds, NEW s \in Stages \ {"idle"},
           Arrives(r, in, kinds), kinds \subseteq KindsAt(s),
           stage' = [stage EXCEPT ![r] = s],
           \/ UNCHANGED told
           \/ s = "ended" /\ \E v \in Verdicts : told' = [told EXCEPT ![r] = v]
    PROVE  /\ KindInv'
           /\ stage' \in [Requests -> Stages]
           /\ told' \in [Requests -> Verdicts]
           /\ input' \in [Requests -> Input \cup {None}]
<1>1. stage \in [Requests -> Stages] /\ told \in [Requests -> Verdicts] /\ input \in [Requests -> Input \cup {None}]
  BY DEF StageInv, TypeOK
<1>2. input' = [input EXCEPT ![r] = in] /\ stage[r] = "idle" /\ in.kind \in kinds
  BY DEF Arrives
<1>3. told[r] = "nothing"
  BY <1>2 DEF StageInv, KindInv
<1>4. told' \in [Requests -> Verdicts] /\ input' \in [Requests -> Input \cup {None}]
  BY <1>1, <1>2
<1>5. s # "ended" => told' = told
  OBVIOUS
<1>6. \A q \in Requests : q # r => told'[q] = told[q] /\ stage'[q] = stage[q] /\ input'[q] = input[q]
  BY <1>1, <1>2
<1>7. ASSUME NEW q \in Requests
      PROVE  /\ stage'[q] # "idle" => input'[q] \in Input /\ input'[q].kind \in KindsAt(stage'[q])
             /\ stage'[q] # "ended" => told'[q] = "nothing"
  <2>1. CASE q = r
    BY <1>1, <1>2, <1>3, <1>5, <2>1
  <2>2. CASE q # r
    BY <1>6, <2>2 DEF StageInv, KindInv
  <2> QED BY <2>1, <2>2
<1>8. KindInv'
  BY <1>7 DEF KindInv
<1> QED BY <1>1, <1>4, <1>8

LEMMA BeginStages == ASSUME StageInv, NEW r \in Requests, Begin(r) PROVE StageInv'
<1>0. Inputs[r] \subseteq Input
  BY AuthNames
<1>1. CASE BeginLogin(r)
  <2>1. PICK in \in Inputs[r] :
           /\ Arrives(r, in, {"login"})
           /\ IF in.name \in locked THEN End(r, "locked") ELSE Goto(r, "address") /\ UNCHANGED told
           /\ UNCHANGED <<accounts, counters, locked, blacklist, tokens, uses, read, admitted, faults>>
    BY <1>1 DEF BeginLogin
  <2>2. PICK s \in {"address", "ended"} :
           /\ stage' = [stage EXCEPT ![r] = s]
           /\ \/ UNCHANGED told
              \/ s = "ended" /\ \E v \in Verdicts : told' = [told EXCEPT ![r] = v]
    BY <2>1 DEF End, Goto, Verdicts
  <2>3. s \in Stages \ {"idle"} /\ {"login"} \subseteq KindsAt(s)
    BY <2>2 DEF Stages, KindsAt, LoginStages, Kinds
  <2>4. /\ KindInv'
        /\ stage' \in [Requests -> Stages]
        /\ told' \in [Requests -> Verdicts]
        /\ input' \in [Requests -> Input \cup {None}]
    <3>1. in \in Input /\ Arrives(r, in, {"login"})
      BY <1>0, <2>1
    <3> QED BY <2>2, <2>3, <3>1, ArrivesStages
  <2> QED BY <2>1, <2>4 DEF StageInv, TypeOK
<1>2. CASE BeginRegister(r)
  <2>1. PICK in \in Inputs[r] :
           /\ Arrives(r, in, {"register"})
           /\ IF accounts[in.name].hash # None THEN End(r, "taken")
              ELSE Goto(r, "creating") /\ UNCHANGED told
           /\ UNCHANGED <<accounts, counters, locked, blacklist, tokens, uses, read, admitted, faults>>
    BY <1>2 DEF BeginRegister
  <2>2. PICK s \in {"creating", "ended"} :
           /\ stage' = [stage EXCEPT ![r] = s]
           /\ \/ UNCHANGED told
              \/ s = "ended" /\ \E v \in Verdicts : told' = [told EXCEPT ![r] = v]
    BY <2>1 DEF End, Goto, Verdicts
  <2>3. s \in Stages \ {"idle"} /\ {"register"} \subseteq KindsAt(s)
    BY <2>2 DEF Stages, KindsAt, LoginStages, Kinds
  <2>4. /\ KindInv'
        /\ stage' \in [Requests -> Stages]
        /\ told' \in [Requests -> Verdicts]
        /\ input' \in [Requests -> Input \cup {None}]
    <3>1. in \in Input /\ Arrives(r, in, {"register"})
      BY <1>0, <2>1
    <3> QED BY <2>2, <2>3, <3>1, ArrivesStages
  <2> QED BY <2>1, <2>4 DEF StageInv, TypeOK
<1>3. CASE BeginWithToken(r)
  <2>1. PICK in \in Inputs[r], h \in Holders :
           /\ Arrives(r, [in EXCEPT !.name = tokens[h].name], {"change", "logout"})
           /\ uses' = [uses EXCEPT ![r] = h]
           /\ Goto(r, IF in.kind = "change" THEN "authorised" ELSE "leaving")
           /\ UNCHANGED <<accounts, counters, locked, blacklist, tokens, read, told, admitted, faults>>
    BY <1>3 DEF BeginWithToken
  <2>2. tokens[h].name \in Names
    BY DEF StageInv, TypeOK, Token
  <2> DEFINE in2 == [in EXCEPT !.name = tokens[h].name]
             s == IF in.kind = "change" THEN "authorised" ELSE "leaving"
             k == {in.kind}
  <2>3. in2 \in Input /\ in2.kind = in.kind
    BY <1>0, <2>2 DEF Input
  <2>4. in.kind \in {"change", "logout"}
    BY <2>1, <2>3 DEF Arrives
  <2>5. s \in Stages \ {"idle"} /\ k \subseteq KindsAt(s)
    BY <2>4 DEF Stages, KindsAt, LoginStages
  <2>6. Arrives(r, in2, k)
    BY <2>1, <2>3 DEF Arrives
  <2>7. stage' = [stage EXCEPT ![r] = s] /\ UNCHANGED told
    BY <2>1 DEF Goto
  <2>8. /\ KindInv'
        /\ stage' \in [Requests -> Stages]
        /\ told' \in [Requests -> Verdicts]
        /\ input' \in [Requests -> Input \cup {None}]
    <3> HIDE DEF in2, s, k
    <3> QED BY <2>3, <2>5, <2>6, <2>7, ArrivesStages
  <2>9. uses' \in [Requests -> Holders]
    BY <2>1 DEF StageInv, TypeOK
  <2> QED BY <2>1, <2>8, <2>9 DEF StageInv, TypeOK
<1> QED BY <1>1, <1>2, <1>3 DEF Begin

----------------------------------------------------------------------------
(* The steps of a request.                                                 *)

LEMMA GuardStages ==
    ASSUME StageInv, NEW r \in Requests,
           CheckLimits(r) \/ CountFailure(r) \/ LockName(r) \/ ClearFailures(r)
    PROVE  StageInv'
<1>0. stage[r] \in LoginStages /\ stage[r] \notin {"idle", "ended"}
  BY DEF CheckLimits, CountFailure, LockName, ClearFailures, LoginStages
<1>1. /\ AddressOf(r) \in Counters /\ NameOf(r) \in Counters /\ StrikesOf(r) \in Counters
      /\ input[r].name \in Names /\ KindsAt(stage[r]) = {"login"}
  BY <1>0, CountersOf, InputFields DEF KindsAt
<1>2. PICK s \in LoginStages \cup {"signing", "ended"} : Moves(r, s)
  <2> USE DEF Goto, End, Moves, LoginStages, Verdicts
  <2>1. CASE CheckLimits(r)
    BY <2>1 DEF CheckLimits, Admit
  <2>2. CASE CountFailure(r)
    BY <2>2 DEF CountFailure
  <2>3. CASE LockName(r)
    BY <2>3 DEF LockName
  <2>4. CASE ClearFailures(r)
    BY <2>4 DEF ClearFailures
  <2> QED BY <2>1, <2>2, <2>3, <2>4
<1>3. s \in Stages /\ {"login"} \subseteq KindsAt(s)
  BY <1>2 DEF Stages, LoginStages, KindsAt, Kinds
<1>4. /\ KindInv'
      /\ stage' \in [Requests -> Stages] /\ told' \in [Requests -> Verdicts]
      /\ input' = input /\ uses' = uses
  BY <1>0, <1>1, <1>2, <1>3, MovesStages
<1>5. counters' \in [Counters -> Counter]
  <2>1. counters \in [Counters -> Counter] /\ Zero \in Counter
    BY DEF StageInv, TypeOK, Zero, Counter
  <2> QED BY <1>1, <2>1, CountedTyped
         DEF CheckLimits, Admit, CountFailure, LockName, ClearFailures
<1>6. admitted' \in [Counters -> Nat] /\ locked' \subseteq Names
  <2>0. admitted \in [Counters -> Nat] /\ locked \subseteq Names
    BY DEF StageInv, TypeOK
  <2>1. CASE CheckLimits(r)
    BY <1>1, <2>0, <2>1 DEF CheckLimits, Admit
  <2>2. CASE CountFailure(r) \/ LockName(r)
    BY <1>1, <2>0, <2>2 DEF CountFailure, LockName
  <2>3. CASE ClearFailures(r)
    BY <1>1, <2>0, <2>3 DEF ClearFailures
  <2> QED BY <2>1, <2>2, <2>3
<1>7. UNCHANGED <<accounts, blacklist, tokens, read, faults>>
  BY DEF CheckLimits, CountFailure, LockName, ClearFailures
<1> QED BY <1>4, <1>5, <1>6, <1>7 DEF StageInv, TypeOK

LEMMA CrashStages ==
    ASSUME StageInv, NEW r \in Requests, Crash(r) \/ CrashCounting(r) PROVE StageInv'
<1>0. stage[r] \notin {"idle", "ended"}
  BY DEF Crash, CrashCounting
<1>1. Moves(r, "ended")
  BY DEF Crash, CrashCounting, End, Moves, Verdicts
<1>2. "ended" \in Stages /\ KindsAt(stage[r]) \subseteq KindsAt("ended")
  BY DEF Stages, KindsAt, LoginStages, Kinds
<1>3. /\ KindInv'
      /\ stage' \in [Requests -> Stages] /\ told' \in [Requests -> Verdicts]
      /\ input' = input /\ uses' = uses
  BY <1>0, <1>1, <1>2, MovesStages
<1>4. counters' \in [Counters -> Counter]
  BY <1>0, CountersOf, CountedTyped DEF Crash, CrashCounting, StageInv, TypeOK
<1>5. faults' \in 0 .. MaxFaults
  BY FaultTyped DEF Crash, CrashCounting, StageInv, TypeOK
<1>6. UNCHANGED <<accounts, locked, blacklist, tokens, read, admitted>>
  BY DEF Crash, CrashCounting
<1> QED BY <1>3, <1>4, <1>5, <1>6 DEF StageInv, TypeOK

LEMMA AccountStages ==
    ASSUME StageInv, NEW r \in Requests,
           \/ ReadUser(r) \/ ComparePassword(r) \/ Sign(r)
           \/ Create(r) \/ ReadOwn(r) \/ Change(r) \/ Leave(r)
    PROVE  StageInv'
<1>0. stage[r] \notin {"idle", "ended"}
  BY DEF ReadUser, ComparePassword, Sign, Create, ReadOwn, Change, Leave
<1>1. /\ input[r].name \in Names
      /\ input[r].password \in Passwords /\ input[r].new \in Passwords
  BY <1>0, InputFields
<1>2. PICK s \in Stages : Moves(r, s) /\ KindsAt(stage[r]) \subseteq KindsAt(s)
  <2> USE DEF Goto, End, Moves, Stages, LoginStages, Verdicts, KindsAt, Kinds
  <2>1. CASE ReadUser(r)
    BY <2>1 DEF ReadUser
  <2>2. CASE ComparePassword(r)
    BY <2>2 DEF ComparePassword
  <2>3. CASE Sign(r)
    BY <2>3 DEF Sign
  <2>4. CASE Create(r)
    BY <2>4 DEF Create
  <2>5. CASE ReadOwn(r)
    BY <2>5 DEF ReadOwn
  <2>6. CASE Change(r)
    BY <2>6 DEF Change
  <2>7. CASE Leave(r)
    BY <2>7 DEF Leave
  <2> QED BY <2>1, <2>2, <2>3, <2>4, <2>5, <2>6, <2>7
<1>3. /\ KindInv'
      /\ stage' \in [Requests -> Stages] /\ told' \in [Requests -> Verdicts]
      /\ input' = input /\ uses' = uses
  BY <1>0, <1>2, MovesStages
<1>4. accounts \in [Names -> Account] /\ read \in [Requests -> Account]
  BY DEF StageInv, TypeOK
<1>5. accounts' \in [Names -> Account]
  <2>1. /\ [hash |-> input[r].password, version |-> 0] \in Account
        /\ [hash |-> input[r].new, version |-> accounts[input[r].name].version + 1] \in Account
    BY <1>1, <1>4 DEF Account
  <2> QED BY <1>1, <1>4, <2>1
         DEF ReadUser, ComparePassword, Sign, Create, ReadOwn, Change, Leave, Rewritten
<1>6. read' \in [Requests -> Account]
  BY <1>1, <1>4, <1>5 DEF ReadUser, ComparePassword, Sign, Create, ReadOwn, Change, Leave
<1>7. tokens' \in [Holders -> Token]
  <2>1. [name |-> input[r].name, version |-> read[r].version, left |-> TokenLife] \in Token
    BY <1>1, <1>4, AuthNumbers DEF Token, Account
  <2> QED BY <2>1 DEF Signed, StageInv, TypeOK,
               ReadUser, ComparePassword, Sign, Create, ReadOwn, Change, Leave
<1>8. blacklist' \in [Holders -> 0 .. BlacklistTtl]
  <2>1. BlacklistTtl \in 0 .. BlacklistTtl
    BY AuthNumbers
  <2>2. blacklist' \in {blacklist, [blacklist EXCEPT ![uses[r]] = BlacklistTtl]}
    BY DEF Blacklisted, ReadUser, ComparePassword, Sign, Create, ReadOwn, Change, Leave
  <2> QED BY <2>1, <2>2 DEF StageInv, TypeOK
<1>9. UNCHANGED <<counters, locked, admitted, faults>>
  BY DEF ReadUser, ComparePassword, Sign, Create, ReadOwn, Change, Leave
<1> QED BY <1>3, <1>5, <1>6, <1>7, <1>8, <1>9 DEF StageInv, TypeOK

LEMMA StepStages == ASSUME StageInv, NEW r \in Requests, Step(r) PROVE StageInv'
BY BeginStages, GuardStages, AccountStages, CrashStages DEF Step

LEMMA TimeStages ==
    ASSUME StageInv,
           \/ Tick
           \/ \E c \in Counters : WindowEnds(c)
           \/ \E u \in Names : LockEnds(u)
    PROVE  StageInv'
<1>1. CASE Tick
  <2>1. blacklist' \in [Holders -> 0 .. BlacklistTtl]
    BY <1>1, AuthNumbers DEF Tick, Less, StageInv, TypeOK
  <2>2. ASSUME NEW h \in Holders PROVE [tokens[h] EXCEPT !.left = Less(@)] \in Token
    BY AuthNumbers DEF StageInv, TypeOK, Token, Less
  <2> QED BY <1>1, <2>1, <2>2 DEF Tick, StageInv, TypeOK, KindInv
<1>2. CASE \E c \in Counters : WindowEnds(c)
  BY <1>2 DEF WindowEnds, StageInv, TypeOK, KindInv, Counter, Zero
<1>3. CASE \E u \in Names : LockEnds(u)
  BY <1>3 DEF LockEnds, StageInv, TypeOK, KindInv
<1> QED BY <1>1, <1>2, <1>3

LEMMA NextStages == StageInv /\ [Next]_vars => StageInv'
BY StepStages, TimeStages DEF Next, vars, StageInv, TypeOK, KindInv

\* Every reachable state of accounts, keys, tokens and requests is well typed.
THEOREM AuthTypeCorrect == Spec => []TypeOK
<1>1. StageInv => TypeOK
  BY DEF StageInv
<1> QED BY <1>1, InitStages, NextStages, PTL DEF Spec

----------------------------------------------------------------------------
(* The rate limits.                                                        *)

\* A counter has counted at least the attempts it admitted.
CountInv ==
    /\ StageInv
    /\ \A c \in Counters : admitted[c] =< counters[c].n /\ admitted[c] =< Limit

LEMMA InitCount == Init => CountInv
BY InitStages, AuthNumbers DEF CountInv, Init, Zero

LEMMA StepCount == ASSUME CountInv, NEW r \in Requests, Step(r) PROVE CountInv'
<1>0. StageInv'
  BY StepStages DEF CountInv
<1>1. counters \in [Counters -> Counter] /\ admitted \in [Counters -> Nat] /\ Limit \in Nat
  BY AuthNumbers DEF CountInv, StageInv, TypeOK
<1>2. CASE CheckLimits(r)
  <2>1. stage[r] # "idle"
    BY <1>2 DEF CheckLimits
  <2>2. PICK c \in Counters :
           /\ counters' = [counters EXCEPT ![c] = [n |-> @.n + 1, timed |-> @.timed \/ @.n = 0]]
           /\ \/ counters[c].n + 1 =< Limit /\ admitted' = [admitted EXCEPT ![c] = @ + 1]
              \/ UNCHANGED admitted
    BY <1>2, <2>1, CountersOf DEF CheckLimits, Admit, Counted, CountInv
  <2> QED BY <1>0, <1>1, <2>2 DEF CountInv, Counter
<1>3. CASE CountFailure(r) \/ CrashCounting(r)
  <2>1. stage[r] # "idle"
    BY <1>3 DEF CountFailure, CrashCounting
  <2>2. PICK c \in Counters, b \in BOOLEAN :
           /\ counters' = [counters EXCEPT ![c] = [n |-> @.n + 1, timed |-> b]]
           /\ UNCHANGED admitted
    <3>1. \A c \in Counters : counters[c].timed \in BOOLEAN
      BY <1>1 DEF Counter
    <3> QED BY <1>3, <2>1, <3>1, CountersOf
            DEF CountFailure, CrashCounting, Counted, CountedUntimed, CountInv
  <2> QED BY <1>0, <1>1, <2>2 DEF CountInv, Counter
<1>4. CASE ClearFailures(r)
  BY <1>0, <1>1, <1>4 DEF ClearFailures, CountInv, Counter, Zero
<1>5. CASE UNCHANGED <<counters, admitted>>
  BY <1>0, <1>5 DEF CountInv
<1> QED BY <1>2, <1>3, <1>4, <1>5
        DEF Step, Begin, BeginLogin, BeginRegister, BeginWithToken, ReadUser, ComparePassword,
            LockName, Sign, Create, ReadOwn, Change, Leave, Crash

LEMMA NextCount == CountInv /\ [Next]_vars => CountInv'
<1> SUFFICES ASSUME CountInv, [Next]_vars PROVE CountInv'
  OBVIOUS
<1>0. StageInv'
  BY NextStages DEF CountInv
<1>1. CASE UNCHANGED <<counters, admitted>>
  BY <1>0, <1>1 DEF CountInv
<1>2. CASE \E c \in Counters : WindowEnds(c)
  BY <1>0, <1>2, AuthNumbers DEF WindowEnds, CountInv, StageInv, TypeOK, Counter, Zero
<1> QED BY <1>1, <1>2, StepCount DEF Next, Tick, LockEnds, vars

\* However many logins run at the same time, a counter lets at most Limit pass in its life.
THEOREM AttemptsAreBoundedHolds == Spec => []AttemptsAreBounded
<1>1. CountInv => AttemptsAreBounded
  BY DEF CountInv, AttemptsAreBounded
<1> QED BY <1>1, InitCount, NextCount, PTL DEF Spec

----------------------------------------------------------------------------
(* Tokens and passwords.                                                   *)

\* A row of the account's that is not newer, and is the row itself if it is as new.
Of(account, u) ==
    /\ account.version =< accounts[u].version
    /\ account.version = accounts[u].version /\ account.hash # None =>
           account.hash = accounts[u].hash

TokenRow(h) == [hash |-> Secret(h), version |-> tokens[h].version]

\* What a token is for, and what a request has read on its way to one, was once the
\* account's row.
SecretInv ==
    /\ StageInv
    /\ \A u \in Names : accounts[u].hash = None => accounts[u].version = 0
    /\ \A h \in Holders : Lives(h) => Of(TokenRow(h), tokens[h].name)
    /\ \A r \in Requests :
        /\ Lives(r) => stage[r] = "ended"
        /\ stage[r] \in {"comparing", "clearing", "signing"} => Of(read[r], input[r].name)
        /\ stage[r] = "clearing" => read[r].hash = input[r].password
        /\ stage[r] = "signing" => read[r].hash = Secret(r)

LEMMA InitSecret == Init => SecretInv
<1> SUFFICES ASSUME Init PROVE SecretInv
  OBVIOUS
<1>1. \A r \in Requests : ~ Lives(r) /\ stage[r] = "idle"
  <2>1. \A r \in Requests : r # Session /\ r \in Holders
    BY AuthNames DEF Holders
  <2>2. \A r \in Requests : tokens[r].left = 0
    BY <2>1 DEF Init
  <2>3. \A r \in Requests : ~ Lives(r)
    <3> SUFFICES ASSUME NEW r \in Requests PROVE ~ (tokens[r].left > 0)
      BY DEF Lives
    <3>1. tokens[r].left = 0
      BY <2>2
    <3>2. ~ (0 > 0)
      OBVIOUS
    <3> QED BY <3>1, <3>2, Zenon
  <2>4. \A r \in Requests : stage[r] = "idle"
    BY DEF Init
  <2> QED BY <2>3, <2>4
<1>2. Of(TokenRow(Session), tokens[Session].name)
  <2>1. TokenRow(Session) = [hash |-> First.password, version |-> 0] /\ tokens[Session].name = First.name
    BY DEF Init, TokenRow, Secret, Holders
  <2>2. accounts[First.name] = [hash |-> First.password, version |-> 0]
    BY AuthNames DEF Init
  <2> QED BY <2>1, <2>2 DEF Of
<1>3. \A u \in Names : accounts[u].hash = None => accounts[u].version = 0
  BY DEF Init, Absent
<1> QED BY <1>1, <1>2, <1>3, InitStages DEF SecretInv, Holders

\* Rows are only replaced by newer ones, or given to a name that had none.
LEMMA AccountsAdvance ==
    ASSUME StageInv, [Next]_vars, NEW u \in Names
    PROVE  \/ accounts'[u] = accounts[u]
           \/ accounts'[u].version > accounts[u].version
           \/ accounts[u].hash = None /\ accounts'[u].version = 0
<1>0. accounts \in [Names -> Account]
  BY DEF StageInv, TypeOK
<1>1. CASE UNCHANGED accounts
  BY <1>1
<1>2. CASE \E r \in Requests : Create(r)
  BY <1>0, <1>2 DEF Create
<1>3. CASE \E r \in Requests : Change(r)
  <2>1. PICK r \in Requests : accounts' = Rewritten(r)
    BY <1>3 DEF Change
  <2>2. accounts[u].version \in Nat
    BY <1>0 DEF Account
  <2> QED BY <1>0, <2>1, <2>2 DEF Rewritten
<1> QED BY <1>1, <1>2, <1>3
        DEF Next, vars, Step, Begin, BeginLogin, BeginRegister, BeginWithToken, CheckLimits,
            ReadUser, ComparePassword, CountFailure, LockName, ClearFailures, Sign, ReadOwn,
            Leave, Crash, CrashCounting, Tick, WindowEnds, LockEnds

LEMMA AbsentKeeps ==
    ASSUME SecretInv, [Next]_vars, NEW u \in Names, accounts'[u].hash = None
    PROVE  accounts'[u].version = 0
<1>0. accounts \in [Names -> Account]
  BY DEF SecretInv, StageInv, TypeOK
<1>1. CASE UNCHANGED accounts
  BY <1>1 DEF SecretInv
<1>2. CASE \E r \in Requests : Create(r)
  BY <1>0, <1>2 DEF Create, SecretInv
<1>3. CASE \E r \in Requests : Change(r)
  <2>1. PICK r \in Requests : accounts' = Rewritten(r) /\ stage[r] = "changing"
    BY <1>3 DEF Change
  <2>2. input[r].new # None
    BY <2>1, InputFields, AuthNames DEF SecretInv
  <2> QED BY <1>0, <2>1, <2>2 DEF Rewritten, SecretInv
<1> QED BY <1>1, <1>2, <1>3
        DEF Next, vars, Step, Begin, BeginLogin, BeginRegister, BeginWithToken, CheckLimits,
            ReadUser, ComparePassword, CountFailure, LockName, ClearFailures, Sign, ReadOwn,
            Leave, Crash, CrashCounting, Tick, WindowEnds, LockEnds

LEMMA OfKeeps ==
    ASSUME SecretInv, StageInv', [Next]_vars, NEW u \in Names, NEW account \in Account,
           Of(account, u)
    PROVE  /\ account.version =< accounts'[u].version
           /\ account.version = accounts'[u].version /\ account.hash # None =>
                  account.hash = accounts'[u].hash
<1>0. StageInv
  BY DEF SecretInv
<1>1. accounts[u].version \in Nat /\ accounts'[u].version \in Nat /\ account.version \in Nat
  BY <1>0 DEF StageInv, TypeOK, Account
<1>2. CASE accounts'[u] = accounts[u]
  BY <1>2 DEF Of
<1>3. CASE accounts'[u].version > accounts[u].version
  BY <1>1, <1>3 DEF Of
<1>4. CASE accounts[u].hash = None /\ accounts'[u].version = 0
  <2>1. accounts[u].version = 0
    BY <1>4 DEF SecretInv
  <2> QED BY <1>1, <1>4, <2>1 DEF Of
<1> QED BY <1>0, <1>2, <1>3, <1>4, AccountsAdvance

LEMMA SecretTyped ==
    ASSUME StageInv, NEW h \in Holders, h = Session \/ stage[h] # "idle"
    PROVE  Secret(h) \in Passwords /\ TokenRow(h) \in Account /\ tokens[h].name \in Names
<1>1. Secret(h) \in Passwords
  BY InputFields, AuthNames DEF Secret, Holders
<1>2. tokens[h].version \in Nat /\ tokens[h].name \in Names
  BY DEF StageInv, TypeOK, Token
<1> QED BY <1>1, <1>2 DEF TokenRow, Account

\* A request's input stays once it has begun.
LEMMA InputsStay ==
    ASSUME StageInv, [Next]_vars, NEW r \in Requests, stage[r] # "idle"
    PROVE  input'[r] = input[r]
<1>1. CASE UNCHANGED input
  BY <1>1
<1>2. CASE \E q \in Requests : Begin(q)
  BY <1>2 DEF Begin, BeginLogin, BeginRegister, BeginWithToken, Arrives, StageInv, TypeOK
<1> QED BY <1>1, <1>2
        DEF Next, vars, Step, CheckLimits, ReadUser, ComparePassword, CountFailure, LockName,
            ClearFailures, Sign, Create, ReadOwn, Change, Leave, Crash, CrashCounting,
            Tick, WindowEnds, LockEnds

\* A token only gets older, unless its holder has just been given it.
LEMMA TokensStay ==
    ASSUME StageInv, [Next]_vars, NEW h \in Holders, ~ (h \in Requests /\ Sign(h))
    PROVE  /\ tokens'[h].name = tokens[h].name /\ tokens'[h].version = tokens[h].version
           /\ Lives(h)' => Lives(h)
<1>0. tokens \in [Holders -> Token]
  BY DEF StageInv, TypeOK
<1>1. CASE tokens'[h] = tokens[h]
  BY <1>1 DEF Lives
<1>2. CASE Tick
  BY <1>0, <1>2 DEF Tick, Less, Lives, Token
<1>3. CASE \E r \in Requests : Sign(r)
  BY <1>0, <1>3 DEF Sign, Signed, Lives
<1> QED BY <1>1, <1>2, <1>3
        DEF Next, vars, Step, Begin, BeginLogin, BeginRegister, BeginWithToken, CheckLimits,
            ReadUser, ComparePassword, CountFailure, LockName, ClearFailures, Create, ReadOwn,
            Change, Leave, Crash, CrashCounting, WindowEnds, LockEnds

\* What a request has read stays, and is the row as it is when it is read.
LEMMA ReadsStay ==
    ASSUME StageInv, [Next]_vars, NEW r \in Requests,
           stage'[r] \in {"comparing", "clearing", "signing"}
    PROVE  /\ stage[r] # "idle"
           /\ \/ /\ stage[r] \in {"comparing", "clearing", "signing"}
                 /\ read'[r] = read[r]
              \/ read'[r] = accounts'[input[r].name]
<1>0. /\ stage \in [Requests -> Stages] /\ read \in [Requests -> Account]
      /\ input \in [Requests -> Input \cup {None}]
  BY DEF StageInv, TypeOK
<1>1. CASE UNCHANGED <<stage, read>>
  BY <1>1
<1>2. CASE \E q \in Requests : Begin(q)
  BY <1>0, <1>2 DEF Begin, BeginLogin, BeginRegister, BeginWithToken, Goto, End
<1>3. CASE \E q \in Requests : CheckLimits(q) \/ CountFailure(q) \/ LockName(q)
  BY <1>0, <1>3 DEF CheckLimits, Admit, CountFailure, LockName, Goto, End
<1>4. CASE \E q \in Requests : ReadUser(q) \/ ReadOwn(q)
  BY <1>0, <1>4 DEF ReadUser, ReadOwn, Goto, End
<1>5. CASE \E q \in Requests : ComparePassword(q) \/ ClearFailures(q) \/ Sign(q)
  BY <1>0, <1>5 DEF ComparePassword, ClearFailures, Sign, Goto, End
<1>6. CASE \E q \in Requests : Create(q) \/ Change(q)
  BY <1>0, <1>6 DEF Create, Change, Goto, End
<1>7. CASE \E q \in Requests : Leave(q) \/ Crash(q) \/ CrashCounting(q)
  BY <1>0, <1>7 DEF Leave, Crash, CrashCounting, Goto, End
<1> QED BY <1>1, <1>2, <1>3, <1>4, <1>5, <1>6, <1>7
        DEF Next, vars, Step, Tick, WindowEnds, LockEnds

\* The password that was compared, or set, is that of the row that was read.
LEMMA SecretsAreRead ==
    ASSUME SecretInv, [Next]_vars, NEW r \in Requests
    PROVE  /\ stage'[r] = "clearing" => read'[r].hash = input[r].password
           /\ stage'[r] = "signing" => read'[r].hash = Secret(r)
<1>0. /\ stage \in [Requests -> Stages] /\ read \in [Requests -> Account]
      /\ accounts \in [Names -> Account]
  BY DEF SecretInv, StageInv, TypeOK
<1>1. CASE UNCHANGED <<stage, read>>
  BY <1>1 DEF SecretInv
<1>2. CASE \E q \in Requests : Begin(q)
  BY <1>0, <1>2 DEF Begin, BeginLogin, BeginRegister, BeginWithToken, Goto, End, SecretInv
<1>3. CASE \E q \in Requests : CheckLimits(q) \/ CountFailure(q) \/ LockName(q)
  BY <1>0, <1>3 DEF CheckLimits, Admit, CountFailure, LockName, Goto, End, SecretInv
<1>4. CASE \E q \in Requests : ReadUser(q) \/ ReadOwn(q)
  BY <1>0, <1>4 DEF ReadUser, ReadOwn, Goto, End, SecretInv
<1>5. CASE \E q \in Requests : ComparePassword(q) \/ Sign(q)
  BY <1>0, <1>5 DEF ComparePassword, Sign, Goto, End, SecretInv
<1>6. CASE \E q \in Requests : ClearFailures(q)
  <2>1. PICK q \in Requests : ClearFailures(q)
    BY <1>6
  <2>2. CASE q = r
    <3>1. stage[r] = "clearing" /\ stage'[r] = "signing" /\ read'[r] = read[r]
      BY <1>0, <2>1, <2>2 DEF ClearFailures, Goto
    <3>2. input[r].kind = "login" /\ r # Session
      BY <3>1, InputFields, AuthNames DEF SecretInv, KindsAt, LoginStages
    <3> QED BY <3>1, <3>2 DEF SecretInv, Secret
  <2>3. CASE q # r
    BY <1>0, <2>1, <2>3 DEF ClearFailures, Goto, SecretInv
  <2> QED BY <2>2, <2>3
<1>7. CASE \E q \in Requests : Create(q)
  <2>1. PICK q \in Requests : Create(q)
    BY <1>7
  <2>2. input[q].kind = "register" /\ input[q].name \in Names /\ q # Session
    BY <2>1, InputFields, AuthNames DEF Create, SecretInv, KindsAt, LoginStages
  <2> QED BY <1>0, <2>1, <2>2 DEF Create, Goto, End, Secret, SecretInv
<1>8. CASE \E q \in Requests : Change(q)
  <2>1. PICK q \in Requests : Change(q)
    BY <1>8
  <2>2. input[q].kind = "change" /\ input[q].name \in Names /\ q # Session
    BY <2>1, InputFields, AuthNames DEF Change, SecretInv, KindsAt, LoginStages
  <2> QED BY <1>0, <2>1, <2>2 DEF Change, Rewritten, Goto, End, Secret, SecretInv
<1>9. CASE \E q \in Requests : Leave(q) \/ Crash(q) \/ CrashCounting(q)
  BY <1>0, <1>9 DEF Leave, Crash, CrashCounting, Goto, End, SecretInv
<1> QED BY <1>1, <1>2, <1>3, <1>4, <1>5, <1>6, <1>7, <1>8, <1>9
        DEF Next, vars, Step, Tick, WindowEnds, LockEnds

\* A request that has ended stays so.
LEMMA EndedStays ==
    ASSUME StageInv, [Next]_vars, NEW r \in Requests, stage[r] = "ended"
    PROVE  stage'[r] = "ended" /\ told'[r] = told[r] /\ uses'[r] = uses[r]
<1>0. /\ stage \in [Requests -> Stages] /\ told \in [Requests -> Verdicts]
      /\ uses \in [Requests -> Holders]
  BY DEF StageInv, TypeOK
<1>1. CASE UNCHANGED <<stage, told, uses>>
  BY <1>1
<1>2. CASE \E q \in Requests : Begin(q)
  BY <1>0, <1>2 DEF Begin, BeginLogin, BeginRegister, BeginWithToken, Arrives, Goto, End
<1>3. CASE \E q \in Requests : CheckLimits(q) \/ CountFailure(q) \/ LockName(q) \/ ClearFailures(q)
  BY <1>0, <1>3 DEF CheckLimits, Admit, CountFailure, LockName, ClearFailures, Goto, End
<1>4. CASE \E q \in Requests : ReadUser(q) \/ ComparePassword(q) \/ Sign(q) \/ ReadOwn(q)
  BY <1>0, <1>4 DEF ReadUser, ComparePassword, Sign, ReadOwn, Goto, End
<1>5. CASE \E q \in Requests : Create(q) \/ Change(q) \/ Leave(q) \/ Crash(q) \/ CrashCounting(q)
  BY <1>0, <1>5 DEF Create, Change, Leave, Crash, CrashCounting, Goto, End
<1> QED BY <1>1, <1>2, <1>3, <1>4, <1>5 DEF Next, vars, Step, Tick, WindowEnds, LockEnds

LEMMA NextSecret == SecretInv /\ [Next]_vars => SecretInv'
<1> SUFFICES ASSUME SecretInv, [Next]_vars PROVE SecretInv'
  OBVIOUS
<1>0. StageInv /\ StageInv'
  BY NextStages DEF SecretInv
<1>1. \A u \in Names : accounts'[u].hash = None => accounts'[u].version = 0
  BY AbsentKeeps
<1>2. ASSUME NEW r \in Requests, Sign(r)
      PROVE  /\ stage[r] = "signing" /\ stage'[r] = "ended" /\ accounts' = accounts
             /\ tokens'[r].name = input[r].name /\ tokens'[r].version = read[r].version
             /\ input' = input
  BY <1>0, <1>2 DEF Sign, Signed, End, Goto, StageInv, TypeOK, Holders
<1>3. ASSUME NEW r \in Requests, Lives(r)'
      PROVE  stage'[r] = "ended"
  <2>1. CASE Sign(r)
    BY <1>2, <2>1
  <2>2. CASE ~ Sign(r)
    <3>1. Lives(r)
      BY <1>0, <1>3, <2>2, TokensStay DEF Holders
    <3>2. stage[r] = "ended"
      BY <3>1 DEF SecretInv
    <3> QED BY <1>0, <3>2, EndedStays
  <2> QED BY <2>1, <2>2
<1>4. ASSUME NEW h \in Holders, Lives(h)'
      PROVE  Of(TokenRow(h), tokens[h].name)'
  <2>1. CASE h \in Requests /\ Sign(h)
    <3>1. /\ stage[h] = "signing" /\ accounts' = accounts /\ input' = input
          /\ tokens'[h].name = input[h].name /\ tokens'[h].version = read[h].version
      BY <1>2, <2>1
    <3>2. Of(read[h], input[h].name) /\ read[h].hash = Secret(h)
      BY <2>1, <3>1 DEF SecretInv
    <3>3. Secret(h)' = Secret(h)
      BY <3>1 DEF Secret
    <3> QED BY <3>1, <3>2, <3>3 DEF Of, TokenRow
  <2>2. CASE ~ (h \in Requests /\ Sign(h))
    <3>1. /\ tokens'[h].name = tokens[h].name /\ tokens'[h].version = tokens[h].version
          /\ Lives(h)
      BY <1>0, <1>4, <2>2, TokensStay
    <3>2. h = Session \/ (h \in Requests /\ stage[h] = "ended")
      BY <3>1 DEF SecretInv, Holders
    <3>3. Secret(h)' = Secret(h)
      BY <1>0, <3>2, InputsStay DEF Secret
    <3>4. TokenRow(h)' = TokenRow(h)
      BY <3>1, <3>3 DEF TokenRow
    <3>5. Of(TokenRow(h), tokens[h].name)
      BY <3>1 DEF SecretInv
    <3>6. TokenRow(h) \in Account /\ tokens[h].name \in Names
      BY <1>0, <3>2, SecretTyped
    <3> HIDE DEF TokenRow
    <3>7. /\ TokenRow(h).version =< accounts'[tokens[h].name].version
          /\ TokenRow(h).version = accounts'[tokens[h].name].version /\ TokenRow(h).hash # None =>
                 TokenRow(h).hash = accounts'[tokens[h].name].hash
      BY <1>0, <3>5, <3>6, OfKeeps
    <3> QED BY <3>1, <3>4, <3>7 DEF Of
  <2> QED BY <2>1, <2>2
<1>5. ASSUME NEW r \in Requests, stage'[r] \in {"comparing", "clearing", "signing"}
      PROVE  Of(read[r], input[r].name)'
  <2>1. stage[r] # "idle" /\ input'[r] = input[r]
    BY <1>0, <1>5, ReadsStay, InputsStay
  <2>2. input[r].name \in Names /\ read[r] \in Account /\ accounts' \in [Names -> Account]
    BY <1>0, <2>1, InputFields DEF StageInv, TypeOK
  <2>3. CASE read'[r] = accounts'[input[r].name]
    <3>1. accounts'[input[r].name].version \in Nat
      BY <2>2 DEF Account
    <3> QED BY <2>1, <2>3, <3>1 DEF Of
  <2>4. CASE stage[r] \in {"comparing", "clearing", "signing"} /\ read'[r] = read[r]
    <3>1. Of(read[r], input[r].name)
      BY <2>4 DEF SecretInv
    <3>2. /\ read[r].version =< accounts'[input[r].name].version
          /\ read[r].version = accounts'[input[r].name].version /\ read[r].hash # None =>
                 read[r].hash = accounts'[input[r].name].hash
      BY <1>0, <2>2, <3>1, OfKeeps
    <3> QED BY <2>1, <2>4, <3>2 DEF Of
  <2> QED BY <1>0, <1>5, <2>3, <2>4, ReadsStay
<1>6. ASSUME NEW r \in Requests
      PROVE  /\ stage'[r] = "clearing" => read'[r].hash = input'[r].password
             /\ stage'[r] = "signing" => read'[r].hash = Secret(r)'
  <2>1. CASE stage'[r] \in {"clearing", "signing"}
    <3>1. input'[r] = input[r]
      BY <1>0, <2>1, ReadsStay, InputsStay
    <3>2. Secret(r)' = Secret(r)
      BY <3>1 DEF Secret
    <3> QED BY <3>1, <3>2, SecretsAreRead
  <2>2. CASE stage'[r] \notin {"clearing", "signing"}
    BY <2>2
  <2> QED BY <2>1, <2>2
<1> QED BY <1>0, <1>1, <1>3, <1>4, <1>5, <1>6 DEF SecretInv

\* Every token that validates knows the password the account has, however logins, changes
\* of the password and registrations overtake each other.
THEOREM TokensKnowThePasswordHolds == Spec => []TokensKnowThePassword
<1>1. SecretInv => TokensKnowThePassword
  <2> SUFFICES ASSUME SecretInv, NEW h \in Holders, Valid(h)
               PROVE  accounts[tokens[h].name].hash = Secret(h)
    BY DEF TokensKnowThePassword
  <2>1. Lives(h) /\ accounts[tokens[h].name].version = tokens[h].version
    BY DEF Valid
  <2>2. Of(TokenRow(h), tokens[h].name)
    BY <2>1 DEF SecretInv
  <2>3. h = Session \/ (h \in Requests /\ stage[h] = "ended")
    BY <2>1 DEF SecretInv, Holders
  <2>4. Secret(h) # None
    BY <2>3, SecretTyped, AuthNames DEF SecretInv
  <2> QED BY <2>1, <2>2, <2>4 DEF Of, TokenRow
<1> QED BY <1>1, InitSecret, NextSecret, PTL DEF Spec

----------------------------------------------------------------------------
(* Logout.                                                                 *)

\* The token of a finished logout will be dead before its blacklist entry goes.
LeftInv ==
    /\ SecretInv
    /\ \A r \in Requests :
        /\ stage[r] = "leaving" \/ told[r] = "ok" =>
               uses[r] = Session \/ stage[uses[r]] = "ended"
        /\ told[r] = "ok" =>
               stage[r] = "ended" /\ tokens[uses[r]].left =< blacklist[uses[r]]

LEMMA NextLeft == RevocationsLast /\ LeftInv /\ [Next]_vars => LeftInv'
<1> SUFFICES ASSUME RevocationsLast, LeftInv, [Next]_vars PROVE LeftInv'
  OBVIOUS
<1>0. StageInv /\ SecretInv /\ SecretInv'
  BY NextSecret DEF LeftInv, SecretInv
<1>1. /\ stage \in [Requests -> Stages] /\ told \in [Requests -> Verdicts]
      /\ uses \in [Requests -> Holders] /\ tokens \in [Holders -> Token]
      /\ blacklist \in [Holders -> 0 .. BlacklistTtl]
  BY <1>0 DEF StageInv, TypeOK
<1>a. \A h \in Holders : tokens[h].left \in Nat /\ tokens[h].left =< TokenLife /\ blacklist[h] \in Nat
  BY <1>1, AuthNumbers DEF Token
\* A holder that has its token keeps it, and its entry does not get shorter than the token.
<1>2. ASSUME NEW h \in Holders, h = Session \/ stage[h] = "ended"
      PROVE  /\ h = Session \/ stage'[h] = "ended"
             /\ tokens[h].left =< blacklist[h] => tokens'[h].left =< blacklist'[h]
  <2>1. h = Session \/ stage'[h] = "ended"
    BY <1>0, <1>2, EndedStays DEF Holders
  <2>2. CASE Tick
    <3>1. tokens'[h].left = Less(tokens[h].left) /\ blacklist'[h] = Less(blacklist[h])
      BY <1>1, <2>2 DEF Tick, Token
    <3>2. tokens[h].left \in Nat /\ blacklist[h] \in Nat
      BY <1>a
    <3> QED BY <2>1, <3>1, <3>2 DEF Less
  <2>3. CASE \E r \in Requests : Sign(r)
    <3>1. PICK r \in Requests : Sign(r)
      BY <2>3
    <3>2. h # r
      BY <1>2, <3>1, AuthNames DEF Sign
    <3> QED BY <1>1, <2>1, <3>1, <3>2 DEF Sign, Signed
  <2>4. CASE \E r \in Requests : Leave(r)
    BY <1>1, <1>a, <2>1, <2>4, AuthNumbers DEF Leave, Blacklisted, RevocationsLast
  <2>5. CASE UNCHANGED <<tokens, blacklist>>
    BY <2>1, <2>5
  <2> QED BY <2>1, <2>2, <2>3, <2>4, <2>5
          DEF Next, vars, Step, Begin, BeginLogin, BeginRegister, BeginWithToken, CheckLimits,
              ReadUser, ComparePassword, CountFailure, LockName, ClearFailures, Create,
              ReadOwn, Change, Crash, CrashCounting, WindowEnds, LockEnds
<1>3. ASSUME NEW r \in Requests, stage'[r] = "leaving" \/ told'[r] = "ok"
      PROVE  \/ /\ stage[r] = "leaving" \/ told[r] = "ok"
                /\ uses'[r] = uses[r]
                /\ \/ told'[r] = told[r] /\ stage'[r] = stage[r]
                   \/ Leave(r)
             \/ /\ told'[r] = "nothing"
                /\ uses'[r] \in Holders /\ Lives(uses'[r])
  <2>1. CASE told'[r] = told[r] /\ stage'[r] = stage[r] /\ uses'[r] = uses[r]
    BY <1>3, <2>1
  <2>2. CASE \E q \in Requests : Begin(q)
    BY <1>0, <1>1, <1>3, <2>2
       DEF Begin, BeginLogin, BeginRegister, BeginWithToken, Arrives, Goto, End, Valid, Verdicts,
           StageInv, KindInv
  <2>3. ASSUME NEW q \in Requests, stage[q] # "ended", UNCHANGED uses,
               \A p \in Requests : p # q => stage'[p] = stage[p] /\ told'[p] = told[p],
               stage'[q] # "leaving" /\ (told'[q] = told[q] \/ told'[q] # "ok")
        PROVE  told'[r] = told[r] /\ stage'[r] = stage[r] /\ uses'[r] = uses[r]
    <3>1. told[q] = "nothing"
      BY <1>0, <2>3 DEF StageInv, KindInv
    <3>2. r # q
      BY <1>3, <2>3, <3>1
    <3> QED BY <2>3, <3>2
  <2>4. CASE \E q \in Requests : CheckLimits(q) \/ CountFailure(q) \/ LockName(q) \/ ClearFailures(q)
    <3>1. PICK q \in Requests : CheckLimits(q) \/ CountFailure(q) \/ LockName(q) \/ ClearFailures(q)
      BY <2>4
    <3>2. /\ stage[q] # "ended" /\ UNCHANGED uses
          /\ \A p \in Requests : p # q => stage'[p] = stage[p] /\ told'[p] = told[p]
          /\ stage'[q] # "leaving" /\ (told'[q] = told[q] \/ told'[q] # "ok")
      BY <1>1, <3>1 DEF CheckLimits, CountFailure, LockName, ClearFailures, Admit, Goto, End
    <3> QED BY <2>1, <2>3, <3>2
  <2>5. CASE \E q \in Requests : ReadUser(q) \/ ComparePassword(q) \/ Sign(q) \/ ReadOwn(q)
    <3>1. PICK q \in Requests : ReadUser(q) \/ ComparePassword(q) \/ Sign(q) \/ ReadOwn(q)
      BY <2>5
    <3>2. /\ stage[q] # "ended" /\ UNCHANGED uses
          /\ \A p \in Requests : p # q => stage'[p] = stage[p] /\ told'[p] = told[p]
          /\ stage'[q] # "leaving" /\ (told'[q] = told[q] \/ told'[q] # "ok")
      BY <1>1, <3>1 DEF ReadUser, ComparePassword, Sign, ReadOwn, Goto, End
    <3> QED BY <2>1, <2>3, <3>2
  <2>7. CASE \E q \in Requests : Create(q) \/ Change(q) \/ Crash(q) \/ CrashCounting(q)
    <3>1. PICK q \in Requests : Create(q) \/ Change(q) \/ Crash(q) \/ CrashCounting(q)
      BY <2>7
    <3>2. /\ stage[q] # "ended" /\ UNCHANGED uses
          /\ \A p \in Requests : p # q => stage'[p] = stage[p] /\ told'[p] = told[p]
          /\ stage'[q] # "leaving" /\ (told'[q] = told[q] \/ told'[q] # "ok")
      BY <1>1, <3>1 DEF Create, Change, Crash, CrashCounting, Goto, End
    <3> QED BY <2>1, <2>3, <3>2
  <2>6. CASE \E q \in Requests : Leave(q)
    BY <1>0, <1>1, <1>3, <2>6 DEF Leave, Goto, End
  <2> QED BY <2>1, <2>2, <2>4, <2>5, <2>6, <2>7 DEF Next, vars, Step, Tick, WindowEnds, LockEnds

<1>4. ASSUME NEW r \in Requests, stage'[r] = "leaving" \/ told'[r] = "ok"
      PROVE  /\ uses'[r] = Session \/ stage'[uses'[r]] = "ended"
             /\ told'[r] = "ok" => stage'[r] = "ended" /\ tokens'[uses'[r]].left =< blacklist'[uses'[r]]
  <2>1. CASE told'[r] = "nothing" /\ uses'[r] \in Holders /\ Lives(uses'[r])
    <3>1. uses'[r] = Session \/ stage[uses'[r]] = "ended"
      BY <2>1 DEF SecretInv, LeftInv, Holders
    <3> QED BY <1>2, <2>1, <3>1
  <2>2. CASE /\ stage[r] = "leaving" \/ told[r] = "ok"
             /\ uses'[r] = uses[r]
             /\ told'[r] = told[r] /\ stage'[r] = stage[r]
    <3>1. uses[r] \in Holders /\ (uses[r] = Session \/ stage[uses[r]] = "ended")
      BY <1>1, <2>2 DEF LeftInv
    <3> QED BY <1>2, <2>2, <3>1 DEF LeftInv
  <2>3. CASE Leave(r) /\ uses'[r] = uses[r]
    <3>1. stage[r] = "leaving" /\ stage'[r] = "ended" /\ tokens' = tokens /\ blacklist'[uses[r]] = BlacklistTtl
      BY <1>1, <2>3 DEF Leave, End, Goto, Blacklisted
    <3>2. uses[r] \in Holders /\ (uses[r] = Session \/ stage[uses[r]] = "ended")
      BY <1>1, <3>1 DEF LeftInv
    <3>3. tokens[uses[r]].left =< BlacklistTtl
      BY <1>a, <3>2, AuthNumbers DEF RevocationsLast
    <3> QED BY <1>2, <2>3, <3>1, <3>2, <3>3
  <2> QED BY <1>3, <1>4, <2>1, <2>2, <2>3
<1> QED BY <1>0, <1>4 DEF LeftInv

\* With entries that outlive tokens, a token that was logged out never validates again.
THEOREM LoggedOutForGoodHolds == ASSUME RevocationsLast PROVE Spec => []LoggedOutForGood
<1>1. Init => LeftInv
  BY InitSecret DEF Init, LeftInv
<1>2. LeftInv => LoggedOutForGood
  <2> SUFFICES ASSUME LeftInv, NEW r \in Requests, told[r] = "ok", Valid(uses[r])
               PROVE  FALSE
    BY DEF LoggedOutForGood
  <2>1. uses[r] \in Holders /\ tokens[uses[r]].left =< blacklist[uses[r]]
    BY DEF LeftInv, SecretInv, StageInv, TypeOK
  <2>2. tokens[uses[r]].left > 0 /\ blacklist[uses[r]] = 0
    BY DEF Valid, Lives
  <2>3. tokens[uses[r]].left \in Nat
    BY <2>1, AuthNumbers DEF LeftInv, SecretInv, StageInv, TypeOK, Token
  <2> QED BY <2>1, <2>2, <2>3
<1>3. LeftInv /\ [Next]_vars => LeftInv'
  BY NextLeft
<1> QED BY <1>1, <1>2, <1>3, PTL DEF Spec

----------------------------------------------------------------------------
(* Registration.                                                           *)

\* A registration whose INSERT was accepted.
Got(r) ==
    /\ stage[r] # "idle" /\ input[r].kind = "register"
    /\ stage[r] = "signing" \/ told[r] = "token"

GivenInv ==
    /\ StageInv
    /\ \A r \in Requests : Got(r) => accounts[input[r].name].hash # None
    /\ \A q, r \in Requests : q # r /\ Got(q) /\ Got(r) => input[q].name # input[r].name

LEMMA GotStays ==
    ASSUME StageInv, [Next]_vars, NEW r \in Requests,
           stage'[r] = "signing" \/ told'[r] = "token"
    PROVE  \/ stage[r] = "signing" \/ told[r] = "token"
           \/ stage[r] = "clearing"
           \/ Create(r) /\ accounts[input[r].name].hash = None
           \/ Change(r)
<1>0. /\ stage \in [Requests -> Stages] /\ told \in [Requests -> Verdicts]
      /\ \A q \in Requests : stage[q] = "idle" => told[q] = "nothing"
  BY DEF StageInv, TypeOK, KindInv
<1>1. CASE UNCHANGED <<stage, told>>
  BY <1>1
<1>2. CASE \E q \in Requests : BeginLogin(q) \/ BeginRegister(q) \/ BeginWithToken(q)
  <2>1. PICK q \in Requests : BeginLogin(q) \/ BeginRegister(q) \/ BeginWithToken(q)
    BY <1>2
  <2> QED BY <1>0, <2>1 DEF BeginLogin, BeginRegister, BeginWithToken, Arrives, Goto, End
<1>3. CASE \E q \in Requests : CheckLimits(q) \/ CountFailure(q) \/ LockName(q)
  <2>1. PICK q \in Requests : CheckLimits(q) \/ CountFailure(q) \/ LockName(q)
    BY <1>3
  <2> QED BY <1>0, <2>1 DEF CheckLimits, CountFailure, LockName, Admit, Goto, End
<1>4. CASE \E q \in Requests : ReadUser(q) \/ ComparePassword(q) \/ ReadOwn(q)
  <2>1. PICK q \in Requests : ReadUser(q) \/ ComparePassword(q) \/ ReadOwn(q)
    BY <1>4
  <2> QED BY <1>0, <2>1 DEF ReadUser, ComparePassword, ReadOwn, Goto, End
<1>5. CASE \E q \in Requests : ClearFailures(q) \/ Sign(q)
  <2>1. PICK q \in Requests : ClearFailures(q) \/ Sign(q)
    BY <1>5
  <2> QED BY <1>0, <2>1 DEF ClearFailures, Sign, Goto, End
<1>6. CASE \E q \in Requests : Create(q) \/ Change(q)
  <2>1. PICK q \in Requests : Create(q) \/ Change(q)
    BY <1>6
  <2> QED BY <1>0, <2>1 DEF Create, Change, Goto, End
<1>7. CASE \E q \in Requests : Leave(q) \/ Crash(q) \/ CrashCounting(q)
  <2>1. PICK q \in Requests : Leave(q) \/ Crash(q) \/ CrashCounting(q)
    BY <1>7
  <2> QED BY <1>0, <2>1 DEF Leave, Crash, CrashCounting, Goto, End
<1> QED BY <1>1, <1>2, <1>3, <1>4, <1>5, <1>6, <1>7
        DEF Next, vars, Step, Begin, Tick, WindowEnds, LockEnds

LEMMA NextGiven == GivenInv /\ [Next]_vars => GivenInv'
<1> SUFFICES ASSUME GivenInv, [Next]_vars PROVE GivenInv'
  OBVIOUS
<1>0. StageInv /\ StageInv'
  BY NextStages DEF GivenInv
<1>1. accounts \in [Names -> Account] /\ accounts' \in [Names -> Account]
  BY <1>0 DEF StageInv, TypeOK
\* A name that has a password keeps having one.
<1>2. ASSUME NEW u \in Names, accounts[u].hash # None PROVE accounts'[u].hash # None
  <2>1. CASE UNCHANGED accounts
    BY <1>2, <2>1
  <2>2. CASE \E r \in Requests : Create(r)
    BY <1>1, <1>2, <2>2 DEF Create
  <2>3. CASE \E r \in Requests : Change(r)
    <3>1. PICK r \in Requests : accounts' = Rewritten(r) /\ stage[r] = "changing"
      BY <2>3 DEF Change
    <3>2. input[r].new # None
      BY <1>0, <3>1, InputFields, AuthNames
    <3> QED BY <1>1, <1>2, <3>1, <3>2 DEF Rewritten
  <2> QED BY <2>1, <2>2, <2>3
          DEF Next, vars, Step, Begin, BeginLogin, BeginRegister, BeginWithToken, CheckLimits,
              ReadUser, ComparePassword, CountFailure, LockName, ClearFailures, Sign, ReadOwn,
              Leave, Crash, CrashCounting, Tick, WindowEnds, LockEnds
<1>3. ASSUME NEW r \in Requests, Got(r)'
      PROVE  /\ stage[r] # "idle" /\ input'[r] = input[r] /\ input[r].name \in Names
             /\ Got(r) \/ (Create(r) /\ accounts[input[r].name].hash = None)
  <2>1. stage'[r] = "signing" \/ told'[r] = "token"
    BY <1>3 DEF Got
  <2>2. \/ stage[r] = "signing" \/ told[r] = "token" \/ stage[r] = "clearing"
        \/ Create(r) /\ accounts[input[r].name].hash = None
        \/ Change(r)
    BY <1>0, <2>1, GotStays
  <2>3. stage[r] # "idle"
    BY <1>0, <2>2 DEF Create, Change, StageInv, KindInv
  <2>4. input'[r] = input[r] /\ input[r].name \in Names /\ input[r].kind \in KindsAt(stage[r])
    BY <1>0, <2>3, InputsStay, InputFields
  <2>5. input[r].kind = "register"
    BY <1>3, <2>4 DEF Got
  <2>6. stage[r] # "clearing" /\ ~ Change(r)
    BY <2>4, <2>5 DEF KindsAt, LoginStages, Change
  <2> QED BY <2>2, <2>3, <2>4, <2>5, <2>6 DEF Got
<1>4. ASSUME NEW r \in Requests, Create(r), accounts[input[r].name].hash = None,
             stage[r] # "idle", input[r].name \in Names
      PROVE  accounts'[input[r].name].hash # None
  <2>1. input[r].password # None
    BY <1>0, <1>4, InputFields, AuthNames
  <2> QED BY <1>1, <1>4, <2>1 DEF Create
<1>5. ASSUME NEW q \in Requests, NEW r \in Requests, Create(q), Create(r), q # r
      PROVE  FALSE
  BY <1>0, <1>5 DEF Create, End, Goto, StageInv, TypeOK
<1>6. \A r \in Requests : Got(r)' => accounts'[input'[r].name].hash # None
  BY <1>2, <1>3, <1>4 DEF GivenInv
<1>7. ASSUME NEW q \in Requests, NEW r \in Requests, q # r, Got(q)', Got(r)'
      PROVE  input'[q].name # input'[r].name
  BY <1>3, <1>5, <1>7 DEF GivenInv
<1> QED BY <1>0, <1>6, <1>7 DEF GivenInv

\* Of the registrations that race for a name, one gets it.
THEOREM NamesAreGivenOnceHolds == Spec => []NamesAreGivenOnce
<1>1. Init => GivenInv
  <2> SUFFICES ASSUME Init PROVE GivenInv
    OBVIOUS
  <2>1. \A r \in Requests : ~ Got(r)
    BY DEF Init, Got
  <2> QED BY <2>1, InitStages DEF GivenInv
<1>2. GivenInv => NamesAreGivenOnce
  <2> SUFFICES ASSUME GivenInv, NEW r \in Requests, told[r] = "token", input[r].kind = "register"
               PROVE  Got(r)
    BY DEF GivenInv, NamesAreGivenOnce
  <2> QED BY DEF Got, GivenInv, StageInv, KindInv
<1> QED BY <1>1, <1>2, NextGiven, PTL DEF Spec

=================================================================================
