----------------------------- MODULE Authentication -----------------------------
(***************************************************************************)
(* Accounts, the login guard and access tokens (modules/auth): counters,   *)
(* strikes, locks and a blacklist in Redis, password hash and tokenVersion *)
(* in MySQL, and signed tokens that only these two can revoke.             *)
(*                                                                         *)
(* A request is many commands and everything may happen between any two of *)
(* them.  Windows and locks of the guard run out by themselves (WindowEnds,*)
(* LockEnds); tokens and their blacklist entries are compared with each    *)
(* other, so they count ticks (Tick).  A password stands for its hash and a*)
(* token for the request that was given it: each request has its own jti.  *)
(***************************************************************************)
EXTENDS Integers

CONSTANTS
    Requests,     \* calls of login, register, changePassword, logout: bounds a run
    Session,      \* the holder of a token issued earlier
    Names, Ips, Passwords,
    Inputs,       \* what each request may be and carry
    First,        \* the account of the session: its name and password
    Limit, LockAfter,
    TokenLife, BlacklistTtl,
    MaxFaults,    \* failed writes and dead processes: bounds a run
    None

Kinds == {"login", "register", "change", "logout"}
Input == [kind : Kinds, ip : Ips, name : Names, password : Passwords, new : Passwords]
Holders == Requests \cup {Session}

ASSUME AuthNumbers ==
    /\ Limit \in Nat /\ LockAfter \in Nat \ {0}
    /\ TokenLife \in Nat \ {0} /\ BlacklistTtl \in Nat /\ MaxFaults \in Nat
ASSUME AuthNames ==
    /\ None \notin Passwords
    /\ Session \notin Requests
    /\ \A r \in Requests : Inputs[r] \subseteq Input
    /\ First \in [name : Names, password : Passwords]

\* The counters of checkRateLimit and recordLoginFailure.
Counters == ({"ip"} \X Ips) \cup ({"user", "strikes"} \X Names)

VARIABLES
    accounts,   \* User rows: hash and tokenVersion
    counters,   \* Redis: the value of each counter and whether it will run out
    locked,     \* the names whose lock key is there
    blacklist,  \* ticks each jti stays blacklisted
    tokens,     \* whose account each holder's token is for, its version and the ticks it has
    stage, input,
    uses,       \* the holder whose token the request came with
    read,       \* the account as the request read it
    told,       \* what the client was told
    admitted,   \* history: how many attempts each counter has let pass in its life
    faults

vars == <<accounts, counters, locked, blacklist, tokens, stage, input, uses, read, told, admitted, faults>>

Account == [hash : Passwords \cup {None}, version : Nat]
Absent == [hash |-> None, version |-> 0]
Counter == [n : Nat, timed : BOOLEAN]
Zero == [n |-> 0, timed |-> FALSE]
Token == [name : Names, version : Nat, left : 0 .. TokenLife]

Stages == {"idle", "address", "username", "reading", "comparing", "failed at address",
           "failed at username", "striking", "locking", "clearing", "signing",
           "creating", "authorised", "changing", "leaving", "ended"}
Verdicts == {"nothing", "token", "ok", "locked", "limited", "refused", "taken", "error"}

TypeOK ==
    /\ accounts \in [Names -> Account]
    /\ counters \in [Counters -> Counter]
    /\ locked \subseteq Names
    /\ blacklist \in [Holders -> 0 .. BlacklistTtl]
    /\ tokens \in [Holders -> Token]
    /\ stage \in [Requests -> Stages]
    /\ input \in [Requests -> Input \cup {None}]
    /\ uses \in [Requests -> Holders]
    /\ read \in [Requests -> Account]
    /\ told \in [Requests -> Verdicts]
    /\ admitted \in [Counters -> Nat]
    /\ faults \in 0 .. MaxFaults

Init ==
    /\ accounts = [u \in Names |-> IF u = First.name
                                   THEN [hash |-> First.password, version |-> 0] ELSE Absent]
    /\ counters = [c \in Counters |-> Zero]
    /\ locked = {}
    /\ blacklist = [h \in Holders |-> 0]
    /\ tokens = [h \in Holders |-> [name |-> First.name, version |-> 0,
                                    left |-> IF h = Session THEN TokenLife ELSE 0]]
    /\ stage = [r \in Requests |-> "idle"]
    /\ input = [r \in Requests |-> None]
    /\ uses = [r \in Requests |-> Session]
    /\ read = [r \in Requests |-> Absent]
    /\ told = [r \in Requests |-> "nothing"]
    /\ admitted = [c \in Counters |-> 0]
    /\ faults = 0

----------------------------------------------------------------------------
(* Redis, MySQL and the signature.                                          *)
\* A fault: EXPIRE only reaches counters that existed before.
CountedForGood(c) == [counters EXCEPT ![c] = [n |-> @.n + 1, timed |-> @.n > 0]]

\* INCR, and EXPIRE when the value is 1.
Counted(c) == [counters EXCEPT ![c] = [n |-> @.n + 1, timed |-> @.timed \/ @.n = 0]]

\* The process dies between the two: a later INCR finds another value than 1.
CountedUntimed(c) == [counters EXCEPT ![c] = [n |-> @.n + 1, timed |-> @.timed]]

Lives(h) == tokens[h].left > 0

\* JwtStrategy.validate: signature and expiry, blacklist, tokenVersion.
Valid(h) ==
    /\ Lives(h)
    /\ blacklist[h] = 0
    /\ accounts[tokens[h].name].version = tokens[h].version

\* buildAuthResponse.
Signed(r, account) ==
    [tokens EXCEPT ![r] = [name |-> input[r].name, version |-> account.version,
                           left |-> TokenLife]]

Goto(r, s) == stage' = [stage EXCEPT ![r] = s]
End(r, verdict) == Goto(r, "ended") /\ told' = [told EXCEPT ![r] = verdict]
Fault == faults < MaxFaults /\ faults' = faults + 1

----------------------------------------------------------------------------
(* Arrival, with the guard of the route.                                    *)
Arrives(r, in, kinds) ==
    /\ stage[r] = "idle"
    /\ in.kind \in kinds
    /\ input' = [input EXCEPT ![r] = in]

\* login: the lock is looked up first.
BeginLogin(r) ==
    \E in \in Inputs[r] :
        /\ Arrives(r, in, {"login"})
        /\ IF in.name \in locked THEN End(r, "locked") ELSE Goto(r, "address") /\ UNCHANGED told
        /\ UNCHANGED <<accounts, counters, locked, blacklist, tokens, uses, read, admitted, faults>>

\* register: the name is looked up first.
BeginRegister(r) ==
    \E in \in Inputs[r] :
        /\ Arrives(r, in, {"register"})
        /\ IF accounts[in.name].hash # None THEN End(r, "taken")
           ELSE Goto(r, "creating") /\ UNCHANGED told
        /\ UNCHANGED <<accounts, counters, locked, blacklist, tokens, uses, read, admitted, faults>>

\* changePassword and logout: JwtAuthGuard lets the holder of a valid token pass.  Blacklist
\* and version are two reads; a token only goes from valid to invalid, so one that passes
\* both was valid at the first.
BeginWithToken(r) ==
    \E in \in Inputs[r], h \in Holders :
        /\ Arrives(r, [in EXCEPT !.name = tokens[h].name], {"change", "logout"})
        /\ Valid(h)
        /\ uses' = [uses EXCEPT ![r] = h]
        /\ Goto(r, IF in.kind = "change" THEN "authorised" ELSE "leaving")
        /\ UNCHANGED <<accounts, counters, locked, blacklist, tokens, read, told, admitted, faults>>

----------------------------------------------------------------------------
(* login: the rate limits, the password, and what a failure counts.         *)
AddressOf(r) == <<"ip", input[r].ip>>
NameOf(r) == <<"user", input[r].name>>
StrikesOf(r) == <<"strikes", input[r].name>>

\* A fault: the limit is compared with the value before the INCR.
AdmitLate(r, c, next) ==
    /\ counters' = Counted(c)
    /\ IF counters[c].n =< Limit
       THEN Goto(r, next) /\ admitted' = [admitted EXCEPT ![c] = @ + 1] /\ UNCHANGED told
       ELSE End(r, "limited") /\ UNCHANGED admitted

\* checkRateLimit.
Admit(r, c, next) ==
    /\ counters' = Counted(c)
    /\ IF counters[c].n + 1 =< Limit
       THEN Goto(r, next) /\ admitted' = [admitted EXCEPT ![c] = @ + 1] /\ UNCHANGED told
       ELSE End(r, "limited") /\ UNCHANGED admitted

CheckLimits(r) ==
    /\ \/ stage[r] = "address" /\ Admit(r, AddressOf(r), "username")
       \/ stage[r] = "username" /\ Admit(r, NameOf(r), "reading")
    /\ UNCHANGED <<accounts, locked, blacklist, tokens, input, uses, read, faults>>

\* The tenant's code may be unknown: refused without being counted as a failure.
ReadUser(r) ==
    /\ stage[r] = "reading"
    /\ \/ read' = [read EXCEPT ![r] = accounts[input[r].name]] /\ Goto(r, "comparing") /\ UNCHANGED told
       \/ End(r, "refused") /\ UNCHANGED read
    /\ UNCHANGED <<accounts, counters, locked, blacklist, tokens, input, uses, admitted, faults>>

\* An unknown name fails as a wrong password does.
ComparePassword(r) ==
    /\ stage[r] = "comparing"
    /\ Goto(r, IF read[r].hash = input[r].password THEN "clearing" ELSE "failed at address")
    /\ UNCHANGED <<accounts, counters, locked, blacklist, tokens, input, uses, read, told, admitted, faults>>

\* recordLoginFailure: both windows count the failure again, then the strike.
CountFailure(r) ==
    /\ \/ /\ stage[r] = "failed at address"
          /\ counters' = Counted(AddressOf(r)) /\ Goto(r, "failed at username")
          /\ UNCHANGED told
       \/ /\ stage[r] = "failed at username"
          /\ counters' = Counted(NameOf(r)) /\ Goto(r, "striking")
          /\ UNCHANGED told
       \/ /\ stage[r] = "striking"
          /\ counters' = Counted(StrikesOf(r))
          /\ IF counters[StrikesOf(r)].n + 1 >= LockAfter
             THEN Goto(r, "locking") /\ UNCHANGED told
             ELSE End(r, "refused")
    /\ UNCHANGED <<accounts, locked, blacklist, tokens, input, uses, read, admitted, faults>>

LockName(r) ==
    /\ stage[r] = "locking"
    /\ locked' = locked \cup {input[r].name}
    /\ End(r, "refused")
    /\ UNCHANGED <<accounts, counters, blacklist, tokens, input, uses, read, admitted, faults>>

\* clearLoginFailures: one DEL of both keys.
ClearFailures(r) ==
    /\ stage[r] = "clearing"
    /\ counters' = [counters EXCEPT ![StrikesOf(r)] = Zero]
    /\ admitted' = [admitted EXCEPT ![StrikesOf(r)] = 0]
    /\ locked' = locked \ {input[r].name}
    /\ Goto(r, "signing")
    /\ UNCHANGED <<accounts, blacklist, tokens, input, uses, read, told, faults>>

\* buildAuthResponse, from the account as it was read or written.
Sign(r) ==
    /\ stage[r] = "signing"
    /\ tokens' = Signed(r, read[r])
    /\ End(r, "token")
    /\ UNCHANGED <<accounts, counters, locked, blacklist, input, uses, read, admitted, faults>>

----------------------------------------------------------------------------
(* register, changePassword, logout.                                        *)
\* The INSERT, after the hash has been computed: the unique index may refuse it.
Create(r) ==
    /\ stage[r] = "creating"
    /\ IF accounts[input[r].name].hash # None
       THEN End(r, "error") /\ UNCHANGED <<accounts, read>>
       ELSE /\ accounts' = [accounts EXCEPT ![input[r].name] =
                               [hash |-> input[r].password, version |-> 0]]
            /\ read' = [read EXCEPT ![r] = accounts'[input[r].name]]
            /\ Goto(r, "signing")
            /\ UNCHANGED told
    /\ UNCHANGED <<counters, locked, blacklist, tokens, input, uses, admitted, faults>>

\* changePassword reads the account and compares the current password.
ReadOwn(r) ==
    /\ stage[r] = "authorised"
    /\ read' = [read EXCEPT ![r] = accounts[input[r].name]]
    /\ IF accounts[input[r].name].hash = input[r].password
       THEN Goto(r, "changing") /\ UNCHANGED told
       ELSE End(r, "refused")
    /\ UNCHANGED <<accounts, counters, locked, blacklist, tokens, input, uses, admitted, faults>>

\* A fault: the new version is computed from the one read.
RewrittenFromRead(r) ==
    [accounts EXCEPT ![input[r].name] = [hash |-> input[r].new, version |-> read[r].version + 1]]

\* The UPDATE increments the version of the row as it is.
Rewritten(r) ==
    [accounts EXCEPT ![input[r].name] = [hash |-> input[r].new, version |-> @.version + 1]]

Change(r) ==
    /\ stage[r] = "changing"
    /\ accounts' = Rewritten(r)
    /\ read' = [read EXCEPT ![r] = accounts'[input[r].name]]
    /\ Goto(r, "signing")
    /\ UNCHANGED <<counters, locked, blacklist, tokens, input, uses, told, admitted, faults>>

\* A fault: the entry lasts one tick less.
BlacklistedBriefly(h) == [blacklist EXCEPT ![h] = BlacklistTtl - 1]

Blacklisted(h) == [blacklist EXCEPT ![h] = BlacklistTtl]

Leave(r) ==
    /\ stage[r] = "leaving"
    /\ blacklist' = Blacklisted(uses[r])
    /\ End(r, "ok")
    /\ UNCHANGED <<accounts, counters, locked, tokens, input, uses, read, admitted, faults>>

----------------------------------------------------------------------------
(* What may go wrong, and time.                                             *)
\* A command, a read or a write fails, or the process dies, the last with its effect: the
\* client has no answer, or a 500.
Crash(r) ==
    /\ Fault
    /\ stage[r] \notin {"idle", "ended"}
    /\ End(r, "error")
    /\ UNCHANGED <<accounts, counters, locked, blacklist, tokens, input, uses, read, admitted>>

\* It dies between INCR and EXPIRE.
CrashCounting(r) ==
    /\ Fault
    /\ \/ stage[r] \in {"address", "failed at address"} /\ counters' = CountedUntimed(AddressOf(r))
       \/ stage[r] \in {"username", "failed at username"} /\ counters' = CountedUntimed(NameOf(r))
       \/ stage[r] = "striking" /\ counters' = CountedUntimed(StrikesOf(r))
    /\ End(r, "error")
    /\ UNCHANGED <<accounts, locked, blacklist, tokens, input, uses, read, admitted>>

WindowEnds(c) ==
    /\ counters[c].timed
    /\ counters' = [counters EXCEPT ![c] = Zero]
    /\ admitted' = [admitted EXCEPT ![c] = 0]
    /\ UNCHANGED <<accounts, locked, blacklist, tokens, stage, input, uses, read, told, faults>>

LockEnds(u) ==
    /\ u \in locked
    /\ locked' = locked \ {u}
    /\ UNCHANGED <<accounts, counters, blacklist, tokens, stage, input, uses, read, told, admitted, faults>>

Less(n) == IF n > 0 THEN n - 1 ELSE 0

Tick ==
    /\ blacklist' = [h \in Holders |-> Less(blacklist[h])]
    /\ tokens' = [h \in Holders |-> [tokens[h] EXCEPT !.left = Less(@)]]
    /\ UNCHANGED <<accounts, counters, locked, stage, input, uses, read, told, admitted, faults>>

----------------------------------------------------------------------------
Begin(r) == BeginLogin(r) \/ BeginRegister(r) \/ BeginWithToken(r)

Step(r) ==
    \/ Begin(r)
    \/ CheckLimits(r) \/ ReadUser(r) \/ ComparePassword(r)
    \/ CountFailure(r) \/ LockName(r) \/ ClearFailures(r) \/ Sign(r)
    \/ Create(r) \/ ReadOwn(r) \/ Change(r) \/ Leave(r)
    \/ Crash(r) \/ CrashCounting(r)

Next ==
    \/ Tick
    \/ \E c \in Counters : WindowEnds(c)
    \/ \E u \in Names : LockEnds(u)
    \/ \E r \in Requests : Step(r)

Spec == Init /\ [][Next]_vars

(* Keys that have a TTL run out.  Nothing is asked of requests.             *)
Fairness ==
    /\ \A c \in Counters : WF_vars(WindowEnds(c))
    /\ \A u \in Names : WF_vars(LockEnds(u))

FairSpec == Spec /\ Fairness

----------------------------------------------------------------------------
(* Properties.                                                              *)

\* In the life of a counter at most AUTH_LOGIN_MAX_ATTEMPTS attempts pass it, however many
\* run at the same time and wherever one of them dies.
AttemptsAreBounded == \A c \in Counters : admitted[c] =< Limit

\* What the holder of a token showed for it: the password it presented, or set.
Secret(h) ==
    IF h = Session THEN First.password
    ELSE IF input[h].kind = "change" THEN input[h].new ELSE input[h].password

\* A token that validates was given to someone who presented or set the password the
\* account has now: logins that read the account before a change, and changes that
\* overtake each other, leave no other token alive.
TokensKnowThePassword ==
    \A h \in Holders : Valid(h) => accounts[tokens[h].name].hash = Secret(h)

\* The blacklist entry of logout outlives every token (getJwtExpiresInSeconds against
\* getJwtExpiresIn).
RevocationsLast == BlacklistTtl >= TokenLife

\* Once logout has answered, its token never validates again.
LoggedOutForGood ==
    \A r \in Requests : told[r] = "ok" => ~ Valid(uses[r])

\* Of the registrations of one name that find it free, only one is told that it has it, and
\* none of a name that exists.
NamesAreGivenOnce ==
    \A q, r \in Requests :
        /\ q # r
        /\ told[q] = "token" /\ input[q].kind = "register"
        /\ told[r] = "token" /\ input[r].kind = "register"
        => input[q].name # input[r].name

\* Unless a process dies while counting, nobody stays locked out or limited.
BlocksEnd ==
    /\ \A c \in Counters : []<>(faults > 0 \/ counters[c].n = 0)
    /\ \A u \in Names : []<>(u \notin locked)

=================================================================================
