--------------------------- MODULE RequestIdempotency ---------------------------
(***************************************************************************)
(* Idempotent routes (common/idempotency over infrastructure/redis): the   *)
(* first request of a key leaves a "processing" record, runs the handler   *)
(* and replaces the record by its result; the others wait for it a while   *)
(* and replay it, take the key over when it is gone, or answer 409.        *)
(*                                                                         *)
(* Only the reservation compares anything (SET NX): the result is written  *)
(* by a plain SET and a failure erases by a plain DEL, whoever's record it *)
(* is by then.  Records run out (EX) whether or not the handler has ended: *)
(* time passes in Tick, and a handler may take any time or hang for ever.  *)
(***************************************************************************)
EXTENDS Integers

CONSTANTS
    Requests,       \* requests to routes marked @Idempotent, each used once: bounds a run
    Keys,           \* scoped keys
    Inputs,         \* what each request may carry: a usable Idempotency-Key header, and
                    \* what bodyKeyFields derive from its body; None when there is none
    ProcessingTtl, ResultTtl,
    WaitTicks,      \* waitForProcessingMs
    MaxFaults,      \* failed or repeated commands and dead processes: bounds a run
    None

ASSUME IdempotencyNumbers ==
    /\ ProcessingTtl \in Nat \ {0} /\ ResultTtl \in Nat \ {0}
    /\ WaitTicks \in Nat /\ MaxFaults \in Nat
ASSUME IdempotencyNames ==
    /\ None \notin Keys /\ None \notin Requests
    /\ \A r \in Requests : Inputs[r] \subseteq [header : Keys \cup {None}, body : Keys \cup {None}]

VARIABLES
    store,    \* Redis: the record of each key, who wrote it and the ticks it has left
    stage,    \* where each request is in the interceptor
    key,      \* the scoped key of each request, None if it has none
    again,    \* the requests that have waited and are at their second reservation
    waited,   \* ticks spent in the wait loop
    answer,   \* what each client was told; a success names the request that executed
    lapsed,   \* history: the keys whose record did not last as long as it should have
    faults    \* how many faults there have been

vars == <<store, stage, key, again, waited, answer, lapsed, faults>>

Record == [phase : {"gone", "processing", "completed"},
           by : Requests \cup {None},
           left : 0 .. ProcessingTtl + ResultTtl]
Gone == [phase |-> "gone", by |-> None, left |-> 0]

Stages == {"idle", "reserving", "looking", "retrying", "waiting",
           "handler", "recording", "dropping", "ended"}
Running == {"handler", "recording", "dropping"}

Answer == [told : {"nothing", "success", "error", "conflict", "refused"},
           of : Requests \cup {None}]
Told(what) == [told |-> what, of |-> None]
Success(x) == [told |-> "success", of |-> x]

\* resolveClientKey: a usable header wins over the body's fields.
KeyOf(in) == IF in.header # None THEN in.header ELSE in.body

TypeOK ==
    /\ store \in [Keys -> Record]
    /\ stage \in [Requests -> Stages]
    /\ key \in [Requests -> Keys \cup {None}]
    /\ again \subseteq Requests
    /\ waited \in [Requests -> 0 .. WaitTicks]
    /\ answer \in [Requests -> Answer]
    /\ lapsed \subseteq Keys
    /\ faults \in 0 .. MaxFaults

Init ==
    /\ store = [k \in Keys |-> Gone]
    /\ stage = [r \in Requests |-> "idle"]
    /\ key = [r \in Requests |-> None]
    /\ again = {}
    /\ waited = [r \in Requests |-> 0]
    /\ answer = [r \in Requests |-> Told("nothing")]
    /\ lapsed = {}
    /\ faults = 0

----------------------------------------------------------------------------
(* Redis: each command is atomic.                                           *)
\* A fault: SET NX without EX: the reservation never runs out.
ReservedForGood(r) ==
    [store EXCEPT ![key[r]] = [phase |-> "processing", by |-> r, left |-> 0]]

Reserved(r) ==
    [store EXCEPT ![key[r]] = [phase |-> "processing", by |-> r, left |-> ProcessingTtl]]

\* A fault: the key is erased on success too.
RecordedNothing(r) == [store EXCEPT ![key[r]] = Gone]

Recorded(r) ==
    [store EXCEPT ![key[r]] = [phase |-> "completed", by |-> r, left |-> ResultTtl]]

Dropped(r) == [store EXCEPT ![key[r]] = Gone]

Goto(r, s) == stage' = [stage EXCEPT ![r] = s]

End(r, a) == Goto(r, "ended") /\ answer' = [answer EXCEPT ![r] = a]

\* Something goes wrong.
Fault == faults < MaxFaults /\ faults' = faults + 1

----------------------------------------------------------------------------
(* prepare.                                                                 *)
\* A request without a key runs unguarded where the route has required = false, and is
\* refused elsewhere.
Arrive(r) ==
    \E in \in Inputs[r] :
        /\ stage[r] = "idle"
        /\ key' = [key EXCEPT ![r] = KeyOf(in)]
        /\ \/ KeyOf(in) # None /\ Goto(r, "reserving") /\ UNCHANGED answer
           \/ KeyOf(in) = None /\ Goto(r, "handler") /\ UNCHANGED answer
           \/ KeyOf(in) = None /\ End(r, Told("refused"))
        /\ UNCHANGED <<store, again, waited, lapsed, faults>>

\* In progress: the first time wait, the second time answer 409.
InProgress(r) ==
    IF r \in again THEN End(r, Told("conflict"))
                   ELSE Goto(r, "waiting") /\ UNCHANGED answer

\* The first SET NX of beginRequestIdempotency.
Reserve(r) ==
    /\ stage[r] = "reserving"
    /\ IF store[key[r]] = Gone
       THEN store' = Reserved(r) /\ Goto(r, "handler")
       ELSE Goto(r, "looking") /\ UNCHANGED store
    /\ UNCHANGED <<key, again, waited, answer, lapsed, faults>>

\* Its GET.
Look(r) ==
    /\ stage[r] = "looking"
    /\ \/ store[key[r]].phase = "gone" /\ Goto(r, "retrying") /\ UNCHANGED answer
       \/ store[key[r]].phase = "completed" /\ End(r, Success(store[key[r]].by))
       \/ store[key[r]].phase = "processing" /\ InProgress(r)
    /\ UNCHANGED <<store, key, again, waited, lapsed, faults>>

\* A fault: the second SET is not NX, as the GET has just found nothing.
RetryUnchecked(r) ==
    /\ stage[r] = "retrying"
    /\ store' = Reserved(r) /\ Goto(r, "handler") /\ UNCHANGED answer
    /\ UNCHANGED <<key, again, waited, lapsed, faults>>

\* Its second SET NX, after a GET that found nothing.
Retry(r) ==
    /\ stage[r] = "retrying"
    /\ IF store[key[r]] = Gone
       THEN store' = Reserved(r) /\ Goto(r, "handler") /\ UNCHANGED answer
       ELSE InProgress(r) /\ UNCHANGED store
    /\ UNCHANGED <<key, again, waited, lapsed, faults>>

----------------------------------------------------------------------------
(* waitForRequestIdempotencyCompletion.                                     *)
BeginAgain(r) == again' = again \cup {r} /\ Goto(r, "reserving")

\* A GET of the loop; one that finds "processing" changes nothing.
Poll(r) ==
    /\ stage[r] = "waiting"
    /\ \/ /\ store[key[r]].phase = "completed"
          /\ End(r, Success(store[key[r]].by))
          /\ UNCHANGED again
       \/ /\ store[key[r]].phase = "gone"
          /\ BeginAgain(r)
          /\ UNCHANGED answer
    /\ UNCHANGED <<store, key, waited, lapsed, faults>>

\* A fault: each poll computes the deadline anew, and it never comes.
GiveUpNever(r) == FALSE /\ UNCHANGED vars

\* The deadline.
GiveUp(r) ==
    /\ stage[r] = "waiting" /\ waited[r] >= WaitTicks
    /\ BeginAgain(r)
    /\ UNCHANGED <<store, key, waited, answer, lapsed, faults>>

----------------------------------------------------------------------------
(* The handler and what follows it.                                         *)
\* The handler answers 2xx; a request without a key has nothing to record.
Succeed(r) ==
    /\ stage[r] = "handler"
    /\ IF key[r] = None THEN End(r, Success(r)) ELSE Goto(r, "recording") /\ UNCHANGED answer
    /\ UNCHANGED <<store, key, again, waited, lapsed, faults>>

\* The handler throws, or sets a status outside 2xx.
Throw(r) ==
    /\ stage[r] = "handler"
    /\ IF key[r] = None THEN End(r, Told("error")) ELSE Goto(r, "dropping") /\ UNCHANGED answer
    /\ UNCHANGED <<store, key, again, waited, lapsed, faults>>

\* completeRequestIdempotency.
Complete(r) ==
    /\ stage[r] = "recording"
    /\ store' = Recorded(r)
    /\ End(r, Success(r))
    /\ UNCHANGED <<key, again, waited, lapsed, faults>>

\* failRequestIdempotency.
Fail(r) ==
    /\ stage[r] = "dropping"
    /\ store' = Dropped(r)
    /\ End(r, Told("error"))
    /\ UNCHANGED <<key, again, waited, lapsed, faults>>

----------------------------------------------------------------------------
(* What may go wrong.                                                       *)
\* A command of prepare fails: 500, nothing reserved, or reserved for nobody.
PrepareFails(r) ==
    /\ Fault
    /\ \/ stage[r] \in {"reserving", "retrying"} /\ store[key[r]] = Gone /\ store' = Reserved(r)
       \/ stage[r] \in {"reserving", "looking", "retrying", "waiting"} /\ UNCHANGED store
    /\ End(r, Told("error"))
    /\ UNCHANGED <<key, again, waited, lapsed>>

\* The reply of a SET NX is lost and the client sends it again.
ReserveTwice(r) ==
    /\ Fault
    /\ stage[r] \in {"reserving", "retrying"}
    /\ store[key[r]] = Gone
    /\ store' = Reserved(r)
    /\ UNCHANGED <<stage, key, again, waited, answer, lapsed>>

\* The SET of the result fails, with or without effect: catchError erases the record,
\* although the handler has succeeded.
CompleteFails(r) ==
    /\ Fault
    /\ stage[r] = "recording"
    /\ store' \in {store, Recorded(r)}
    /\ Goto(r, "dropping")
    /\ lapsed' = lapsed \cup {key[r]}
    /\ UNCHANGED <<key, again, waited, answer>>

\* The reply of the DEL is lost and the client sends it again.
FailTwice(r) ==
    /\ Fault
    /\ stage[r] = "dropping"
    /\ store' = Dropped(r)
    /\ lapsed' = lapsed \cup {key[r]}
    /\ UNCHANGED <<stage, key, again, waited, answer>>

\* The DEL fails: the record stays until it runs out.
FailFails(r) ==
    /\ Fault
    /\ stage[r] = "dropping"
    /\ End(r, Told("error"))
    /\ UNCHANGED <<store, key, again, waited, lapsed>>

\* The process dies: the client hears nothing, the record stays until it runs out.
Crash(r) ==
    /\ Fault
    /\ stage[r] \notin {"idle", "ended"}
    /\ Goto(r, "ended")
    /\ UNCHANGED <<store, key, again, waited, answer, lapsed>>

----------------------------------------------------------------------------
(* Time.                                                                    *)
\* A record written without EX (left 0) stays.
Older(rec) == IF rec.left = 1 THEN Gone
              ELSE IF rec.left = 0 THEN rec ELSE [rec EXCEPT !.left = @ - 1]

\* The record of k runs out before the execution it stands for is over, or it was a result.
Lapses(k) ==
    /\ store[k].left = 1
    /\ \/ store[k].phase = "completed"
       \/ \E r \in Requests : store[k].by = r /\ stage[r] \in Running

Tick ==
    /\ store' = [k \in Keys |-> Older(store[k])]
    /\ waited' = [r \in Requests |-> IF stage[r] = "waiting" /\ waited[r] < WaitTicks
                                     THEN waited[r] + 1 ELSE waited[r]]
    /\ lapsed' = lapsed \cup {k \in Keys : Lapses(k)}
    /\ UNCHANGED <<stage, key, again, answer, faults>>

----------------------------------------------------------------------------
Prepare(r) == Arrive(r) \/ Reserve(r) \/ Look(r) \/ Retry(r)

GoesWrong(r) ==
    \/ PrepareFails(r) \/ ReserveTwice(r) \/ CompleteFails(r)
    \/ FailTwice(r) \/ FailFails(r) \/ Crash(r)

Step(r) ==
    \/ Prepare(r) \/ Poll(r) \/ GiveUp(r)
    \/ Succeed(r) \/ Throw(r) \/ Complete(r) \/ Fail(r) \/ GoesWrong(r)

Next == Tick \/ \E r \in Requests : Step(r)

Spec == Init /\ [][Next]_vars

(* Time passes, Redis answers and the wait loop runs.  Nothing is asked of handlers. *)
Fairness ==
    /\ WF_vars(Tick)
    /\ \A r \in Requests :
        /\ WF_vars(Prepare(r))
        /\ WF_vars(GiveUp(r))
        /\ WF_vars(Complete(r) \/ Fail(r))

FairSpec == Spec /\ Fairness

----------------------------------------------------------------------------
(* Properties.                                                              *)

\* While a key's record lasts as long as it should, no two requests of the key are in the
\* handler or between it and their last command, although that command (SET, DEL) checks
\* nothing.  A process that dies in the handler, a lost reply of SET NX or a failed DEL
\* does not matter.
OneRunsAtATime ==
    \A q, r \in Requests :
        /\ q # r /\ key[q] = key[r] /\ key[q] \in Keys \ lapsed
        /\ stage[q] \in Running
        => stage[r] \notin Running

\* Under the same condition all successes reported for a key are those of one execution,
\* whoever waited, replayed or came after whom.
AnswersAgree ==
    \A q, r \in Requests :
        /\ key[q] = key[r] /\ key[q] \in Keys \ lapsed
        /\ answer[q].told = "success" /\ answer[r].told = "success"
        => answer[q].of = answer[r].of

\* What the clients and the handlers see of a key whose record lasts as long as it should.
ExecutingOf(k) == {r \in Requests : key[r] = k /\ stage[r] \in Running}
ToldOf(k) == {answer[r].of : r \in {q \in Requests : key[q] = k /\ answer[q].told = "success"}}

KeyState(k) ==
    IF k \in lapsed
    THEN [phase |-> "void", by |-> None, executing |-> {}, told |-> {}]
    ELSE [phase |-> store[k].phase, by |-> store[k].by,
          executing |-> ExecutingOf(k), told |-> ToldOf(k)]

Once == INSTANCE OneExecution WITH state <- [k \in Keys |-> KeyState(k)]

\* The interceptor implements one execution for each key, although SET and DEL compare
\* nothing: a key changes hands only when nobody executes, a result is recorded by the
\* execution that has the key, and is neither overwritten nor erased once it is there.
ImplementsOneExecution == Once!Spec

\* A request that finds another in progress is not kept: it replays, runs or answers 409
\* after waitForProcessingMs, even when the other one hangs.
NobodyWaitsForEver ==
    \A r \in Requests : stage[r] = "waiting" ~> stage[r] \in Running \cup {"ended"}

\* A reservation goes, even when its handler hangs or its process is dead: a later request
\* of the key can run.
ReservationsEnd ==
    \A k \in Keys : store[k].phase = "processing" ~> store[k].phase # "processing"

=================================================================================
