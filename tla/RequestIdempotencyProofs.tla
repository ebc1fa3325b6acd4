------------------------ MODULE RequestIdempotencyProofs ------------------------
(***************************************************************************)
(* Proofs about RequestIdempotency, for every set of requests and keys,    *)
(* whatever the requests carry, and for all TTLs and waiting times.        *)
(***************************************************************************)
EXTENDS RequestIdempotency, TLAPS

Keyed == {"reserving", "looking", "retrying", "waiting", "recording", "dropping"}

\* Types, and what prepare has made sure of: past it, a request has a key.
KeyedInv ==
    /\ TypeOK
    /\ \A r \in Requests : stage[r] \in Keyed => key[r] \in Keys

\* The record of a key that has not lapsed is that of its one running execution, or of the
\* execution that every success told of the key names.
RecordInv ==
    /\ KeyedInv
    /\ \A r \in Requests : stage[r] # "ended" => answer[r].told # "success"
    /\ \A r \in Requests :
        stage[r] \in Running /\ key[r] \in Keys \ lapsed =>
            store[key[r]].phase = "processing" /\ store[key[r]].by = r
    /\ \A r \in Requests :
        answer[r].told = "success" /\ key[r] \in Keys \ lapsed =>
            store[key[r]].phase = "completed" /\ store[key[r]].by = answer[r].of

----------------------------------------------------------------------------
(* Types.                                                                  *)

LEMMA InitKeyed == Init => KeyedInv
BY IdempotencyNumbers
   DEF Init, KeyedInv, TypeOK, Record, Gone, Stages, Answer, Told, Keyed

LEMMA FaultTyped == ASSUME faults \in 0 .. MaxFaults, Fault PROVE faults' \in 0 .. MaxFaults
BY IdempotencyNumbers DEF Fault

LEMMA ReservedTyped ==
    ASSUME TypeOK, NEW r \in Requests PROVE Reserved(r) \in [Keys -> Record]
<1>1. [phase |-> "processing", by |-> r, left |-> ProcessingTtl] \in Record
  BY IdempotencyNumbers DEF Record
<1> QED BY <1>1 DEF TypeOK, Reserved

LEMMA RecordedTyped ==
    ASSUME TypeOK, NEW r \in Requests PROVE Recorded(r) \in [Keys -> Record]
<1>1. [phase |-> "completed", by |-> r, left |-> ResultTtl] \in Record
  BY IdempotencyNumbers DEF Record
<1> QED BY <1>1 DEF TypeOK, Recorded

LEMMA DroppedTyped ==
    ASSUME TypeOK, NEW r \in Requests PROVE Dropped(r) \in [Keys -> Record]
<1>1. Gone \in Record
  BY IdempotencyNumbers DEF Record, Gone
<1> QED BY <1>1 DEF TypeOK, Dropped

LEMMA OlderTyped == ASSUME NEW rec \in Record PROVE Older(rec) \in Record
BY IdempotencyNumbers DEF Older, Record, Gone

LEMMA KeyOfTyped ==
    ASSUME NEW r \in Requests, NEW in \in Inputs[r]
    PROVE  KeyOf(in) \in Keys \cup {None}
BY IdempotencyNames DEF KeyOf

LEMMA PrepareKeyed ==
    ASSUME KeyedInv, NEW r \in Requests, Prepare(r) PROVE KeyedInv'
<1> USE IdempotencyNumbers, IdempotencyNames
    DEF KeyedInv, TypeOK, Keyed, Stages, Answer, Told, Success, Goto, End
<1>1. CASE Arrive(r)
  <2>1. PICK in \in Inputs[r] :
           /\ key' = [key EXCEPT ![r] = KeyOf(in)]
           /\ \/ KeyOf(in) # None /\ Goto(r, "reserving") /\ UNCHANGED answer
              \/ KeyOf(in) = None /\ Goto(r, "handler") /\ UNCHANGED answer
              \/ KeyOf(in) = None /\ End(r, Told("refused"))
           /\ UNCHANGED <<store, again, waited, lapsed, faults>>
    BY <1>1 DEF Arrive
  <2>2. KeyOf(in) \in Keys \cup {None}
    BY KeyOfTyped
  <2> QED BY <2>1, <2>2
<1>2. CASE Reserve(r)
  BY <1>2, ReservedTyped DEF Reserve
<1>3. CASE Look(r)
  BY <1>3 DEF Look, InProgress, Record
<1>4. CASE Retry(r)
  <2>1. CASE store[key[r]] = Gone
    BY <1>4, <2>1, ReservedTyped DEF Retry
  <2>2. CASE store[key[r]] # Gone
    BY <1>4, <2>2 DEF Retry, InProgress
  <2> QED BY <2>1, <2>2
<1> QED BY <1>1, <1>2, <1>3, <1>4 DEF Prepare

LEMMA GoesWrongKeyed ==
    ASSUME KeyedInv, NEW r \in Requests, GoesWrong(r) PROVE KeyedInv'
<1> USE IdempotencyNames, FaultTyped, ReservedTyped, RecordedTyped, DroppedTyped
    DEF KeyedInv, TypeOK, Keyed, Stages, Answer, Told, Goto, End
<1>1. CASE PrepareFails(r)
  BY <1>1 DEF PrepareFails
<1>2. CASE ReserveTwice(r)
  BY <1>2 DEF ReserveTwice
<1>3. CASE CompleteFails(r)
  BY <1>3 DEF CompleteFails
<1>4. CASE FailTwice(r)
  BY <1>4 DEF FailTwice
<1>5. CASE FailFails(r)
  BY <1>5 DEF FailFails
<1>6. CASE Crash(r)
  BY <1>6 DEF Crash
<1> QED BY <1>1, <1>2, <1>3, <1>4, <1>5, <1>6 DEF GoesWrong

LEMMA StepKeyed ==
    ASSUME KeyedInv, NEW r \in Requests, Step(r) PROVE KeyedInv'
<1> USE IdempotencyNames
    DEF KeyedInv, TypeOK, Keyed, Stages, Answer, Told, Success, Goto, End
<1>1. CASE Poll(r)
  <2>1. CASE store[key[r]].phase = "completed"
    <3>1. store[key[r]].by \in Requests \cup {None}
      BY <1>1 DEF Poll, Record
    <3> QED BY <1>1, <2>1, <3>1 DEF Poll
  <2>2. CASE store[key[r]].phase = "gone"
    BY <1>1, <2>2 DEF Poll, BeginAgain
  <2> QED BY <1>1, <2>1, <2>2 DEF Poll
<1>2. CASE GiveUp(r)
  BY <1>2 DEF GiveUp, BeginAgain
<1>3. CASE Succeed(r)
  <2>1. CASE key[r] = None
    BY <1>3, <2>1 DEF Succeed
  <2>2. CASE key[r] # None
    BY <1>3, <2>2 DEF Succeed
  <2> QED BY <2>1, <2>2
<1>4. CASE Throw(r)
  <2>1. CASE key[r] = None
    BY <1>4, <2>1 DEF Throw
  <2>2. CASE key[r] # None
    BY <1>4, <2>2 DEF Throw
  <2> QED BY <2>1, <2>2
<1>5. CASE Complete(r)
  BY <1>5, RecordedTyped DEF Complete
<1>6. CASE Fail(r)
  BY <1>6, DroppedTyped DEF Fail
<1> QED BY <1>1, <1>2, <1>3, <1>4, <1>5, <1>6, PrepareKeyed, GoesWrongKeyed DEF Step

LEMMA TickKeyed == KeyedInv /\ Tick => KeyedInv'
<1> SUFFICES ASSUME KeyedInv, Tick PROVE KeyedInv'
  OBVIOUS
<1>1. store' \in [Keys -> Record]
  BY OlderTyped DEF KeyedInv, TypeOK, Tick
<1>2. waited' \in [Requests -> 0 .. WaitTicks]
  BY IdempotencyNumbers DEF KeyedInv, TypeOK, Tick
<1> QED BY <1>1, <1>2 DEF KeyedInv, TypeOK, Tick

\* Every reachable state of the records and of the requests is well typed.
THEOREM IdempotencyTypeCorrect == Spec => []TypeOK
<1>1. KeyedInv /\ [Next]_vars => KeyedInv'
  BY StepKeyed, TickKeyed DEF Next, vars, KeyedInv, TypeOK
<1>2. KeyedInv => TypeOK
  BY DEF KeyedInv
<1> QED BY <1>1, <1>2, InitKeyed, PTL DEF Spec

----------------------------------------------------------------------------
(* The record of a key.                                                    *)

LEMMA InitRecord == Init => RecordInv
BY InitKeyed DEF Init, RecordInv, Told, Running

LEMMA PrepareRecord ==
    ASSUME RecordInv, NEW r \in Requests, Prepare(r) PROVE RecordInv'
<1>0. KeyedInv'
  BY PrepareKeyed DEF RecordInv
<1> USE <1>0, IdempotencyNames
    DEF RecordInv, KeyedInv, TypeOK, Keyed, Running, Told, Success, Goto, End
<1>1. CASE Arrive(r)
  <2>1. PICK in \in Inputs[r] :
           /\ stage[r] = "idle"
           /\ key' = [key EXCEPT ![r] = KeyOf(in)]
           /\ \/ KeyOf(in) # None /\ Goto(r, "reserving") /\ UNCHANGED answer
              \/ KeyOf(in) = None /\ Goto(r, "handler") /\ UNCHANGED answer
              \/ KeyOf(in) = None /\ End(r, Told("refused"))
           /\ UNCHANGED <<store, again, waited, lapsed, faults>>
    BY <1>1 DEF Arrive
  <2> QED BY <2>1
<1>2. CASE Reserve(r)
  BY <1>2 DEF Reserve, Reserved, Gone
<1>3. CASE Look(r)
  BY <1>3 DEF Look, InProgress
<1>4. CASE Retry(r)
  BY <1>4 DEF Retry, InProgress, Reserved, Gone
<1> QED BY <1>1, <1>2, <1>3, <1>4 DEF Prepare

LEMMA GoesWrongRecord ==
    ASSUME RecordInv, NEW r \in Requests, GoesWrong(r) PROVE RecordInv'
<1>0. KeyedInv'
  BY GoesWrongKeyed DEF RecordInv
<1> USE <1>0, IdempotencyNames
    DEF RecordInv, KeyedInv, TypeOK, Keyed, Running, Told, Goto, End
<1>1. CASE PrepareFails(r)
  BY <1>1 DEF PrepareFails, Reserved, Gone
<1>2. CASE ReserveTwice(r)
  BY <1>2 DEF ReserveTwice, Reserved, Gone
<1>3. CASE CompleteFails(r)
  BY <1>3 DEF CompleteFails, Recorded
<1>4. CASE FailTwice(r)
  BY <1>4 DEF FailTwice, Dropped
<1>5. CASE FailFails(r)
  BY <1>5 DEF FailFails
<1>6. CASE Crash(r)
  BY <1>6 DEF Crash
<1> QED BY <1>1, <1>2, <1>3, <1>4, <1>5, <1>6 DEF GoesWrong

LEMMA StepRecord ==
    ASSUME RecordInv, NEW r \in Requests, Step(r) PROVE RecordInv'
<1>0. KeyedInv'
  BY StepKeyed DEF RecordInv
<1> USE <1>0, IdempotencyNames
    DEF RecordInv, KeyedInv, TypeOK, Keyed, Running, Told, Success, Goto, End
<1>1. CASE Poll(r)
  BY <1>1 DEF Poll, BeginAgain
<1>2. CASE GiveUp(r)
  BY <1>2 DEF GiveUp, BeginAgain
<1>3. CASE Succeed(r)
  BY <1>3 DEF Succeed
<1>4. CASE Throw(r)
  BY <1>4 DEF Throw
<1>5. CASE Complete(r)
  BY <1>5 DEF Complete, Recorded
<1>6. CASE Fail(r)
  BY <1>6 DEF Fail, Dropped
<1> QED BY <1>1, <1>2, <1>3, <1>4, <1>5, <1>6, PrepareRecord, GoesWrongRecord DEF Step

LEMMA TickRecord == RecordInv /\ Tick => RecordInv'
<1> SUFFICES ASSUME RecordInv, Tick PROVE RecordInv'
  OBVIOUS
<1>0. KeyedInv'
  BY TickKeyed DEF RecordInv
<1>1. ASSUME NEW k \in Keys, ~ Lapses(k),
             \/ store[k].phase = "completed"
             \/ \E r \in Requests : store[k].by = r /\ stage[r] \in Running
      PROVE  store'[k].phase = store[k].phase /\ store'[k].by = store[k].by
  <2>1. store[k].left # 1
    BY <1>1 DEF Lapses
  <2>2. store'[k] = Older(store[k]) /\ store[k] \in Record
    BY DEF Tick, RecordInv, KeyedInv, TypeOK
  <2> QED BY <2>1, <2>2 DEF Older, Record
<1>2. \A k \in Keys \ lapsed' : k \notin lapsed /\ ~ Lapses(k)
  BY DEF Tick
<1> QED BY <1>0, <1>1, <1>2 DEF RecordInv, Tick

LEMMA NextRecord == RecordInv /\ [Next]_vars => RecordInv'
BY StepRecord, TickRecord DEF Next, vars, RecordInv, KeyedInv, TypeOK

\* While a key's record lasts, no two of its requests execute, whatever the handlers do and
\* whichever processes die.
THEOREM OneRunsAtATimeHolds == Spec => []OneRunsAtATime
<1>1. RecordInv => OneRunsAtATime
  BY DEF RecordInv, OneRunsAtATime
<1> QED BY <1>1, InitRecord, NextRecord, PTL DEF Spec

\* Under the same condition every success told of a key is that of one execution.
THEOREM AnswersAgreeHolds == Spec => []AnswersAgree
<1>1. RecordInv => AnswersAgree
  BY DEF RecordInv, AnswersAgree
<1> QED BY <1>1, InitRecord, NextRecord, PTL DEF Spec

----------------------------------------------------------------------------
(* The interceptor implements one execution for each key.                  *)

\* A record that is there names the request that wrote it.
WrittenInv ==
    \A k \in Keys : \/ store[k] = Gone
                    \/ store[k].phase # "gone" /\ store[k].by \in Requests

\* How the record of a key may change: as it is apart from its age, reserved when it is
\* gone, erased, or turned into a result by the request that has it and executes.
RecordMoves(k) ==
    \/ store'[k].phase = store[k].phase /\ store'[k].by = store[k].by
    \/ store[k] = Gone /\ store'[k].phase = "processing" /\ store'[k].by \in Requests
    \/ store[k].phase = "processing" /\ store'[k] = Gone
    \/ /\ store[k].phase = "processing" /\ store'[k].phase = "completed"
       /\ store'[k].by = store[k].by /\ store[k].by \in ExecutingOf(k)

\* The other tables: a request starts to execute only when its key's record is gone, and
\* what was told stays.
RequestsMove ==
    \A r \in Requests :
        /\ stage[r] \notin Running /\ stage'[r] \in Running /\ key'[r] \in Keys
              => store[key'[r]] = Gone
        /\ stage[r] # "idle" => key'[r] = key[r]
        /\ answer[r].told = "success" => answer'[r] = answer[r]

\* Every step keeps records written, moves the record of a key that has not lapsed as
\* RecordMoves says, and requests as RequestsMove says.
Moves ==
    /\ WrittenInv'
    /\ lapsed \subseteq lapsed'
    /\ \A k \in Keys \ lapsed' : RecordMoves(k)
    /\ RequestsMove

LEMMA PrepareMoves ==
    ASSUME RecordInv, WrittenInv, NEW r \in Requests, Prepare(r) PROVE Moves
<1> USE IdempotencyNames
    DEF RecordInv, KeyedInv, TypeOK, Keyed, Running, Told, Success, Goto, End,
        Moves, WrittenInv, RecordMoves, RequestsMove
<1>1. CASE Arrive(r)
  BY <1>1 DEF Arrive
<1>2. CASE Reserve(r)
  BY <1>2 DEF Reserve, Reserved, Gone
<1>3. CASE Look(r)
  BY <1>3 DEF Look, InProgress
<1>4. CASE Retry(r)
  BY <1>4 DEF Retry, InProgress, Reserved, Gone
<1> QED BY <1>1, <1>2, <1>3, <1>4 DEF Prepare

LEMMA GoesWrongMoves ==
    ASSUME RecordInv, WrittenInv, NEW r \in Requests, GoesWrong(r) PROVE Moves
<1> USE IdempotencyNames
    DEF RecordInv, KeyedInv, TypeOK, Keyed, Running, Told, Goto, End,
        Moves, WrittenInv, RecordMoves, RequestsMove
<1>1. CASE PrepareFails(r)
  BY <1>1 DEF PrepareFails, Reserved, Gone
<1>2. CASE ReserveTwice(r)
  BY <1>2 DEF ReserveTwice, Reserved, Gone
<1>3. CASE CompleteFails(r)
  BY <1>3 DEF CompleteFails, Recorded, Gone
<1>4. CASE FailTwice(r)
  BY <1>4 DEF FailTwice, Dropped, Gone
<1>5. CASE FailFails(r)
  BY <1>5 DEF FailFails
<1>6. CASE Crash(r)
  BY <1>6 DEF Crash
<1> QED BY <1>1, <1>2, <1>3, <1>4, <1>5, <1>6 DEF GoesWrong

LEMMA StepMoves ==
    ASSUME RecordInv, WrittenInv, NEW r \in Requests, Step(r) PROVE Moves
<1> USE IdempotencyNames
    DEF RecordInv, KeyedInv, TypeOK, Keyed, Running, Told, Success, Goto, End,
        Moves, WrittenInv, RecordMoves, RequestsMove
<1>1. CASE Poll(r)
  BY <1>1 DEF Poll, BeginAgain
<1>2. CASE GiveUp(r)
  BY <1>2 DEF GiveUp, BeginAgain
<1>3. CASE Succeed(r)
  BY <1>3 DEF Succeed
<1>4. CASE Throw(r)
  BY <1>4 DEF Throw
<1>5. CASE Complete(r)
  BY <1>5 DEF Complete, Recorded, Gone, ExecutingOf
<1>6. CASE Fail(r)
  BY <1>6 DEF Fail, Dropped, Gone
<1> QED BY <1>1, <1>2, <1>3, <1>4, <1>5, <1>6, PrepareMoves, GoesWrongMoves DEF Step

LEMMA TickMoves == RecordInv /\ WrittenInv /\ Tick => Moves
<1> SUFFICES ASSUME RecordInv, WrittenInv, Tick PROVE Moves
  OBVIOUS
<1>1. ASSUME NEW k \in Keys
      PROVE  \/ store'[k].phase = store[k].phase /\ store'[k].by = store[k].by
             \/ store'[k] = Gone /\ store[k].left = 1
  <2>1. store'[k] = Older(store[k]) /\ store[k] \in Record
    BY DEF Tick, RecordInv, KeyedInv, TypeOK
  <2> QED BY <2>1 DEF Older, Record
<1>2. WrittenInv'
  <2> SUFFICES ASSUME NEW k \in Keys
               PROVE  store'[k] = Gone \/ (store'[k].phase # "gone" /\ store'[k].by \in Requests)
    BY DEF WrittenInv
  <2>1. store[k] = Gone => store'[k] = Gone
    BY DEF Tick, Older, Gone
  <2> QED BY <1>1, <2>1 DEF WrittenInv
<1>3. ASSUME NEW k \in Keys \ lapsed' PROVE RecordMoves(k)
  <2>1. ~ Lapses(k)
    BY DEF Tick
  <2>2. store[k].phase \in {"gone", "processing", "completed"}
    BY DEF RecordInv, KeyedInv, TypeOK, Record
  <2>3. CASE store'[k] = Gone /\ store[k].left = 1
    BY <2>1, <2>2, <2>3 DEF Lapses, RecordMoves, WrittenInv, Gone
  <2> QED BY <1>1, <2>3 DEF RecordMoves
<1>4. RequestsMove
  BY DEF Tick, RequestsMove
<1> QED BY <1>2, <1>3, <1>4 DEF Moves, Tick

LEMMA NextMoves ==
    ASSUME RecordInv, WrittenInv, [Next]_vars PROVE Moves
<1>1. CASE UNCHANGED vars
  BY <1>1 DEF vars, Moves, WrittenInv, RecordMoves, RequestsMove
<1> QED BY <1>1, StepMoves, TickMoves DEF Next

\* Only the request that has the key executes, and only the one whose result is recorded
\* was told.
LEMMA OthersAreOut ==
    ASSUME RecordInv, WrittenInv, NEW k \in Keys \ lapsed
    PROVE  /\ ExecutingOf(k) \subseteq Requests
           /\ ExecutingOf(k) \subseteq {store[k].by}
           /\ store[k].phase # "processing" => ExecutingOf(k) = {}
           /\ ToldOf(k) \subseteq {store[k].by}
           /\ store[k].phase # "completed" => ToldOf(k) = {}
BY DEF RecordInv, ExecutingOf, ToldOf

\* The views of all keys have their type.
KeysTyped == \A k \in Keys : KeyState(k) \in Once!State

LEMMA KeyStateTyped == RecordInv /\ WrittenInv => KeysTyped
<1> SUFFICES ASSUME RecordInv, WrittenInv, NEW k \in Keys PROVE KeyState(k) \in Once!State
  BY DEF KeysTyped
<1>1. CASE k \in lapsed
  BY <1>1 DEF KeyState, Once!State
<1>2. CASE k \notin lapsed
  <2>1. store[k].phase \in {"gone", "processing", "completed"} /\ store[k].by \in Requests \cup {None}
    BY DEF RecordInv, KeyedInv, TypeOK, Record
  <2>2. ToldOf(k) \subseteq Requests
    BY <1>2, OthersAreOut DEF WrittenInv, Gone
  <2> QED BY <1>2, <2>1, <2>2 DEF KeyState, Once!State, ExecutingOf
<1> QED BY <1>1, <1>2

View(phase, by, executing, told) ==
    [phase |-> phase, by |-> by, executing |-> executing, told |-> told]

\* The abstract steps on views.
LEMMA ViewSteps ==
    ASSUME NEW by, NEW executing, NEW told
    PROVE  /\ Once!KeyStep(View("processing", by, executing, told), View("processing", by, {}, told))
           /\ Once!KeyStep(View("processing", by, executing, told), View("gone", None, {}, {}))
           /\ Once!KeyStep(View("completed", by, executing, told),
                           View("completed", by, executing, {by}))
           /\ by \in Requests /\ executing \subseteq {by} =>
                 Once!KeyStep(View("gone", None, {}, {}), View("processing", by, executing, {}))
           /\ by \in executing =>
                 \A heard \in SUBSET {by} :
                    Once!KeyStep(View("processing", by, executing, told),
                                 View("completed", by, {}, heard))
<1>1. Once!Lose(View("processing", by, executing, told), View("processing", by, {}, told))
  BY DEF Once!Lose, View
<1>2. Once!Abandon(View("processing", by, executing, told), View("gone", None, {}, {}))
  BY DEF Once!Abandon, Once!Free, View
<1>3. Once!Tell(View("completed", by, executing, told), View("completed", by, executing, {by}))
  BY DEF Once!Tell, View
<1>4. by \in Requests /\ executing \subseteq {by} =>
         Once!Take(View("gone", None, {}, {}), View("processing", by, executing, {}))
  BY DEF Once!Take, Once!Free, View
<1>5. ASSUME by \in executing, NEW heard \in SUBSET {by}
      PROVE  Once!Settle(View("processing", by, executing, told), View("completed", by, {}, heard))
  BY <1>5 DEF Once!Settle, View
<1> QED BY <1>1, <1>2, <1>3, <1>4, <1>5 DEF Once!KeyStep

\* A step is one of the abstract steps of each key, or leaves it alone.
LEMMA KeySteps ==
    ASSUME RecordInv, RecordInv', WrittenInv, Moves, NEW k \in Keys
    PROVE  KeyState(k)' = KeyState(k) \/ Once!KeyStep(KeyState(k), KeyState(k)')
<1>1. CASE k \in lapsed'
  BY <1>1 DEF KeyState, Once!KeyStep, Once!Void, Once!Free
<1>2. CASE k \notin lapsed'
  <2> DEFINE by == store[k].by
  <2>1. /\ k \notin lapsed /\ RecordMoves(k) /\ RequestsMove
        /\ KeyState(k) = View(store[k].phase, by, ExecutingOf(k), ToldOf(k))
        /\ KeyState(k)' = View(store'[k].phase, store'[k].by, ExecutingOf(k)', ToldOf(k)')
    BY <1>2 DEF Moves, KeyState, View
  <2>2. /\ ExecutingOf(k) \subseteq {by}
        /\ store[k].phase # "processing" => ExecutingOf(k) = {}
        /\ ToldOf(k) \subseteq {by}
        /\ store[k].phase # "completed" => ToldOf(k) = {}
    BY <2>1, OthersAreOut
  <2>3. /\ ExecutingOf(k)' \subseteq {store'[k].by}
        /\ store'[k].phase # "processing" => ExecutingOf(k)' = {}
        /\ ToldOf(k)' \subseteq {store'[k].by}
        /\ store'[k].phase # "completed" => ToldOf(k)' = {}
    BY <1>2, <2>1 DEF RecordInv, ExecutingOf, ToldOf
  <2>4. store[k].phase \in {"gone", "processing", "completed"}
    BY DEF RecordInv, KeyedInv, TypeOK, Record
  <2>5. store[k] # Gone => ExecutingOf(k)' \subseteq ExecutingOf(k)
    BY <2>1 DEF RequestsMove, ExecutingOf, Running
  <2>6. ToldOf(k) \subseteq ToldOf(k)'
    BY <2>1 DEF RequestsMove, ToldOf, RecordInv
  <2>7. CASE store'[k].phase = store[k].phase /\ store'[k].by = by
    <3>1. CASE store[k].phase = "processing"
      <4>1. ExecutingOf(k)' = ExecutingOf(k) \/ ExecutingOf(k)' = {}
        BY <2>2, <2>5, <3>1 DEF Gone
      <4>2. ToldOf(k)' = ToldOf(k)
        BY <2>2, <2>3, <2>7, <3>1
      <4>3. CASE ExecutingOf(k)' = ExecutingOf(k)
        BY <2>1, <2>7, <4>2, <4>3
      <4>4. CASE ExecutingOf(k)' = {}
        <5>1. KeyState(k) = View("processing", by, ExecutingOf(k), ToldOf(k))
          BY <2>1, <3>1
        <5>2. KeyState(k)' = View("processing", by, {}, ToldOf(k))
          BY <2>1, <2>7, <3>1, <4>2, <4>4
        <5> QED BY <5>1, <5>2, ViewSteps
      <4> QED BY <4>1, <4>3, <4>4
    <3>2. CASE store[k].phase = "completed"
      <4>1. ToldOf(k)' = ToldOf(k) \/ ToldOf(k)' = {by}
        BY <2>2, <2>3, <2>6, <2>7
      <4>2. ExecutingOf(k)' = ExecutingOf(k)
        BY <2>2, <2>3, <2>7, <3>2
      <4>3. CASE ToldOf(k)' = ToldOf(k)
        BY <2>1, <2>7, <4>2, <4>3
      <4>4. CASE ToldOf(k)' = {by}
        <5>1. KeyState(k) = View("completed", by, ExecutingOf(k), ToldOf(k))
          BY <2>1, <3>2
        <5>2. KeyState(k)' = View("completed", by, ExecutingOf(k), {by})
          BY <2>1, <2>7, <3>2, <4>2, <4>4
        <5> QED BY <5>1, <5>2, ViewSteps
      <4> QED BY <4>1, <4>3, <4>4
    <3>3. CASE store[k].phase = "gone"
      BY <2>1, <2>2, <2>3, <2>7, <3>3
    <3> QED BY <2>4, <3>1, <3>2, <3>3
  <2>8. CASE store[k] = Gone /\ store'[k].phase = "processing" /\ store'[k].by \in Requests
    <3>1. KeyState(k) = View("gone", None, {}, {})
      BY <2>1, <2>2, <2>8 DEF Gone
    <3>2. KeyState(k)' = View("processing", store'[k].by, ExecutingOf(k)', {})
      BY <2>1, <2>3, <2>8
    <3> QED BY <2>3, <2>8, <3>1, <3>2, ViewSteps
  <2>9. CASE store[k].phase = "processing" /\ store'[k] = Gone
    <3>1. KeyState(k)' = View("gone", None, {}, {})
      BY <2>1, <2>3, <2>9 DEF Gone
    <3> QED BY <2>1, <2>9, <3>1, ViewSteps
  <2>10. CASE /\ store[k].phase = "processing" /\ store'[k].phase = "completed"
              /\ store'[k].by = by /\ by \in ExecutingOf(k)
    <3>1. KeyState(k)' = View("completed", by, {}, ToldOf(k)') /\ ToldOf(k)' \in SUBSET {by}
      BY <2>1, <2>3, <2>10
    <3>2. KeyState(k) = View("processing", by, ExecutingOf(k), ToldOf(k))
      BY <2>1, <2>10
    <3>3. \A heard \in SUBSET {by} :
             Once!KeyStep(View("processing", by, ExecutingOf(k), ToldOf(k)),
                          View("completed", by, {}, heard))
      BY <2>10, ViewSteps
    <3>4. Once!KeyStep(View("processing", by, ExecutingOf(k), ToldOf(k)),
                       View("completed", by, {}, ToldOf(k)'))
      BY <3>1, <3>3
    <3> QED BY <3>1, <3>2, <3>4
  <2> QED BY <2>1, <2>7, <2>8, <2>9, <2>10 DEF RecordMoves
<1> QED BY <1>1, <1>2

\* The interceptor implements one execution for each key, for any number of requests and
\* keys, any TTLs and any faults, although SET and DEL compare nothing.
THEOREM InterceptorImplementsOneExecution == Spec => ImplementsOneExecution
<1>1. Init => Once!Init /\ WrittenInv
  <2> SUFFICES ASSUME Init PROVE Once!Init /\ WrittenInv
    OBVIOUS
  <2>1. \A k \in Keys : ExecutingOf(k) = {} /\ ToldOf(k) = {}
    BY DEF Init, ExecutingOf, ToldOf, Running, Told
  <2>2. \A k \in Keys : KeyState(k) = Once!Free
    BY <2>1 DEF Init, KeyState, Gone, Once!Free
  <2> QED BY <2>2 DEF Once!Init, Init, WrittenInv
<1>2. RecordInv /\ WrittenInv /\ [Next]_vars => WrittenInv'
  BY NextMoves DEF Moves
<1>3. RecordInv /\ RecordInv' /\ WrittenInv /\ KeysTyped' /\ [Next]_vars
        => [Once!Next]_([k \in Keys |-> KeyState(k)])
  BY KeySteps, NextMoves DEF Once!Next, KeysTyped
<1> QED
  BY <1>1, <1>2, <1>3, InitRecord, NextRecord, KeyStateTyped,
     PTL DEF Spec, ImplementsOneExecution, Once!Spec

=================================================================================
