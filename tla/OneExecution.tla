----------------------------- MODULE OneExecution -----------------------------
(***************************************************************************)
(* What request idempotency promises of a key, without records, commands   *)
(* or clocks: one request at a time has the key; the key is free again     *)
(* when the execution fails, or its process died; the first execution that *)
(* succeeds settles the key, and every success told of the key is that     *)
(* one.  The keys are independent, and several may move in one step.       *)
(*                                                                         *)
(* Of a void key nothing is promised any more.                             *)
(***************************************************************************)
CONSTANTS Requests, Keys, None

VARIABLE state  \* of each key: its phase, the request that has or settled it, the
                \* requests that execute, and the executions that clients were told of

State == [phase : {"gone", "processing", "completed", "void"},
          by : Requests \cup {None},
          executing : SUBSET Requests,
          told : SUBSET Requests]

Free == [phase |-> "gone", by |-> None, executing |-> {}, told |-> {}]
Void == [Free EXCEPT !.phase = "void"]

Init == state = [k \in Keys |-> Free]

\* A request takes the key of nobody; it may be lost before it executes.
Take(s, t) ==
    /\ s = Free
    /\ \E r \in Requests : \E executing \in SUBSET {r} :
          t = [phase |-> "processing", by |-> r, executing |-> executing, told |-> {}]

\* The execution is lost; the key is not free yet.
Lose(s, t) ==
    /\ s.phase = "processing"
    /\ t = [s EXCEPT !.executing = {}]

\* The key is given back, or taken from one who no longer executes.
Abandon(s, t) == s.phase = "processing" /\ t = Free

\* The execution succeeds.
Settle(s, t) ==
    /\ s.phase = "processing" /\ s.by \in s.executing
    /\ \E told \in SUBSET {s.by} :
          t = [phase |-> "completed", by |-> s.by, executing |-> {}, told |-> told]

\* A client is told the result.
Tell(s, t) == s.phase = "completed" /\ t = [s EXCEPT !.told = {s.by}]

KeyStep(s, t) ==
    \/ Take(s, t) \/ Lose(s, t) \/ Abandon(s, t) \/ Settle(s, t) \/ Tell(s, t)
    \/ t = Void

Next ==
    /\ state' \in [Keys -> State]
    /\ \A k \in Keys : state'[k] = state[k] \/ KeyStep(state[k], state'[k])

Spec == Init /\ [][Next]_state
===============================================================================
