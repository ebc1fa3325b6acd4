------------------------- MODULE LessonLedgerProofs -------------------------
(***************************************************************************)
(* Proofs about LessonLedger, for every set of students, classes, cards    *)
(* and requests and every content of the request bodies.                   *)
(***************************************************************************)
EXTENDS LessonLedger, TLAPS, WellFoundedInduction

----------------------------------------------------------------------------
(* What the helpers of the actions preserve.                               *)

\* Starting a request keeps the bookkeeping of requests well typed.
LEMMA StartTyped ==
    ASSUME TypeOK, NEW r \in Requests, Start(r)
    PROVE  running' \subseteq Requests /\ answer' \in [Requests -> Answers]
BY DEF TypeOK, Start, Answers

\* So does ending one, with whichever answer.
LEMMA FinishTyped ==
    ASSUME TypeOK, NEW r \in Requests, NEW a \in Answers, Finish(r, a)
    PROVE  running' \subseteq Requests /\ answer' \in [Requests -> Answers]
BY DEF TypeOK, Finish, Answers

\* The row a check-in writes is a LessonTransaction row with an integer balance on it.
LEMMA CheckInRowTyped ==
    ASSUME TypeOK, NEW ci \in checkIns, NEW c \in Cards
    PROVE  CheckInRow(ci, c) \in Row
<1>1. ci \in CheckIn /\ cards[c] \in Card
  BY DEF TypeOK
<1>2. CheckInKey(ci.student, ci.schedule) \in Keys
  BY <1>1 DEF CheckIn, CheckInKey, Keys
<1>3. -ci.amount \in Int /\ cards[c].remaining \in Int /\ cards[c].remaining - ci.amount \in Int
  BY <1>1 DEF CheckIn, Card
<1> QED
  BY <1>1, <1>2, <1>3 DEF CheckIn, CheckInRow, Row, Reasons

\* The row an adjustment writes is a LessonTransaction row.
LEMMA AdjustRowTyped ==
    ASSUME TypeOK, NEW aj \in adjusts
    PROVE  AdjustRow(aj) \in Row
<1>1. aj \in Adjust
  BY DEF TypeOK
<1>2. AdjustKey(aj.card, aj.id) \in Keys
  BY <1>1 DEF Adjust, AdjustKey, Keys
<1>3. aj.before + aj.delta \in Int
  BY <1>1 DEF Adjust
<1> QED
  BY <1>1, <1>2, <1>3 DEF Adjust, AdjustRow, Row

\* A deduction leaves well-typed cards and rows.
LEMMA DeductTyped ==
    ASSUME TypeOK, NEW ci \in checkIns, Deduct(ci)
    PROVE  cards' \in [Cards -> Card] /\ ledger' \subseteq Row
<1>1. PICK c \in FirstPayers(ci.student, ci.amount) :
         /\ cards' = [cards EXCEPT ![c].remaining = @ + CheckInRow(ci, c).delta]
         /\ ledger' = ledger \cup {CheckInRow(ci, c)}
  BY DEF Deduct
<1>2. c \in Cards
  BY DEF FirstPayers, UsableCards
<1>3. CheckInRow(ci, c) \in Row
  BY <1>2, CheckInRowTyped
<1>4. cards[c] \in Card /\ cards[c].remaining + CheckInRow(ci, c).delta \in Int
  BY <1>2, <1>3 DEF TypeOK, Card, Row
<1> QED
  BY <1>1, <1>2, <1>3, <1>4 DEF TypeOK, Card

----------------------------------------------------------------------------
\* The initial tables are empty and well typed.
LEMMA InitTyped == Init => TypeOK
BY StudentsAssumption, TimetableAssumption
   DEF Init, TypeOK, Card, Answers, Pairs

\* Every step keeps every table well typed.
LEMMA NextTyped == TypeOK /\ [Next]_vars => TypeOK'
<1> SUFFICES ASSUME TypeOK, [Next]_vars PROVE TypeOK'
  OBVIOUS
<1>1. ASSUME NEW r \in Requests, NEW st \in Students, NEW sch \in Schedules, ReadCheckIn(r, st, sch)
      PROVE  TypeOK'
  <2>1. DecidedStatus(st, sch) \in AttendanceStatus
    BY DEF DecidedStatus, AttendanceStatus
  <2>2. AmountDue(st, sch) \in Nat
    BY TimetableAssumption DEF AmountDue
  <2>3. checkIns' \subseteq CheckIn
    BY <1>1, <2>1, <2>2 DEF ReadCheckIn, TypeOK, CheckIn
  <2> QED
    BY <1>1, <2>3, StartTyped DEF ReadCheckIn, TypeOK
<1>2. ASSUME NEW ci \in checkIns, CommitCheckIn(ci)
      PROVE  TypeOK'
  <2>1. ci \in CheckIn
    BY DEF TypeOK
  <2>2. attendance' \in [Pairs -> [status : AttendanceStatus \cup {"NONE"}, out : BOOLEAN]]
    BY <1>2, <2>1 DEF CommitCheckIn, UpsertAttendance, TypeOK, CheckIn, Pairs
  <2>3. running' \subseteq Requests /\ answer' \in [Requests -> Answers]
    <3>1. ci.id \in Requests /\ "deducted" \in Answers /\ "not_deducted" \in Answers
      BY <2>1 DEF CheckIn, Answers
    <3> QED
      BY <1>2, <3>1, FinishTyped DEF CommitCheckIn
  <2>4. cards' \in [Cards -> Card] /\ ledger' \subseteq Row
    BY <1>2, DeductTyped DEF CommitCheckIn, TypeOK
  <2> QED
    BY <1>2, <2>2, <2>3, <2>4 DEF CommitCheckIn, TypeOK
<1>3. ASSUME NEW ci \in checkIns, TimeoutCheckIn(ci)
      PROVE  TypeOK'
  BY <1>3 DEF TimeoutCheckIn, TypeOK, Answers
<1>4. ASSUME NEW st \in Students, NEW sch \in Schedules, CheckOut(st, sch)
      PROVE  TypeOK'
  BY <1>4 DEF CheckOut, TypeOK, Pairs
<1>5. ASSUME NEW st \in Students, NEW sch \in Schedules, CreateLeaveRequest(st, sch)
      PROVE  TypeOK'
  BY <1>5 DEF CreateLeaveRequest, TypeOK, Pairs
<1>6. ASSUME NEW sch \in Schedules, CancelSchedule(sch)
      PROVE  TypeOK'
  BY <1>6 DEF CancelSchedule, TypeOK
<1>7. ASSUME NEW c \in Cards, NEW body \in NewCards, CreateCard(c, body)
      PROVE  TypeOK'
  <2>1. body \in CardBody
    BY BodiesAssumption
  <2> QED
    BY <1>7, <2>1 DEF CreateCard, TypeOK, Card, CardBody
<1>8. ASSUME NEW c \in Cards, NEW body \in Patches, PatchCard(c, body)
      PROVE  TypeOK'
  <2>1. cards[c] \in Card
    BY DEF TypeOK
  <2>2. /\ Patched(cards[c].student, body.student) \in Students
        /\ Patched(cards[c].status, body.status) \in CardStatus \cup {"ABSENT"}
        /\ Patched(cards[c].remaining, body.remaining) \in Int
        /\ Patched(cards[c].validFrom, body.validFrom) \in Nat
        /\ Patched(cards[c].validTo, body.validTo) \in Nat
        /\ cards[c].version \in Nat
    BY <2>1, BodiesAssumption DEF Patched, Card
  <2>3. cards' \in [Cards -> Card]
    BY <1>8, <2>2 DEF PatchCard, TypeOK, Card
  <2> QED
    BY <1>8, <2>3 DEF PatchCard, TypeOK
<1>9. ASSUME NEW r \in Requests, NEW c \in Cards, NEW delta \in Deltas, NEW reason \in Reasons,
             NEW sch \in Schedules \cup {NoSchedule}, ReadAdjust(r, c, delta, reason, sch)
      PROVE  TypeOK'
  <2>1. cards[c] \in Card /\ delta \in Int
    BY BodiesAssumption DEF TypeOK
  <2>2. adjusts' \subseteq Adjust
    BY <1>9, <2>1 DEF ReadAdjust, TypeOK, Card, Adjust
  <2> QED
    BY <1>9, <2>2, StartTyped DEF ReadAdjust, TypeOK
<1>10. ASSUME NEW aj \in adjusts, ApplyAdjust(aj)
       PROVE  TypeOK'
  <2>1. aj \in Adjust /\ AdjustRow(aj) \in Row
    BY AdjustRowTyped DEF TypeOK
  <2>2. cards' \in [Cards -> Card]
    BY <1>10, <2>1 DEF ApplyAdjust, TypeOK, Card, Adjust
  <2>3. running' \subseteq Requests /\ answer' \in [Requests -> Answers]
    <3>1. aj.id \in Requests /\ "adjusted" \in Answers
      BY <2>1 DEF Adjust, Answers
    <3> QED
      BY <1>10, <3>1, FinishTyped DEF ApplyAdjust
  <2> QED
    BY <1>10, <2>1, <2>2, <2>3 DEF ApplyAdjust, TypeOK
<1>11. ASSUME NEW aj \in adjusts, RefuseAdjust(aj)
       PROVE  TypeOK'
  <2>1. aj.id \in Requests /\ {"insufficient", "version_conflict"} \subseteq Answers
    BY DEF TypeOK, Adjust, Answers
  <2>2. running' \subseteq Requests /\ answer' \in [Requests -> Answers]
    BY <1>11, <2>1, FinishTyped DEF RefuseAdjust
  <2> QED
    BY <1>11, <2>2 DEF RefuseAdjust, TypeOK
<1>12. ASSUME NEW r \in Requests, AbortRequest(r)
       PROVE  TypeOK'
  <2>1. running' \subseteq Requests /\ answer' \in [Requests -> Answers]
    BY <1>12, FinishTyped DEF AbortRequest, Answers
  <2> QED
    BY <1>12, <2>1 DEF AbortRequest, TypeOK
<1>13. CASE Tick
  BY <1>13, TimetableAssumption DEF Tick, TypeOK
<1>14. CASE UNCHANGED vars
  BY <1>14 DEF vars, TypeOK
<1> QED
  BY <1>1, <1>2, <1>3, <1>4, <1>5, <1>6, <1>7, <1>8, <1>9, <1>10, <1>11, <1>12, <1>13, <1>14
     DEF Next, CheckInStep, CardStep

\* Every reachable state of the attendance and membership tables is well typed.
THEOREM TypeCorrect == Spec => []TypeOK
BY InitTyped, NextTyped, PTL DEF Spec

----------------------------------------------------------------------------
(* How a step can change the cards and the ledger.                         *)

\* What Deduct writes, with the card it picks: one fresh check-in row and its delta.
LEMMA DeductWrites ==
    ASSUME TypeOK, NEW ci \in checkIns, Deduct(ci)
    PROVE  \E c \in Cards :
              /\ c \in UsableCards(ci.student)
              /\ cards[c].remaining >= ci.amount
              /\ Insertable(CheckInRow(ci, c))
              /\ CheckInRow(ci, c) \in Row
              /\ ledger' = ledger \cup {CheckInRow(ci, c)}
              /\ cards' = [cards EXCEPT ![c] = [cards[c] EXCEPT !.remaining = cards[c].remaining - ci.amount]]
<1>1. PICK c \in FirstPayers(ci.student, ci.amount) :
         /\ Insertable(CheckInRow(ci, c))
         /\ cards' = [cards EXCEPT ![c].remaining = @ + CheckInRow(ci, c).delta]
         /\ ledger' = ledger \cup {CheckInRow(ci, c)}
  BY DEF Deduct
<1>2. c \in Cards /\ c \in UsableCards(ci.student) /\ cards[c].remaining >= ci.amount
  BY DEF FirstPayers, UsableCards, CanPay
<1>3. CheckInRow(ci, c) \in Row
  BY <1>2, CheckInRowTyped
<1>4. cards[c].remaining + CheckInRow(ci, c).delta = cards[c].remaining - ci.amount
  BY <1>2 DEF CheckInRow, TypeOK, CheckIn, Card
<1> QED
  BY <1>1, <1>2, <1>3, <1>4

\* A step leaves the ledger alone, adds the row of one committed check-in, or adds the row
\* of one applied adjustment.
LEMMA LedgerStep ==
    ASSUME TypeOK, [Next]_vars
    PROVE  \/ ledger' = ledger
           \/ \E ci \in checkIns : CommitCheckIn(ci) /\ Deduct(ci)
           \/ \E aj \in adjusts : ApplyAdjust(aj)
BY DEF Next, CheckInStep, CardStep, vars, ReadCheckIn, CommitCheckIn, TimeoutCheckIn, CheckOut,
       CreateLeaveRequest, CancelSchedule, CreateCard, PatchCard, ReadAdjust, RefuseAdjust,
       AbortRequest, Tick

\* A step leaves both tables alone, deducts for one check-in, applies one adjustment, or
\* creates or patches one card.
LEMMA TablesStep ==
    ASSUME TypeOK, [Next]_vars
    PROVE  \/ cards' = cards /\ ledger' = ledger
           \/ \E ci \in checkIns : CommitCheckIn(ci) /\ NeedsDeduct(ci) /\ Deduct(ci)
           \/ \E aj \in adjusts : ApplyAdjust(aj)
           \/ \E c \in Cards, body \in NewCards : CreateCard(c, body)
           \/ \E c \in Cards, body \in Patches : PatchCard(c, body)
BY DEF Next, CheckInStep, CardStep, vars, ReadCheckIn, CommitCheckIn, TimeoutCheckIn, CheckOut,
       CreateLeaveRequest, CancelSchedule, ReadAdjust, RefuseAdjust, AbortRequest, Tick

----------------------------------------------------------------------------
\* The conditional decrement and the version-guarded one take no balance below zero.
LEMMA OverdraftStep ==
    ASSUME TypeOK, NoOverdraft, [Next]_vars
    PROVE  NoOverdraft'
<1> SUFFICES ASSUME NEW d \in Cards PROVE  cards'[d].remaining >= 0
  BY DEF NoOverdraft
<1>0. cards[d] \in Card /\ cards[d].remaining >= 0
  BY DEF TypeOK, NoOverdraft
<1>1. CASE cards' = cards
  BY <1>0, <1>1
<1>2. ASSUME NEW ci \in checkIns, Deduct(ci)
      PROVE  cards'[d].remaining >= 0
  <2>1. PICK c \in Cards :
          /\ cards[c].remaining >= ci.amount
          /\ cards' = [cards EXCEPT ![c] = [cards[c] EXCEPT !.remaining = cards[c].remaining - ci.amount]]
    BY <1>2, DeductWrites
  <2>2. ci.amount \in Nat /\ cards[c] \in Card
    BY DEF TypeOK, CheckIn
  <2> QED
    BY <1>0, <2>1, <2>2 DEF TypeOK, Card
<1>3. ASSUME NEW aj \in adjusts, ApplyAdjust(aj)
      PROVE  cards'[d].remaining >= 0
  <2>1. aj.card \in Cards /\ aj.delta \in Int /\ cards[aj.card] \in Card
    BY DEF TypeOK, Adjust
  <2>2. aj.delta < 0 => cards[aj.card].remaining >= -aj.delta
    BY <1>3 DEF ApplyAdjust, GuardHolds, CanPay
  <2>3. cards[aj.card].remaining + aj.delta >= 0
    BY <2>1, <2>2 DEF Card, NoOverdraft
  <2> QED
    BY <1>0, <1>3, <2>1, <2>3 DEF ApplyAdjust, TypeOK, Card
<1>4. ASSUME NEW c \in Cards, NEW body \in NewCards, CreateCard(c, body)
      PROVE  cards'[d].remaining >= 0
  BY <1>0, <1>4, BodiesAssumption DEF CreateCard, TypeOK, CardBody
<1>5. ASSUME NEW c \in Cards, NEW body \in Patches, PatchCard(c, body)
      PROVE  cards'[d].remaining >= 0
  <2>1. Patched(cards[c].remaining, body.remaining) >= 0
    BY BodiesAssumption DEF Patched, NoOverdraft
  <2> QED
    BY <1>0, <1>5, <2>1 DEF PatchCard, TypeOK
<1> QED
  BY <1>1, <1>2, <1>3, <1>4, <1>5, TablesStep

\* Every balance stays at or above zero, whatever interleaves.
THEOREM BalancesStayNonNegative == Spec => []NoOverdraft
<1>1. Init => NoOverdraft
  BY DEF Init, NoOverdraft
<1> QED
  BY <1>1, OverdraftStep, TypeCorrect, PTL DEF Spec

----------------------------------------------------------------------------
\* Every check-in row is stored under the key of its student and class: what makes the
\* unique index on businessKey an index on <<student, schedule>> for check-ins.
CheckInRowsAreKeyed ==
    \A row \in CheckInRows : row.key = CheckInKey(row.student, row.schedule)

\* The inductive form of at-most-one charge.
ChargeInv == CheckInRowsAreKeyed /\ ChargedAtMostOnce

\* The rows of check-ins change only when a check-in deducts, by its row.
LEMMA CheckInRowsStep ==
    ASSUME TypeOK, [Next]_vars
    PROVE  \/ CheckInRows' = CheckInRows
           \/ \E ci \in checkIns, c \in Cards :
                 /\ CommitCheckIn(ci)
                 /\ Deduct(ci)
                 /\ Insertable(CheckInRow(ci, c))
                 /\ CheckInRows' = CheckInRows \cup {CheckInRow(ci, c)}
<1>1. CASE ledger' = ledger
  BY <1>1 DEF CheckInRows
<1>2. ASSUME NEW ci \in checkIns, CommitCheckIn(ci), Deduct(ci)
      PROVE  \E c \in Cards : /\ Insertable(CheckInRow(ci, c))
                              /\ CheckInRows' = CheckInRows \cup {CheckInRow(ci, c)}
  <2>1. PICK c \in Cards : Insertable(CheckInRow(ci, c)) /\ ledger' = ledger \cup {CheckInRow(ci, c)}
    BY <1>2, DeductWrites
  <2>2. CheckInRow(ci, c).key[1] = "checkin"
    BY DEF CheckInRow, CheckInKey
  <2> QED
    BY <2>1, <2>2 DEF CheckInRows
<1>3. ASSUME NEW aj \in adjusts, ApplyAdjust(aj)
      PROVE  CheckInRows' = CheckInRows
  <2>1. AdjustRow(aj).key[1] # "checkin"
    BY DEF AdjustRow, AdjustKey
  <2> QED
    BY <1>3, <2>1 DEF ApplyAdjust, CheckInRows
<1> QED
  BY <1>1, <1>2, <1>3, LedgerStep

\* The rows of check-ins are keyed by student and class, and at most one exists for each.
LEMMA ChargeInvariant == Spec => []ChargeInv
<1>1. Init => ChargeInv
  BY DEF Init, ChargeInv, CheckInRowsAreKeyed, ChargedAtMostOnce, CheckInRows
<1>2. TypeOK /\ ChargeInv /\ [Next]_vars => ChargeInv'
  <2> SUFFICES ASSUME TypeOK, ChargeInv, [Next]_vars PROVE ChargeInv'
    OBVIOUS
  <2>1. CASE CheckInRows' = CheckInRows
    BY <2>1 DEF ChargeInv, CheckInRowsAreKeyed, ChargedAtMostOnce, CheckInKey
  <2>2. ASSUME NEW ci \in checkIns, NEW c \in Cards,
               Insertable(CheckInRow(ci, c)),
               CheckInRows' = CheckInRows \cup {CheckInRow(ci, c)}
        PROVE  ChargeInv'
    <3> DEFINE row == CheckInRow(ci, c)
    <3>1. row.key = CheckInKey(row.student, row.schedule)
      BY DEF CheckInRow
    <3>2. CheckInRowsAreKeyed'
      BY <2>2, <3>1 DEF ChargeInv, CheckInRowsAreKeyed, CheckInKey
    <3>3. ASSUME NEW x \in CheckInRows, x.student = row.student, x.schedule = row.schedule
          PROVE  FALSE
      <4>1. x \in ledger /\ x.key = row.key
        BY <3>1, <3>3 DEF ChargeInv, CheckInRowsAreKeyed, CheckInRows
      <4> QED
        BY <2>2, <4>1 DEF Insertable
    <3>4. ChargedAtMostOnce'
      BY <2>2, <3>3 DEF ChargeInv, ChargedAtMostOnce
    <3> QED
      BY <3>2, <3>4 DEF ChargeInv
  <2> QED
    BY <2>1, <2>2, CheckInRowsStep
<1> QED
  BY <1>1, <1>2, TypeCorrect, PTL DEF Spec

\* A student is charged at most once per class, for every number of concurrent check-ins.
THEOREM AtMostOneCharge == Spec => []ChargedAtMostOnce
<1>1. ChargeInv => ChargedAtMostOnce
  BY DEF ChargeInv
<1> QED
  BY <1>1, ChargeInvariant, PTL

----------------------------------------------------------------------------
\* A request identity is used once, and an adjustment holds a version its card had: one that
\* committed has been overtaken, because its own UPDATE incremented the version.
AdjustInv ==
    /\ \A x, y \in adjusts : x.id = y.id => x = y
    /\ \A x \in adjusts :
          /\ answer[x.id] # "idle"
          /\ cards[x.card].status # "ABSENT"
          /\ x.version <= cards[x.card].version
          /\ answer[x.id] = "adjusted" => x.version < cards[x.card].version

\* No step of a card takes it out of existence or turns its version back.
LEMMA VersionsGrow ==
    ASSUME TypeOK, [Next]_vars, NEW c \in Cards, cards[c].status # "ABSENT"
    PROVE  cards'[c].status # "ABSENT" /\ cards'[c].version >= cards[c].version
<1>0. cards[c] \in Card
  BY DEF TypeOK
<1>1. CASE cards' = cards
  BY <1>0, <1>1 DEF Card
<1>2. ASSUME NEW ci \in checkIns, Deduct(ci)
      PROVE  cards'[c].status # "ABSENT" /\ cards'[c].version >= cards[c].version
  <2>1. PICK d \in Cards :
          cards' = [cards EXCEPT ![d] = [cards[d] EXCEPT !.remaining = cards[d].remaining - ci.amount]]
    BY <1>2, DeductWrites
  <2> QED
    BY <1>0, <2>1 DEF TypeOK, Card
<1>3. ASSUME NEW aj \in adjusts, ApplyAdjust(aj)
      PROVE  cards'[c].status # "ABSENT" /\ cards'[c].version >= cards[c].version
  BY <1>0, <1>3 DEF ApplyAdjust, TypeOK, Card, Adjust
<1>4. ASSUME NEW d \in Cards, NEW body \in NewCards, CreateCard(d, body)
      PROVE  cards'[c].status # "ABSENT" /\ cards'[c].version >= cards[c].version
  BY <1>0, <1>4, BodiesAssumption DEF CreateCard, TypeOK, Card, CardBody, CardStatus
<1>5. ASSUME NEW d \in Cards, NEW body \in Patches, PatchCard(d, body)
      PROVE  cards'[c].status # "ABSENT" /\ cards'[c].version >= cards[c].version
  <2>1. Patched(cards[d].status, body.status) # "ABSENT"
    BY <1>5, BodiesAssumption, NamesAssumption DEF PatchCard, Patched, CardStatus
  <2> QED
    BY <1>0, <1>5, <2>1 DEF PatchCard, TypeOK, Card
<1> QED
  BY <1>1, <1>2, <1>3, <1>4, <1>5, TablesStep

\* Why a check-in may commit without a deduction.
MayNotDeduct(ci) ==
    \/ ~NeedsDeduct(ci)
    \/ AlreadyDeducted(ci.student, ci.schedule)
    \/ FirstPayers(ci.student, ci.amount) = {}

\* Only the commit of an adjustment answers "adjusted", only a check-in that deducts answers
\* "deducted", only one with a reason not to answers "not_deducted", and no answer becomes
\* "idle" again.
LEMMA AnswersStep ==
    ASSUME TypeOK, [Next]_vars, NEW r \in Requests, answer'[r] # answer[r]
    PROVE  /\ answer'[r] # "idle"
           /\ answer'[r] = "adjusted" => \E aj \in adjusts : ApplyAdjust(aj) /\ aj.id = r
           /\ answer'[r] = "deducted" =>
                 \E ci \in checkIns : CommitCheckIn(ci) /\ Deduct(ci) /\ ci.id = r
                                      /\ ~AlreadyDeducted(ci.student, ci.schedule)
           /\ answer'[r] = "not_deducted" => \E ci \in checkIns : ci.id = r /\ MayNotDeduct(ci)
<1> USE DEF Start, Finish, TypeOK
<1>1. ASSUME NEW ci \in checkIns, CommitCheckIn(ci)
      PROVE  /\ answer'[r] # "idle" /\ answer'[r] # "adjusted"
             /\ answer'[r] = "deducted" =>
                   Deduct(ci) /\ ci.id = r /\ ~AlreadyDeducted(ci.student, ci.schedule)
             /\ answer'[r] = "not_deducted" => ci.id = r /\ MayNotDeduct(ci)
  BY <1>1 DEF CommitCheckIn, CheckIn, MayNotDeduct
<1>2. ASSUME NEW aj \in adjusts, ApplyAdjust(aj)
      PROVE  aj.id = r /\ answer'[r] = "adjusted"
  BY <1>2 DEF ApplyAdjust, Adjust
<1>3. ASSUME NEW aj \in adjusts, RefuseAdjust(aj)
      PROVE  answer'[r] \in {"insufficient", "version_conflict"}
  BY <1>3 DEF RefuseAdjust, Adjust
<1>4. ASSUME NEW q \in Requests, AbortRequest(q)
      PROVE  answer'[r] = "failed"
  BY <1>4 DEF AbortRequest
<1>5. ASSUME NEW ci \in checkIns, TimeoutCheckIn(ci)
      PROVE  answer'[r] = "timeout"
  BY <1>5 DEF TimeoutCheckIn, CheckIn
<1>6. ASSUME NEW q \in Requests, NEW st \in Students, NEW sch \in Schedules, ReadCheckIn(q, st, sch)
      PROVE  answer'[r] = "none"
  BY <1>6 DEF ReadCheckIn
<1>7. ASSUME NEW q \in Requests, NEW c \in Cards, NEW delta \in Deltas, NEW reason \in Reasons,
             NEW sch \in Schedules \cup {NoSchedule}, ReadAdjust(q, c, delta, reason, sch)
      PROVE  answer'[r] = "none"
  BY <1>7 DEF ReadAdjust
<1> QED
  BY <1>1, <1>2, <1>3, <1>4, <1>5, <1>6, <1>7
     DEF Next, CheckInStep, CardStep, vars, CheckOut, CreateLeaveRequest, CancelSchedule,
         CreateCard, PatchCard, Tick

\* The adjustments grow only when one starts, under an unused identity.
LEMMA AdjustsStep ==
    ASSUME TypeOK, [Next]_vars
    PROVE  \/ adjusts' = adjusts
           \/ \E aj : /\ adjusts' = adjusts \cup {aj}
                      /\ aj.id \in Requests /\ answer[aj.id] = "idle" /\ answer'[aj.id] = "none"
                      /\ aj.card \in Cards /\ cards[aj.card].status # "ABSENT"
                      /\ aj.version = cards[aj.card].version /\ cards' = cards /\ aj.delta # 0
<1>1. ASSUME NEW r \in Requests, NEW c \in Cards, NEW delta \in Deltas, NEW reason \in Reasons,
             NEW sch \in Schedules \cup {NoSchedule}, ReadAdjust(r, c, delta, reason, sch)
      PROVE  \E aj : /\ adjusts' = adjusts \cup {aj}
                     /\ aj.id \in Requests /\ answer[aj.id] = "idle" /\ answer'[aj.id] = "none"
                     /\ aj.card \in Cards /\ cards[aj.card].status # "ABSENT"
                     /\ aj.version = cards[aj.card].version /\ cards' = cards /\ aj.delta # 0
  <2> DEFINE aj == [id |-> r, card |-> c, student |-> cards[c].student, delta |-> delta,
                    reason |-> reason, schedule |-> sch, version |-> cards[c].version,
                    before |-> cards[c].remaining]
  <2>1. adjusts' = adjusts \cup {aj}
    BY <1>1 DEF ReadAdjust
  <2>2. aj.id = r /\ aj.card = c /\ aj.version = cards[c].version /\ aj.delta = delta
    OBVIOUS
  <2>3. /\ answer[r] = "idle" /\ answer'[r] = "none"
        /\ cards[c].status # "ABSENT" /\ cards' = cards /\ delta # 0
    BY <1>1 DEF ReadAdjust, Start, TypeOK
  <2> HIDE DEF aj
  <2> QED
    BY <2>1, <2>2, <2>3
<1> QED
  BY <1>1
     DEF Next, CheckInStep, CardStep, vars, ReadCheckIn, CommitCheckIn, TimeoutCheckIn, CheckOut,
         CreateLeaveRequest, CancelSchedule, CreateCard, PatchCard, ApplyAdjust, RefuseAdjust,
         AbortRequest, Tick

\* Of the adjustments that read one version of a card at most one commits.
THEOREM AdjustmentsDoNotCollide == Spec => []OneAdjustmentPerVersion
<1>1. Init => AdjustInv /\ OneAdjustmentPerVersion
  BY DEF Init, AdjustInv, OneAdjustmentPerVersion
<1>2. TypeOK /\ AdjustInv /\ [Next]_vars => AdjustInv'
  <2> SUFFICES ASSUME TypeOK, AdjustInv, [Next]_vars PROVE AdjustInv'
    OBVIOUS
  <2>0. \A x \in adjusts : x.id \in Requests /\ x.card \in Cards /\ x.version \in Nat
                           /\ cards[x.card].version \in Nat
    BY DEF TypeOK, Adjust, Card
  <2>1. ASSUME NEW x \in adjusts
        PROVE  /\ answer'[x.id] # "idle"
               /\ cards'[x.card].status # "ABSENT"
               /\ x.version <= cards'[x.card].version
               /\ answer'[x.id] = "adjusted" => x.version < cards'[x.card].version
    <3>1. cards'[x.card].status # "ABSENT" /\ cards'[x.card].version >= cards[x.card].version
      BY <2>0, VersionsGrow DEF AdjustInv
    <3>2. cards'[x.card].version \in Nat
      BY <2>0, NextTyped DEF TypeOK, Card
    <3>3. answer'[x.id] # "idle"
      BY <2>0, AnswersStep DEF AdjustInv
    <3>4. x.version <= cards'[x.card].version
      BY <2>0, <3>1, <3>2 DEF AdjustInv
    <3>5. ASSUME answer'[x.id] = "adjusted", answer[x.id] # "adjusted"
          PROVE  x.version < cards'[x.card].version
      <4>1. PICK aj \in adjusts : ApplyAdjust(aj) /\ aj.id = x.id
        BY <2>0, <3>5, AnswersStep
      <4>2. aj = x
        BY <4>1 DEF AdjustInv
      <4>3. cards'[x.card].version = x.version + 1
        BY <2>0, <4>1, <4>2 DEF ApplyAdjust, GuardHolds, TypeOK, Card
      <4> QED
        BY <2>0, <4>3
    <3>6. answer'[x.id] = "adjusted" => x.version < cards'[x.card].version
      BY <2>0, <3>1, <3>2, <3>5 DEF AdjustInv
    <3> QED
      BY <3>1, <3>3, <3>4, <3>6
  <2>2. CASE adjusts' = adjusts
    BY <2>1, <2>2 DEF AdjustInv
  <2>3. ASSUME NEW aj, adjusts' = adjusts \cup {aj},
               aj.id \in Requests, answer[aj.id] = "idle", answer'[aj.id] = "none",
               aj.card \in Cards, cards[aj.card].status # "ABSENT",
               aj.version = cards[aj.card].version, cards' = cards
        PROVE  AdjustInv'
    <3>1. \A x \in adjusts : x.id # aj.id
      BY <2>3 DEF AdjustInv
    <3>2. cards[aj.card].version \in Nat
      BY <2>3 DEF TypeOK, Card
    <3> QED
      BY <2>1, <2>3, <3>1, <3>2 DEF AdjustInv
  <2> QED
    BY <2>2, <2>3, AdjustsStep
<1>3. TypeOK /\ AdjustInv /\ OneAdjustmentPerVersion /\ [Next]_vars => OneAdjustmentPerVersion'
  <2> SUFFICES ASSUME TypeOK, AdjustInv, OneAdjustmentPerVersion, [Next]_vars,
                      NEW x \in adjusts', NEW y \in adjusts',
                      x.card = y.card, x.version = y.version,
                      answer'[x.id] = "adjusted", answer'[y.id] = "adjusted"
               PROVE  x = y
    BY DEF OneAdjustmentPerVersion
  <2>1. x \in adjusts /\ y \in adjusts
    BY AdjustsStep
  <2>2. x.id \in Requests /\ y.id \in Requests /\ x.card \in Cards
        /\ x.version \in Nat /\ cards[x.card].version \in Nat
    BY <2>1 DEF TypeOK, Adjust, Card
  <2>3. ASSUME NEW u \in {x, y}, NEW w \in {x, y}, answer[u.id] # "adjusted"
        PROVE  u = w
    <3>1. PICK aj \in adjusts : ApplyAdjust(aj) /\ aj.id = u.id
      BY <2>2, <2>3, AnswersStep
    <3>2. aj = u
      BY <2>1, <3>1 DEF AdjustInv
    <3>3. cards[x.card].version = x.version
      BY <3>1, <3>2 DEF ApplyAdjust, GuardHolds
    <3>4. answer[w.id] # "adjusted"
      BY <2>1, <2>2, <3>3 DEF AdjustInv
    <3>5. PICK ak \in adjusts : ApplyAdjust(ak) /\ ak.id = w.id
      BY <2>2, <3>4, AnswersStep
    <3>6. ak = w
      BY <2>1, <3>5 DEF AdjustInv
    <3>7. answer'[u.id] # answer[u.id] /\ answer'[w.id] # answer[w.id]
      BY <2>3, <3>4
    <3>8. ak.id = aj.id
      BY <2>2, <3>1, <3>2, <3>5, <3>6, <3>7 DEF ApplyAdjust, Finish, TypeOK
    <3> QED
      BY <3>2, <3>6, <3>8 DEF AdjustInv
  <2>4. CASE answer[x.id] = "adjusted" /\ answer[y.id] = "adjusted"
    BY <2>1, <2>4 DEF OneAdjustmentPerVersion
  <2> QED
    BY <2>3, <2>4
<1> QED
  BY <1>1, <1>2, <1>3, TypeCorrect, PTL DEF Spec

----------------------------------------------------------------------------
\* Check-in requests, too, use an identity once.
CheckInIdsInv ==
    /\ \A x, y \in checkIns : x.id = y.id => x = y
    /\ \A x \in checkIns : answer[x.id] # "idle"

\* A check-in that is to deduct was decided PRESENT or LATE.
CheckInsDue == \A ci \in checkIns : NeedsDeduct(ci) => ci.status \in {"PRESENT", "LATE"}

\* The check-ins grow only when one starts, under an unused identity.
LEMMA CheckInsStep ==
    ASSUME TypeOK, [Next]_vars
    PROVE  \/ checkIns' = checkIns
           \/ \E ci : /\ checkIns' = checkIns \cup {ci}
                      /\ ci.id \in Requests /\ answer[ci.id] = "idle" /\ answer'[ci.id] = "none"
                      /\ NeedsDeduct(ci) => ci.status \in {"PRESENT", "LATE"}
<1>1. ASSUME NEW r \in Requests, NEW st \in Students, NEW sch \in Schedules, ReadCheckIn(r, st, sch)
      PROVE  \E ci : /\ checkIns' = checkIns \cup {ci}
                     /\ ci.id \in Requests /\ answer[ci.id] = "idle" /\ answer'[ci.id] = "none"
                     /\ NeedsDeduct(ci) => ci.status \in {"PRESENT", "LATE"}
  <2> DEFINE ci == [id |-> r, student |-> st, schedule |-> sch,
                    status |-> DecidedStatus(st, sch), amount |-> AmountDue(st, sch)]
  <2>1. checkIns' = checkIns \cup {ci}
    BY <1>1 DEF ReadCheckIn
  <2>2. ci.id = r
    OBVIOUS
  <2>3. answer[r] = "idle" /\ answer'[r] = "none"
    BY <1>1 DEF ReadCheckIn, Start, TypeOK
  <2>4. NeedsDeduct(ci) => ci.status \in {"PRESENT", "LATE"}
    BY DEF NeedsDeduct, AmountDue
  <2> HIDE DEF ci
  <2> QED
    BY <2>1, <2>2, <2>3, <2>4
<1> QED
  BY <1>1
     DEF Next, CheckInStep, CardStep, vars, ReadAdjust, CommitCheckIn, TimeoutCheckIn, CheckOut,
         CreateLeaveRequest, CancelSchedule, CreateCard, PatchCard, ApplyAdjust, RefuseAdjust,
         AbortRequest, Tick

\* Every check-in in flight has an identity of its own, and is to deduct only if it attends.
LEMMA CheckInsInvariant == Spec => [](CheckInIdsInv /\ CheckInsDue)
<1>1. Init => CheckInIdsInv /\ CheckInsDue
  BY DEF Init, CheckInIdsInv, CheckInsDue
<1>2. TypeOK /\ CheckInIdsInv /\ CheckInsDue /\ [Next]_vars => CheckInIdsInv' /\ CheckInsDue'
  <2> SUFFICES ASSUME TypeOK, CheckInIdsInv, CheckInsDue, [Next]_vars
               PROVE  CheckInIdsInv' /\ CheckInsDue'
    OBVIOUS
  <2>1. ASSUME NEW x \in checkIns
        PROVE  answer'[x.id] # "idle"
    BY AnswersStep DEF TypeOK, CheckIn, CheckInIdsInv
  <2>2. CASE checkIns' = checkIns
    BY <2>1, <2>2 DEF CheckInIdsInv, CheckInsDue, NeedsDeduct
  <2>3. ASSUME NEW ci, checkIns' = checkIns \cup {ci}, ci.id \in Requests,
               answer[ci.id] = "idle", answer'[ci.id] = "none",
               NeedsDeduct(ci) => ci.status \in {"PRESENT", "LATE"}
        PROVE  CheckInIdsInv' /\ CheckInsDue'
    BY <2>1, <2>3 DEF CheckInIdsInv, CheckInsDue, NeedsDeduct
  <2> QED
    BY <2>2, <2>3, CheckInsStep
<1> QED
  BY <1>1, <1>2, TypeCorrect, PTL DEF Spec

\* A client told "deducted" owns the one charge for its class.
THEOREM DeductedAnswersOwnTheCharge == Spec => []DeductedAnswersAreUnique
<1>1. Init => DeductedAnswersAreUnique
  BY DEF Init, DeductedAnswersAreUnique
<1>2. Spec => []CheckInIdsInv
  BY CheckInsInvariant, PTL
<1>3. TypeOK /\ CheckInIdsInv /\ CheckInRowsAreKeyed /\ DeductedAnswersAreUnique /\ [Next]_vars
         => DeductedAnswersAreUnique'
  <2> SUFFICES ASSUME TypeOK, CheckInIdsInv, CheckInRowsAreKeyed, DeductedAnswersAreUnique, [Next]_vars,
                      NEW x \in checkIns', answer'[x.id] = "deducted"
               PROVE  /\ Charged(x.student, x.schedule)'
                      /\ \A y \in checkIns' : /\ answer'[y.id] = "deducted"
                                              /\ y.student = x.student
                                              /\ y.schedule = x.schedule
                                              => y = x
    BY DEF DeductedAnswersAreUnique
  <2>1. \A y \in checkIns' : answer'[y.id] = "deducted" => y \in checkIns /\ y.id \in Requests
    BY CheckInsStep DEF TypeOK, CheckIn
  <2>2. CheckInRows \subseteq CheckInRows'
    BY CheckInRowsStep
  <2>3. ASSUME NEW y \in checkIns, answer'[y.id] = "deducted", answer[y.id] # "deducted"
        PROVE  /\ Deduct(y)
               /\ Charged(y.student, y.schedule)'
               /\ ~Charged(y.student, y.schedule)
               /\ \A z \in checkIns : answer'[z.id] # answer[z.id] => z = y
    <3>1. PICK ci \in checkIns : /\ CommitCheckIn(ci) /\ Deduct(ci) /\ ci.id = y.id
                                 /\ ~AlreadyDeducted(ci.student, ci.schedule)
      BY <2>1, <2>3, AnswersStep DEF TypeOK, CheckIn
    <3>2. ci = y
      BY <3>1 DEF CheckInIdsInv
    <3>3. Charged(y.student, y.schedule)'
      <4>1. PICK c \in Cards : ledger' = ledger \cup {CheckInRow(y, c)}
        BY <3>1, <3>2, DeductWrites
      <4> DEFINE row == CheckInRow(y, c)
      <4>2. row.key[1] = "checkin" /\ row.student = y.student /\ row.schedule = y.schedule
        BY DEF CheckInRow, CheckInKey
      <4> HIDE DEF row
      <4> QED
        BY <4>1, <4>2 DEF Charged, CheckInRows, row
    <3>4. ~Charged(y.student, y.schedule)
      BY <3>1, <3>2 DEF Charged, CheckInRowsAreKeyed, AlreadyDeducted, CheckInRows
    <3>5. \A z \in checkIns : answer'[z.id] # answer[z.id] => z.id = y.id
      BY <3>1, <3>2 DEF CommitCheckIn, Finish, TypeOK, CheckIn
    <3> QED
      BY <3>1, <3>2, <3>3, <3>4, <3>5 DEF CheckInIdsInv
  <2>4. Charged(x.student, x.schedule)'
    BY <2>1, <2>2, <2>3 DEF DeductedAnswersAreUnique, Charged
  <2>5. ASSUME NEW y \in checkIns', answer'[y.id] = "deducted",
               y.student = x.student, y.schedule = x.schedule
        PROVE  y = x
    <3>1. x \in checkIns /\ y \in checkIns
      BY <2>1, <2>5
    <3>2. CASE answer[x.id] = "deducted" /\ answer[y.id] = "deducted"
      BY <2>5, <3>1, <3>2 DEF DeductedAnswersAreUnique
    <3>3. CASE answer[x.id] # "deducted"
      BY <2>3, <2>5, <3>1, <3>3 DEF DeductedAnswersAreUnique
    <3>4. CASE answer[y.id] # "deducted"
      BY <2>3, <2>5, <3>1, <3>4 DEF DeductedAnswersAreUnique
    <3> QED
      BY <3>2, <3>3, <3>4
  <2> QED
    BY <2>4, <2>5
<1>4. Spec => []CheckInRowsAreKeyed
  BY ChargeInvariant, PTL DEF ChargeInv
<1> QED
  BY <1>1, <1>2, <1>3, <1>4, TypeCorrect, PTL DEF Spec

----------------------------------------------------------------------------
(* What a charge is: which attendance it commits with, which card pays,    *)
(* what its row records, and when a class is not charged.                  *)

\* The step that writes a check-in row is the commit of a check-in that is to deduct: it
\* sets the attendance, and a first payer of the student loses the amount.
LEMMA ChargeStep ==
    ASSUME TypeOK, [Next]_vars, NEW row \in CheckInRows' \ CheckInRows
    PROVE  \E ci \in checkIns, c \in Cards :
              /\ NeedsDeduct(ci)
              /\ UpsertAttendance(ci)
              /\ c \in FirstPayers(ci.student, ci.amount)
              /\ row = CheckInRow(ci, c)
              /\ cards'[c].remaining = cards[c].remaining - ci.amount
<1>1. row \in ledger' /\ row \notin ledger /\ row.key[1] = "checkin"
  BY DEF CheckInRows
<1>2. ASSUME NEW aj \in adjusts, ApplyAdjust(aj)
      PROVE  FALSE
  <2>1. row = AdjustRow(aj)
    BY <1>1, <1>2 DEF ApplyAdjust
  <2> QED
    BY <1>1, <2>1 DEF AdjustRow, AdjustKey
<1>3. PICK ci \in checkIns : CommitCheckIn(ci)
  BY <1>1, <1>2, LedgerStep
<1>4. NeedsDeduct(ci) /\ UpsertAttendance(ci) /\ Deduct(ci)
  BY <1>1, <1>3 DEF CommitCheckIn
<1>5. PICK c \in FirstPayers(ci.student, ci.amount) :
         /\ cards' = [cards EXCEPT ![c].remaining = @ + CheckInRow(ci, c).delta]
         /\ ledger' = ledger \cup {CheckInRow(ci, c)}
  BY <1>4 DEF Deduct
<1>6. c \in Cards
  BY DEF FirstPayers, UsableCards
<1>7. row = CheckInRow(ci, c)
  BY <1>1, <1>5
<1>8. cards'[c].remaining = cards[c].remaining - ci.amount
  BY <1>5, <1>6 DEF CheckInRow, TypeOK, Card, CheckIn
<1> QED
  BY <1>4, <1>6, <1>7, <1>8

\* A first payer is a valid card of the student and holds the amount.
LEMMA PayerIsValid ==
    ASSUME TypeOK, NEW ci \in checkIns, NEW c \in FirstPayers(ci.student, ci.amount)
    PROVE  /\ ValidCardOf(c, ci.student)
           /\ cards[c].remaining >= ci.amount
BY DEF FirstPayers, UsableCards, ValidCardOf, CanPay

\* A charge commits together with an attendance that is PRESENT or LATE, and is paid by a
\* card that belongs to the student and is usable at that moment.
THEOREM ChargesAreAttended == Spec => ChargeIsAttended
<1>1. ASSUME TypeOK, CheckInsDue, [Next]_vars
      PROVE  \A row \in CheckInRows' \ CheckInRows :
                /\ attendance'[<<row.student, row.schedule>>].status \in {"PRESENT", "LATE"}
                /\ ValidCardOf(row.card, row.student)
  <2> SUFFICES ASSUME NEW row \in CheckInRows' \ CheckInRows
               PROVE  /\ attendance'[<<row.student, row.schedule>>].status \in {"PRESENT", "LATE"}
                      /\ ValidCardOf(row.card, row.student)
    OBVIOUS
  <2>1. PICK ci \in checkIns, c \in Cards :
           /\ NeedsDeduct(ci)
           /\ UpsertAttendance(ci)
           /\ c \in FirstPayers(ci.student, ci.amount)
           /\ row = CheckInRow(ci, c)
    BY <1>1, ChargeStep
  <2>2. row.student = ci.student /\ row.schedule = ci.schedule /\ row.card = c
    BY <2>1 DEF CheckInRow
  <2>3. ci.status \in {"PRESENT", "LATE"} /\ <<ci.student, ci.schedule>> \in Pairs
    BY <1>1, <2>1 DEF CheckInsDue, TypeOK, CheckIn, Pairs
  <2>4. attendance'[<<ci.student, ci.schedule>>].status = ci.status
    BY <1>1, <2>1, <2>3 DEF UpsertAttendance, TypeOK
  <2> QED
    BY <1>1, <2>1, <2>2, <2>3, <2>4, PayerIsValid
<1>2. Spec => []CheckInsDue
  BY CheckInsInvariant, PTL
<1> QED
  BY <1>1, <1>2, TypeCorrect, PTL DEF Spec, ChargeIsAttended

\* A nonempty set of numbers has a least one.
LEMMA LeastNumber ==
    ASSUME NEW T, T \subseteq Nat, T # {}
    PROVE  \E x \in T : \A y \in T : x <= y
<1> DEFINE Less == OpToRel(<, Nat)
<1>1. \A x, y \in Nat : <<y, x>> \in Less <=> y < x
  BY DEF OpToRel
<1>2. IsWellFoundedOn(Less, Nat)
  BY NatLessThanWellFounded
<1> HIDE DEF Less
<1>3. PICK x \in T : \A y \in T : <<y, x>> \notin Less
  BY <1>2, WFMin
<1>4. \A y \in T : ~(y < x)
  BY <1>1, <1>3
<1>5. \A y \in T : x <= y
  BY <1>4
<1> QED
  BY <1>5

\* The loop over the cards finds a payer whenever there is one: of the cards that can pay
\* one expires first, although there may be any number of cards.
LEMMA SomePayerIsFirst ==
    ASSUME TypeOK, NEW ci \in checkIns, FirstPayers(ci.student, ci.amount) = {},
           NEW c \in Cards, ValidCardOf(c, ci.student)
    PROVE  cards[c].remaining < ci.amount
<1> DEFINE Payers == {d \in UsableCards(ci.student) : CanPay(d, ci.amount)}
           Ends == {cards[d].validTo : d \in Payers}
<1>1. ci.amount \in Nat /\ cards[c].remaining \in Int
  BY DEF TypeOK, CheckIn, Card
<1>2. SUFFICES ASSUME c \in Payers PROVE FALSE
  BY <1>1 DEF UsableCards, ValidCardOf, CanPay
<1>3. Ends \subseteq Nat /\ Ends # {}
  <2>1. \A d \in Payers : cards[d].validTo \in Nat
    BY DEF UsableCards, TypeOK, Card
  <2>2. cards[c].validTo \in Ends
    BY <1>2
  <2> QED
    BY <2>1, <2>2
<1>4. PICK first \in Ends : \A other \in Ends : first <= other
  BY <1>3, LeastNumber
<1>5. PICK d \in Payers : first = cards[d].validTo
  OBVIOUS
<1>6. d \in FirstPayers(ci.student, ci.amount)
  BY <1>4, <1>5 DEF FirstPayers
<1> QED
  BY <1>6

\* A check-in answered deducted = false rode free only because its class was charged or no
\* valid card of the student held the amount.
THEOREM NobodyRidesFree == Spec => NoFreeRide
<1>1. ASSUME TypeOK, CheckInIdsInv, [Next]_vars
      PROVE  \A ci \in checkIns :
                /\ NeedsDeduct(ci)
                /\ answer[ci.id] # "not_deducted"
                /\ answer'[ci.id] = "not_deducted"
                => \/ AlreadyDeducted(ci.student, ci.schedule)
                   \/ \A c \in Cards : ValidCardOf(c, ci.student) => cards[c].remaining < ci.amount
  <2> SUFFICES ASSUME NEW ci \in checkIns, NeedsDeduct(ci),
                      answer[ci.id] # "not_deducted", answer'[ci.id] = "not_deducted",
                      ~AlreadyDeducted(ci.student, ci.schedule)
               PROVE  \A c \in Cards : ValidCardOf(c, ci.student) => cards[c].remaining < ci.amount
    OBVIOUS
  <2>1. ci.id \in Requests
    BY <1>1 DEF TypeOK, CheckIn
  <2>2. PICK other \in checkIns : other.id = ci.id /\ MayNotDeduct(other)
    BY <1>1, <2>1, AnswersStep
  <2>3. other = ci
    BY <1>1, <2>2 DEF CheckInIdsInv
  <2>4. FirstPayers(ci.student, ci.amount) = {}
    BY <2>2, <2>3 DEF MayNotDeduct
  <2> QED
    BY <1>1, <2>4, SomePayerIsFirst
<1>2. Spec => []CheckInIdsInv
  BY CheckInsInvariant, PTL
<1> QED
  BY <1>1, <1>2, TypeCorrect, PTL DEF Spec, NoFreeRide

----------------------------------------------------------------------------
(* The tables behave as accounts of lessons, and nothing but a PATCH that  *)
(* carries remainingLessons moves a balance without a ledger row.          *)

\* A PATCH writes no row and closes no card; it moves the balance of its own card only, and
\* only when its body carries one.
LEMMA PatchedCard ==
    ASSUME TypeOK, NEW c \in Cards, NEW body \in Patches, PatchCard(c, body)
    PROVE  /\ cards[c].status # "ABSENT"
           /\ \A d \in Cards : cards'[d].status = "ABSENT" <=> cards[d].status = "ABSENT"
           /\ \A d \in Cards \ {c} : cards'[d].remaining = cards[d].remaining
           /\ body.remaining = Keep => cards'[c].remaining = cards[c].remaining
           /\ ledger' = ledger
<1>1. body.remaining = Keep => Patched(cards[c].remaining, body.remaining) = cards[c].remaining
  BY DEF Patched
<1>2. cards[c].status # "ABSENT" /\ Patched(cards[c].status, body.status) # "ABSENT"
  BY BodiesAssumption, NamesAssumption DEF PatchCard, Patched, CardStatus
<1> QED
  BY <1>1, <1>2 DEF PatchCard, TypeOK

\* What a deduction does to one card.
LEMMA DeductedCard ==
    ASSUME TypeOK, NEW ci \in checkIns, Deduct(ci)
    PROVE  \E c \in Cards :
              /\ cards[c].status = "ACTIVE"
              /\ Insertable(CheckInRow(ci, c))
              /\ CheckInRow(ci, c) \in Row
              /\ ledger' = ledger \cup {CheckInRow(ci, c)}
              /\ cards'[c].remaining = cards[c].remaining - ci.amount
              /\ \A d \in Cards : cards'[d].status = cards[d].status
              /\ \A d \in Cards \ {c} : cards'[d].remaining = cards[d].remaining
<1>1. PICK c \in Cards :
         /\ c \in UsableCards(ci.student)
         /\ Insertable(CheckInRow(ci, c))
         /\ CheckInRow(ci, c) \in Row
         /\ ledger' = ledger \cup {CheckInRow(ci, c)}
         /\ cards' = [cards EXCEPT ![c] = [cards[c] EXCEPT !.remaining = cards[c].remaining - ci.amount]]
  BY DeductWrites
<1>2. cards[c].status = "ACTIVE"
  BY <1>1 DEF UsableCards
<1>3. /\ cards'[c].remaining = cards[c].remaining - ci.amount
      /\ \A d \in Cards : cards'[d].status = cards[d].status
      /\ \A d \in Cards \ {c} : cards'[d].remaining = cards[d].remaining
  BY <1>1 DEF TypeOK, Card
<1> QED
  BY <1>1, <1>2, <1>3

\* What an adjustment does to one card.
LEMMA AdjustedCard ==
    ASSUME TypeOK, NEW aj \in adjusts, ApplyAdjust(aj)
    PROVE  /\ aj.card \in Cards
           /\ ledger' = ledger \cup {AdjustRow(aj)}
           /\ Insertable(AdjustRow(aj))
           /\ cards'[aj.card].remaining = cards[aj.card].remaining + aj.delta
           /\ \A d \in Cards : cards'[d].status = cards[d].status
           /\ \A d \in Cards \ {aj.card} : cards'[d].remaining = cards[d].remaining
BY DEF ApplyAdjust, TypeOK, Card, Adjust

----------------------------------------------------------------------------
\* Every change of an existing card's balance is one new ledger row of that card or the
\* remainingLessons of a PATCH, and rows are never changed or removed.
THEOREM BalancesAreExplained == Spec => OnlyPatchIsSilent
<1>1. TypeOK /\ [Next]_vars => JournaledStep
  <2> SUFFICES ASSUME TypeOK, [Next]_vars
               PROVE  /\ ledger \subseteq ledger'
                      /\ \A d \in Cards :
                            cards[d].status # "ABSENT" => Journaled(d) \/ SetByPatch(d)
    BY DEF JournaledStep
  <2>1. ASSUME NEW row, row \notin ledger, ledger' = ledger \cup {row}, row.card \in Cards,
               cards'[row.card].remaining = cards[row.card].remaining + row.delta,
               \A d \in Cards \ {row.card} : cards'[d].remaining = cards[d].remaining,
               NEW d \in Cards
        PROVE  Journaled(d)
    <3>1. CASE d = row.card
      <4>1. {x \in ledger' \ ledger : x.card = d} = {row}
        BY <2>1, <3>1
      <4> QED
        BY <2>1, <3>1, <4>1 DEF Journaled
    <3>2. CASE d # row.card
      <4>1. {x \in ledger' \ ledger : x.card = d} = {}
        BY <2>1, <3>2
      <4> QED
        BY <2>1, <3>2, <4>1 DEF Journaled
    <3> QED
      BY <3>1, <3>2
  <2>2. ASSUME NEW ci \in checkIns, Deduct(ci)
        PROVE  ledger \subseteq ledger' /\ \A d \in Cards : Journaled(d)
    <3>1. PICK c \in Cards :
             /\ Insertable(CheckInRow(ci, c))
             /\ ledger' = ledger \cup {CheckInRow(ci, c)}
             /\ cards'[c].remaining = cards[c].remaining - ci.amount
             /\ \A d \in Cards \ {c} : cards'[d].remaining = cards[d].remaining
      BY <2>2, DeductedCard
    <3> DEFINE row == CheckInRow(ci, c)
    <3>2. row.card = c /\ row.delta = -ci.amount
      BY DEF CheckInRow
    <3>3. row \notin ledger
      BY <3>1 DEF Insertable
    <3>4. cards'[c].remaining = cards[c].remaining + row.delta
      BY <3>1, <3>2 DEF TypeOK, CheckIn, Card
    <3> HIDE DEF row
    <3> QED
      BY <2>1, <3>1, <3>2, <3>3, <3>4 DEF row
  <2>3. ASSUME NEW aj \in adjusts, ApplyAdjust(aj)
        PROVE  ledger \subseteq ledger' /\ \A d \in Cards : Journaled(d)
    <3> DEFINE row == AdjustRow(aj)
    <3>1. row.card = aj.card /\ row.delta = aj.delta
      BY DEF AdjustRow
    <3>2. row \notin ledger
      BY <2>3, AdjustedCard DEF Insertable
    <3>3. /\ row.card \in Cards
          /\ ledger' = ledger \cup {row}
          /\ cards'[row.card].remaining = cards[row.card].remaining + row.delta
          /\ \A d \in Cards \ {row.card} : cards'[d].remaining = cards[d].remaining
      BY <2>3, <3>1, AdjustedCard
    <3> HIDE DEF row
    <3> QED
      BY <2>1, <3>2, <3>3
  <2>4. ASSUME NEW c \in Cards, NEW body \in NewCards, CreateCard(c, body)
        PROVE  /\ ledger' = ledger
               /\ \A d \in Cards : cards[d].status # "ABSENT" => cards'[d].remaining = cards[d].remaining
    BY <2>4 DEF CreateCard, TypeOK
  <2>5. ASSUME ledger' = ledger, NEW d \in Cards, cards'[d].remaining = cards[d].remaining
        PROVE  Journaled(d)
    BY <2>5 DEF Journaled
  <2>6. ASSUME NEW c \in Cards, NEW body \in Patches, PatchCard(c, body)
        PROVE  ledger' = ledger /\ \A d \in Cards : Journaled(d) \/ SetByPatch(d)
    <3>1. SUFFICES ASSUME NEW d \in Cards, cards'[d].remaining # cards[d].remaining
                   PROVE  SetByPatch(d)
      BY <2>5, <2>6, PatchedCard
    <3>2. d = c /\ body.remaining # Keep /\ ledger' = ledger
      BY <2>6, <3>1, PatchedCard
    <3> QED
      BY <2>6, <3>2 DEF SetByPatch
  <2> QED
    BY <2>2, <2>3, <2>4, <2>5, <2>6, TablesStep
<1> QED
  BY <1>1, TypeCorrect, PTL DEF Spec, OnlyPatchIsSilent

----------------------------------------------------------------------------
\* An adjustment in flight changes something, on a card that exists.
AdjustsAreMeant ==
    \A aj \in adjusts : aj.delta # 0 /\ cards[aj.card].status # "ABSENT"

LEMMA AdjustsMeant == Spec => []AdjustsAreMeant
<1>1. Init => AdjustsAreMeant
  BY DEF Init, AdjustsAreMeant
<1>2. TypeOK /\ AdjustsAreMeant /\ [Next]_vars => AdjustsAreMeant'
  <2> SUFFICES ASSUME TypeOK, AdjustsAreMeant, [Next]_vars PROVE AdjustsAreMeant'
    OBVIOUS
  <2>1. \A aj \in adjusts : aj.delta # 0 /\ cards'[aj.card].status # "ABSENT"
    BY VersionsGrow DEF AdjustsAreMeant, TypeOK, Adjust
  <2> QED
    BY <2>1, AdjustsStep DEF AdjustsAreMeant
<1> QED
  BY <1>1, <1>2, TypeCorrect, PTL DEF Spec

\* Every transaction of attendance and memberships opens, charges or adjusts one account of
\* LessonAccount, or moves none; a PATCH of remainingLessons adjusts one.
THEOREM LedgerImplementsAccount == Spec => ImplementsAccount
<1> DEFINE opened == {c \in Cards : cards[c].status # "ABSENT"}
           left == [c \in Cards |-> cards[c].remaining]
           paid == {<<row.student, row.schedule>> : row \in CheckInRows}
<1>1. Init => Account!Init
  BY DEF Init, Account!Init, CheckInRows
<1>2. TypeOK /\ ChargeInv /\ AdjustsAreMeant /\ NoOverdraft /\ [Next]_vars
        => [Account!Next]_(Account!vars)
  <2> SUFFICES ASSUME TypeOK, ChargeInv, AdjustsAreMeant, NoOverdraft, [Next]_vars
               PROVE  [Account!Next]_(Account!vars)
    OBVIOUS
  <2>0. NoOverdraft'
    BY OverdraftStep
  <2>1. ASSUME NEW c \in Cards,
               \A d \in Cards \ {c} : cards'[d].remaining = cards[d].remaining
        PROVE  Account!Moves(c)
    BY <2>0, <2>1 DEF Account!Moves, NoOverdraft
  <2>2. ASSUME NEW ci \in checkIns, NeedsDeduct(ci), Deduct(ci)
        PROVE  Account!Next
    <3>1. PICK c \in Cards :
             /\ cards[c].status = "ACTIVE"
             /\ Insertable(CheckInRow(ci, c))
             /\ ledger' = ledger \cup {CheckInRow(ci, c)}
             /\ cards'[c].remaining = cards[c].remaining - ci.amount
             /\ \A d \in Cards : cards'[d].status = cards[d].status
             /\ \A d \in Cards \ {c} : cards'[d].remaining = cards[d].remaining
      BY <2>2, DeductedCard
    <3> DEFINE row == CheckInRow(ci, c)
    <3>2. row.key[1] = "checkin" /\ row.student = ci.student /\ row.schedule = ci.schedule
          /\ row.key = CheckInKey(ci.student, ci.schedule)
      BY DEF CheckInRow, CheckInKey
    <3>3. ci.student \in Students /\ ci.schedule \in Schedules /\ ci.amount \in Nat
      BY DEF TypeOK, CheckIn
    <3>4. ci.amount > 0
      BY <2>2 DEF NeedsDeduct
    <3> HIDE DEF row
    <3>5. CheckInRows' = CheckInRows \cup {row}
      BY <3>1, <3>2 DEF CheckInRows, row
    <3>6. paid' = paid \cup {<<ci.student, ci.schedule>>}
      BY <3>2, <3>5
    <3>7. <<ci.student, ci.schedule>> \notin paid
      BY <3>1, <3>2 DEF Insertable, ChargeInv, CheckInRowsAreKeyed, CheckInRows, row
    <3>8. left'[c] < left[c]
      BY <3>1, <3>3, <3>4 DEF TypeOK, Card
    <3>9. Account!Charge(c, ci.student, ci.schedule)
      BY <2>1, <3>1, <3>6, <3>7, <3>8 DEF Account!Charge
    <3> QED
      BY <3>3, <3>9 DEF Account!Next
  <2>3. ASSUME NEW aj \in adjusts, ApplyAdjust(aj)
        PROVE  Account!Next
    <3>1. /\ aj.card \in Cards
          /\ ledger' = ledger \cup {AdjustRow(aj)}
          /\ cards'[aj.card].remaining = cards[aj.card].remaining + aj.delta
          /\ \A d \in Cards : cards'[d].status = cards[d].status
          /\ \A d \in Cards \ {aj.card} : cards'[d].remaining = cards[d].remaining
      BY <2>3, AdjustedCard
    <3>2. CheckInRows' = CheckInRows
      BY <3>1 DEF CheckInRows, AdjustRow, AdjustKey
    <3>3. left'[aj.card] # left[aj.card]
      <4>1. aj.delta \in Int /\ aj.delta # 0 /\ cards[aj.card].remaining \in Int
        BY <3>1 DEF TypeOK, Card, Adjust, AdjustsAreMeant
      <4>2. left[aj.card] = cards[aj.card].remaining /\ left'[aj.card] = cards'[aj.card].remaining
        BY <3>1
      <4> QED
        BY <3>1, <4>1, <4>2
    <3>4. Account!Adjust(aj.card)
      BY <2>1, <3>1, <3>2, <3>3 DEF Account!Adjust, AdjustsAreMeant
    <3> QED
      BY <3>1, <3>4 DEF Account!Next
  <2>4. ASSUME NEW c \in Cards, NEW body \in NewCards, CreateCard(c, body)
        PROVE  Account!Next
    <3>1. /\ cards[c].status = "ABSENT" /\ cards'[c].status # "ABSENT"
          /\ \A d \in Cards \ {c} : cards'[d] = cards[d]
          /\ ledger' = ledger
      BY <2>4, BodiesAssumption DEF CreateCard, TypeOK, CardBody, CardStatus
    <3>2. Account!Open(c)
      BY <2>1, <3>1 DEF Account!Open, CheckInRows
    <3> QED
      BY <3>2 DEF Account!Next
  <2>5. ASSUME NEW c \in Cards, NEW body \in Patches, PatchCard(c, body)
        PROVE  Account!Next \/ UNCHANGED Account!vars
    <3>1. /\ opened' = opened
          /\ CheckInRows' = CheckInRows
          /\ \A d \in Cards \ {c} : cards'[d].remaining = cards[d].remaining
          /\ c \in opened
      BY <2>5, PatchedCard DEF CheckInRows
    <3>2. CASE cards'[c].remaining = cards[c].remaining
      BY <3>1, <3>2 DEF Account!vars
    <3>3. CASE cards'[c].remaining # cards[c].remaining
      <4>1. Account!Adjust(c)
        BY <2>1, <3>1, <3>3 DEF Account!Adjust
      <4> QED
        BY <4>1 DEF Account!Next
    <3> QED
      BY <3>2, <3>3
  <2>6. CASE cards' = cards /\ ledger' = ledger
    BY <2>6 DEF Account!vars, CheckInRows
  <2> QED
    BY <2>2, <2>3, <2>4, <2>5, <2>6, TablesStep
<1> QED
  BY <1>1, <1>2, TypeCorrect, ChargeInvariant, AdjustsMeant, BalancesStayNonNegative,
     PTL DEF Spec, ImplementsAccount, Account!Spec
=============================================================================
