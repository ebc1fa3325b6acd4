----------------------------- MODULE CheckInGate -----------------------------
(***************************************************************************)
(* What stands between a check-in and its transaction: the leave, the      *)
(* end of the class, the QR code, the geofence and the grace period        *)
(* (attendance.service, checkIn and issueQrToken).  LessonLedger has the   *)
(* transaction that follows.  Times are minutes, distances are metres.     *)
(***************************************************************************)
EXTENDS Integers

CONSTANT None  \* the code the client does not send, the fence a venue does not have

TokenGrace == 30

\* issueQrToken: the instant from which the code of a schedule is refused.
ExpiryOf(schedule) == schedule.endsAt + TokenGrace

\* What the QR gate says of the code shown, "" if it lets the request pass.
QrRefusal(request, now) ==
    IF request.code = None THEN "no code"
    ELSE IF ~ (request.code > now) THEN "bad code" ELSE ""

\* What the GPS gate says of the position sent.
GpsRefusal(schedule, request) ==
    IF schedule.fence \in {None, 0} THEN "no fence"
    ELSE IF request.distance = None THEN "no position"
    ELSE IF request.distance > schedule.fence THEN "too far" ELSE ""

GateRefusal(schedule, request, now) ==
    CASE request.method = "QR" -> QrRefusal(request, now)
      [] request.method = "GPS" -> GpsRefusal(schedule, request)
      [] OTHER -> ""

\* Fault: the end of the class is tested after the gates and the grace period.
VerdictLateFirst(schedule, leave, request, now) ==
    IF schedule.cancelled THEN "cancelled"
    ELSE IF leave THEN "LEAVE"
    ELSE IF GateRefusal(schedule, request, now) # "" THEN GateRefusal(schedule, request, now)
    ELSE IF now > schedule.startsAt + schedule.grace THEN "LATE"
    ELSE IF now > schedule.endsAt THEN "ABSENT"
    ELSE "PRESENT"

\* The status a check-in at this instant records, or the reason it is refused for.
Verdict(schedule, leave, request, now) ==
    IF schedule.cancelled THEN "cancelled"
    ELSE IF leave THEN "LEAVE"
    ELSE IF now > schedule.endsAt THEN "ABSENT"
    ELSE IF GateRefusal(schedule, request, now) # "" THEN GateRefusal(schedule, request, now)
    ELSE IF now > schedule.startsAt + schedule.grace THEN "LATE"
    ELSE "PRESENT"

Statuses == {"PRESENT", "LATE", "ABSENT", "LEAVE"}
=============================================================================
