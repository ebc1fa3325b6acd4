------------------------------ MODULE RequestLog ------------------------------
(***************************************************************************)
(* The records one HTTP request leaves (access-behavior.interceptor, the   *)
(* loggers' levels, all-exceptions.filter).  A record is its channel and   *)
(* its type.  Page-visit counters are left out.                            *)
(***************************************************************************)

Mutations == {"POST", "PUT", "PATCH", "DELETE"}

\* Fault: the administrator's record is only the fallback for handlers without a description.
AuditRecordsOr(q) ==
    IF q.described THEN {<<"audit", "audit">>}
    ELSE IF q.role = "ADMIN" /\ q.method \in Mutations THEN {<<"audit", "admin_audit">>}
    ELSE {}

\* @AuditAction and the unannotated writes of an administrator.
AuditRecords(q) ==
    (IF q.described THEN {<<"audit", "audit">>} ELSE {})
      \cup (IF q.role = "ADMIN" /\ (q.described \/ q.method \in Mutations)
            THEN {<<"audit", "admin_audit">>} ELSE {})

\* finalize: on success and on failure alike.
Finalized(q) ==
    IF q.health THEN {}
    ELSE {<<"access", "http_access">>}
           \cup (IF q.slow THEN {<<"app", "slow_http">>} ELSE {})
           \cup AuditRecords(q)
           \cup (IF q.explicit \/ q.method \in Mutations
                 THEN {<<"behavior", "user_behavior">>} ELSE {})

\* AllExceptionsFilter: logClientError writes at "warn", which the error channel drops.
Caught(q) == IF q.outcome = "server_error" THEN {<<"error", "server_error">>} ELSE {}

\* How far a request comes: a guard refuses it, or IdempotencyInterceptor, which is bound
\* outside the log, answers it itself (a missing key, a request in progress, a replay), or it
\* comes to its handler.
Records(q) == (IF q.reached = "handler" THEN Finalized(q) ELSE {}) \cup Caught(q)
=============================================================================
