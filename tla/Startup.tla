------------------------------- MODULE Startup -------------------------------
(***************************************************************************)
(* From the environment to a server that listens: defaults, the production *)
(* checks, the guards in front of the API documents, and the lifetime of   *)
(* tokens (common/config, common/swagger, swagger.ts).                     *)
(*                                                                         *)
(* A secret is abstracted to its quality: "unset" also stands for blank;   *)
(* "listed" is one of the values that env.constants.ts names, or a URL     *)
(* with the password `password'; "short" is below its minimum length;      *)
(* "shipped" is any other value that stands in the repository's files      *)
(* (.env.example, docker-compose.yml, ci.yml) and is long enough; "strong" *)
(* is the rest.                                                            *)
(***************************************************************************)
EXTENDS Integers

Qualities == {"unset", "listed", "short", "shipped", "strong"}

\* The secrets production asks for, and the one it checks only if it is set.
Required == {"JWT_SECRET", "PAYMENT_WEBHOOK_SECRET", "DATABASE_URL", "REDIS_PASSWORD",
             "MYSQL_ROOT_PASSWORD"}
Secrets == Required \cup {"MYSQL_PASSWORD"}

\* The ones that have a value outside production even if nobody sets one.
Defaulted == {"JWT_SECRET", "PAYMENT_WEBHOOK_SECRET", "DATABASE_URL"}

Production(env) == env.NODE_ENV = "production"

\* parseBoolFlag: what is neither a yes nor a no counts as not given.
Flag(value, fallback) ==
    CASE value = "yes" -> TRUE
      [] value = "no" -> FALSE
      [] OTHER -> fallback

\* The value in use.
Secret(env, name) ==
    IF env.secrets[name] # "unset" THEN env.secrets[name]
    ELSE IF name \in Defaulted /\ ~ Production(env) THEN "listed" ELSE "unset"

DocsEnabled(env) == Flag(env.docs, ~ Production(env))

InternalOnly(env) == Flag(env.internal, Production(env) /\ DocsEnabled(env))

\* isInsecureSecret: the list and the length, and no other value of the repository's.
Insecure(value) == value \in {"listed", "short"}

\* Fault: the secret is checked, but not that there is one.
AcceptedIfAny(env) ==
    Production(env) => \A n \in Secrets : ~ Insecure(Secret(env, n))

\* validateProductionSecrets: production starts only if this holds.
Accepted(env) ==
    Production(env) =>
        /\ \A n \in Required : Secret(env, n) # "unset"
        /\ \A n \in Secrets : ~ Insecure(Secret(env, n))
        /\ DocsEnabled(env) => /\ env.user \notin {"unset", "listed"}  \* minimum length 1
                               /\ env.password # "unset" /\ ~ Insecure(env.password)

HasBasicAuth(env) == env.user # "unset" /\ env.password # "unset"

\* applySwaggerGuards: the handlers mounted on the documents' three paths.
Guards(env) ==
    (IF InternalOnly(env) THEN {"network"} ELSE {})
      \cup (IF HasBasicAuth(env) THEN {"password"} ELSE {})

\* Whether setupSwagger lets the start go on.
DocsMount(env) == DocsEnabled(env) /\ Production(env) => HasBasicAuth(env)

\* A number of seconds, or an amount with a unit (JWT_EXPIRES_IN).
Seconds(unit) ==
    CASE unit = "s" -> 1 [] unit = "m" -> 60 [] unit = "h" -> 3600
      [] unit = "d" -> 86400 [] unit = "w" -> 7 * 86400

\* How long jsonwebtoken makes a token live; a bare number is a number of seconds.
TokenSeconds(expiry) ==
    IF expiry.unit = "none" THEN expiry.amount ELSE expiry.amount * Seconds(expiry.unit)

\* Fault: minutes are taken for seconds.
BlacklistSecondsOfMinutes(expiry) ==
    IF expiry.unit \in {"s", "m"} THEN expiry.amount ELSE 7 * 86400

\* getJwtExpiresInSeconds: how long a logged-out token stays on the blacklist.
BlacklistSeconds(expiry) ==
    CASE expiry.unit = "none" /\ expiry.amount > 0 -> expiry.amount
      [] expiry.unit \in {"s", "m", "h", "d"} -> expiry.amount * Seconds(expiry.unit)
      [] OTHER -> 7 * 86400
=============================================================================
