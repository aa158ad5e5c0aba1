------------------------------ MODULE Startup -------------------------------
(***************************************************************************)
(* A deployment from docker-entrypoint.sh to its replies.  Each container   *)
(* migrates, indexes and serves, and goes on to the next of the three        *)
(* whether the last one worked or not; the database comes and goes, and      *)
(* several containers may start against it at once.  A serving container     *)
(* answers /healthz, the Ask page and /api/ask over pooled connections whose *)
(* search settings are made once, when a connection is opened.               *)
(*                                                                         *)
(* How a load writes its rows is module Loader; here it commits or it does   *)
(* not.  What a question is answered is module Ask; here it is one search     *)
(* that runs or fails, with well-formed parameters and no load committing     *)
(* between its SELECTs (Ask has the error that makes).                        *)
(***************************************************************************)
EXTENDS Integers

CONSTANTS
    Containers,
    WithDatabase,   \* those given PAG_DATABASE_URL; the others find nothing at the default one
    SkipSeed,       \* those started with PAG_SKIP_SEED=true
    Asked,          \* bound: those that are sent requests
    MaxOutages,     \* bound: times the database goes away
    MaxRestarts     \* bound: times containers are replaced

Head == 2                  \* migrations 0001 and 0002; 0 is an empty database
Versions == 0..Head
Kinds == {"health", "page", "api"}

ASSUME StartupAssumption ==
    /\ WithDatabase \subseteq Containers /\ SkipSeed \subseteq Containers
    /\ Asked \subseteq Containers
    /\ MaxOutages \in Nat /\ MaxRestarts \in Nat

VARIABLES
    up,          \* the database answers
    schema,      \* the migration it is at
    indexed,     \* its chunk table has rows
    step,        \* where the entrypoint of each container is
    version,     \* what alembic read before it began to migrate
    pool,        \* the connection each server process keeps
    request,     \* the request under way; two would share nothing but the database
    reply,       \* the status the last one got, 0 while another is under way
    health,      \* the last status each /healthz sent, 0 before the first
    searched,    \* history: how the last request searched, for the properties
    outages, restarts

database == <<up, schema, indexed, outages>>
serving == <<pool, request, reply, health, searched>>
vars == <<database, step, version, serving, restarts>>

NoConnection == [alive |-> FALSE, session |-> FALSE, transaction |-> FALSE]
Connections == [alive : BOOLEAN, session : BOOLEAN, transaction : BOOLEAN]

\* excused: the database was away, or behind, at some moment of the request.
NoRequest == [at |-> "nobody", kind |-> "none", phase |-> "none", excused |-> FALSE]
Requests ==
    [at : Asked, kind : Kinds, phase : {"begin", "run", "variants"}, excused : BOOLEAN]

At(c, kinds, phase) ==
    request.at = c /\ request.kind \in kinds /\ request.phase = phase

Reachable(c) == up /\ c \in WithDatabase

FirstStep(c) == IF c \in SkipSeed THEN "serve" ELSE "migrate"

\* A database may be new, or as an older image left it.
Init ==
    /\ up \in BOOLEAN
    /\ schema \in Versions
    /\ indexed \in BOOLEAN
    /\ schema = 0 => ~indexed
    /\ outages = 0
    /\ step = [c \in Containers |-> FirstStep(c)]
    /\ version = [c \in Containers |-> 0]
    /\ pool = [c \in Containers |-> NoConnection]
    /\ request = NoRequest
    /\ reply = 0
    /\ health = [c \in Containers |-> 0]
    /\ searched = "unsearched"
    /\ restarts = 0

-----------------------------------------------------------------------------
(* The entrypoint *)

Goto(c, s) == step' = [step EXCEPT ![c] = s]

\* Mutant: set -e, so that a failed command stops the container.
StopsOnFailure(c, next) == Goto(c, "stopped")

\* "|| echo": a failed command is logged, and the script goes on.
Failed(c, next) == Goto(c, next)

\* alembic connects and reads alembic_version.
ReadVersion(c) ==
    /\ step[c] = "migrate"
    /\ IF Reachable(c)
         THEN version' = [version EXCEPT ![c] = schema] /\ Goto(c, "upgrade")
         ELSE Failed(c, "wait") /\ UNCHANGED version
    /\ UNCHANGED <<database, serving, restarts>>

\* The missing migrations run in one transaction.  Its DDL waits for the other container's and
\* then finds the table or the column already there; it may also be refused for any reason.
Upgrade(c) ==
    /\ step[c] = "upgrade"
    /\ \/ /\ Reachable(c) /\ (schema = version[c] \/ version[c] = Head)
          /\ schema' = Head
          /\ Goto(c, "wait")
       \/ /\ version[c] # Head \/ ~Reachable(c)
          /\ UNCHANGED schema
          /\ Failed(c, "wait")
    /\ UNCHANGED <<up, indexed, outages, version, serving, restarts>>

\* wait_for_database: it answers, or the sixty seconds end first.
WaitForDatabase(c) ==
    /\ step[c] = "wait"
    /\ IF Reachable(c) THEN Goto(c, "count") ELSE Failed(c, "serve")
    /\ UNCHANGED <<database, version, serving, restarts>>

\* --skip-if-populated: the count needs the table, not its newest columns.
CountIndexed(c) ==
    /\ step[c] = "count"
    /\ CASE ~Reachable(c) \/ schema = 0 -> Failed(c, "serve")
         [] Reachable(c) /\ schema > 0 /\ indexed -> Goto(c, "serve")
         [] OTHER -> Goto(c, "load")
    /\ UNCHANGED <<database, version, serving, restarts>>

\* The load inserts every column, so it needs the head; it may fail for reasons of its own.
Load(c) ==
    /\ step[c] = "load"
    /\ \/ Reachable(c) /\ schema = Head /\ indexed' = TRUE /\ Goto(c, "serve")
       \/ UNCHANGED indexed /\ Failed(c, "serve")
    /\ UNCHANGED <<up, schema, outages, version, serving, restarts>>

Start(c) == ReadVersion(c) \/ Upgrade(c) \/ WaitForDatabase(c) \/ CountIndexed(c) \/ Load(c)

-----------------------------------------------------------------------------
(* Sessions *)

\* Mutant: the SETs are made in the connection's first transaction.
OpenedInTransaction == [alive |-> TRUE, session |-> FALSE, transaction |-> TRUE]

\* _set_guc runs in autocommit: the settings are the session's.
Opened == [alive |-> TRUE, session |-> TRUE, transaction |-> FALSE]

Configured(k) == k.session \/ k.transaction

\* PostgreSQL keeps a SET of a transaction that commits and undoes one that rolls back.
Committed(k) == [k EXCEPT !.session = Configured(k), !.transaction = FALSE]
RolledBack(k) == [k EXCEPT !.transaction = FALSE]

\* The database is asked for one more thing, in the columns of the given migration.
StatementRuns(c, migration) == pool[c].alive /\ schema >= migration

\* The reply is sent, session_scope ends, and the connection goes back to the pool.
Send(c, status, connection) ==
    /\ reply' = status
    /\ request' = NoRequest
    /\ pool' = [pool EXCEPT ![c] = connection]

\* The request has another statement to run.
GoOnTo(phase) ==
    /\ request' = [request EXCEPT !.phase = phase]
    /\ UNCHANGED <<pool, reply>>

\* An exception nobody handles ends in a rollback and a server error.
ServerError(c) == Send(c, 500, RolledBack(pool[c]))

Receive(c, kind) ==
    /\ c \in Asked
    /\ step[c] = "serve"
    /\ request = NoRequest
    /\ request' = [at |-> c, kind |-> kind, phase |-> "begin",
                   excused |-> ~Reachable(c) \/ schema < Head]
    /\ reply' = 0
    /\ searched' = "unsearched"
    /\ UNCHANGED <<database, step, version, pool, health, restarts>>

\* optional_db: no PAG_DATABASE_URL, no session; the page says so and so does the health check.
WithoutIndex(c) ==
    /\ At(c, {"health", "page"}, "begin")
    /\ c \notin WithDatabase
    /\ LET status == IF request.kind = "health" THEN 503 ELSE 200
       IN  /\ Send(c, status, pool[c])
           /\ health' = [health EXCEPT ![c] = IF request.kind = "health" THEN 503 ELSE @]
    /\ UNCHANGED <<database, step, version, searched, restarts>>

\* Mutant: the pool hands out what it has, without pool_pre_ping.
MustConnectUnpinged(c) == pool[c] = NoConnection

\* pool_pre_ping: a kept connection is used if it still answers, otherwise replaced.
MustConnect(c) == ~pool[c].alive

\* The first statement of a session takes a connection.
Connect(c) ==
    /\ At(c, Kinds, "begin")
    /\ request.kind = "api" \/ c \in WithDatabase
    /\ \/ /\ ~MustConnect(c) \/ Reachable(c)
          /\ pool' = [pool EXCEPT ![c] = IF MustConnect(c) THEN Opened ELSE @]
          /\ request' = [request EXCEPT !.phase = "run"]
          /\ UNCHANGED <<reply, health>>
       \/ /\ MustConnect(c) /\ ~Reachable(c)
          /\ IF request.kind = "health"
               THEN /\ Send(c, 503, NoConnection)
                    /\ health' = [health EXCEPT ![c] = 503]
               ELSE Send(c, 500, NoConnection) /\ UNCHANGED health
    /\ UNCHANGED <<database, step, version, searched, restarts>>

\* Mutant: the health check leaves its exceptions to the framework.
HealthzRaising(c) ==
    /\ At(c, {"health"}, "run")
    /\ LET status == CASE ~StatementRuns(c, 1) -> 500
                       [] StatementRuns(c, 1) /\ indexed -> 200
                       [] OTHER -> 503
       IN  Send(c, status, Committed(pool[c])) /\ health' = [health EXCEPT ![c] = status]
    /\ UNCHANGED <<database, step, version, searched, restarts>>

\* Mutant: any database that counts is healthy.
HealthzCounting(c) ==
    /\ At(c, {"health"}, "run")
    /\ LET status == IF StatementRuns(c, 1) THEN 200 ELSE 503
       IN  Send(c, status, Committed(pool[c])) /\ health' = [health EXCEPT ![c] = status]
    /\ UNCHANGED <<database, step, version, searched, restarts>>

\* healthz: it counts chunks and documents, and reports what it catches.
Healthz(c) ==
    /\ At(c, {"health"}, "run")
    /\ LET status == IF StatementRuns(c, 1) /\ indexed THEN 200 ELSE 503
       IN  Send(c, status, Committed(pool[c])) /\ health' = [health EXCEPT ![c] = status]
    /\ UNCHANGED <<database, step, version, searched, restarts>>

\* The question's SELECTs name the columns of the head.  A question whose vector this instance
\* does not hold is given up: the page goes on, /api/ask raises its 503 through the session.
Search(c) ==
    /\ At(c, {"page", "api"}, "run")
    /\ \/ /\ StatementRuns(c, Head)
          /\ searched' = IF Configured(pool[c]) THEN "configured" ELSE "by_default"
          /\ IF request.kind = "api" THEN Send(c, 200, Committed(pool[c])) ELSE GoOnTo("variants")
       \/ /\ StatementRuns(c, Head)
          /\ UNCHANGED searched
          /\ IF request.kind = "api" THEN Send(c, 503, RolledBack(pool[c])) ELSE GoOnTo("variants")
       \/ ~StatementRuns(c, Head) /\ ServerError(c) /\ UNCHANGED searched
    /\ UNCHANGED <<database, step, version, health, restarts>>

\* The page, opened without a question.
Landing(c) ==
    /\ At(c, {"page"}, "run")
    /\ GoOnTo("variants")
    /\ UNCHANGED <<database, step, version, health, searched, restarts>>

\* The page lists the machines it knows, with the same session.
ListVariants(c) ==
    /\ At(c, {"page"}, "variants")
    /\ IF StatementRuns(c, 1) THEN Send(c, 200, Committed(pool[c])) ELSE ServerError(c)
    /\ UNCHANGED <<database, step, version, health, searched, restarts>>

Serve(c) ==
    WithoutIndex(c) \/ Connect(c) \/ Healthz(c) \/ Search(c) \/ Landing(c) \/ ListVariants(c)

-----------------------------------------------------------------------------
(* What happens to them *)

\* Every connection is lost, and every request under way is excused.
DatabaseStops ==
    /\ up /\ outages < MaxOutages
    /\ up' = FALSE
    /\ outages' = outages + 1
    /\ pool' = [c \in Containers |-> [pool[c] EXCEPT !.alive = FALSE]]
    /\ request' = IF request = NoRequest THEN NoRequest ELSE [request EXCEPT !.excused = TRUE]
    /\ UNCHANGED <<schema, indexed, step, version, reply, health, searched, restarts>>

DatabaseStarts ==
    /\ ~up
    /\ up' = TRUE
    /\ UNCHANGED <<schema, indexed, outages, step, version, serving, restarts>>

\* The platform replaces a container; what it had not committed is gone with it.
Restart(c) ==
    /\ restarts < MaxRestarts
    /\ restarts' = restarts + 1
    /\ Goto(c, FirstStep(c))
    /\ version' = [version EXCEPT ![c] = 0]
    /\ pool' = [pool EXCEPT ![c] = NoConnection]
    /\ request' = IF request.at = c THEN NoRequest ELSE request
    /\ reply' = 0
    /\ health' = [health EXCEPT ![c] = 0]
    /\ searched' = "unsearched"
    /\ UNCHANGED database

Next ==
    \/ \E c \in Containers :
         Start(c) \/ Serve(c) \/ Restart(c) \/ \E kind \in Kinds : Receive(c, kind)
    \/ DatabaseStops
    \/ DatabaseStarts

Spec == Init /\ [][Next]_vars

\* A script that can run does; nobody owes a container a database, or a question.
FairSpec == Spec /\ \A c \in Containers : WF_vars(Start(c)) /\ WF_vars(Serve(c))

-----------------------------------------------------------------------------
(* Properties *)

\* Types: a request is at one of three statements, a status is one the handlers send.
TypeOK ==
    /\ up \in BOOLEAN /\ schema \in Versions /\ indexed \in BOOLEAN
    /\ outages \in 0..MaxOutages
    /\ step \in [Containers -> {"migrate", "upgrade", "wait", "count", "load", "serve"}]
    /\ version \in [Containers -> Versions]
    /\ pool \in [Containers -> Connections]
    /\ request \in Requests \union {NoRequest}
    /\ reply \in {0, 200, 500, 503}
    /\ health \in [Containers -> {0, 200, 503}]
    /\ searched \in {"unsearched", "configured", "by_default"}
    /\ restarts \in 0..MaxRestarts

\* Every search runs under SESSION_SETTINGS, on whichever connection and after whatever that
\* connection's earlier requests did: a question rolled back on a connection's first use does
\* not leave the ones after it searching at pgvector's defaults.
SettingsReachEverySearch == searched # "by_default"

\* A server error has a cause in the database during that very request, never in an outage
\* that was over before it; and /healthz never answers with one.
ServerErrorsAreExplained ==
    [][ request # NoRequest /\ reply' = 500 =>
          request.excused /\ request.kind # "health" ]_vars

\* A container that called itself healthy has rows to search, then and ever after: no restart,
\* failed load or later container takes them away.
HealthyMeansIndexed == \A c \in Containers : health[c] = 200 => indexed

\* Migration and indexing may fail or wait, and the container still comes to serve.
EveryContainerServes == \A c \in Containers : step[c] # "serve" ~> step[c] = "serve"

\* What the entrypoint logs after a failed migration: "serving anyway, /healthz will say so".
HealthyMeansMigrated == \A c \in Containers : health[c] = 200 => schema = Head
=============================================================================
