---------------------------- MODULE StartupProofs ---------------------------
(***************************************************************************)
(* What a deployment keeps, for every set of containers, of outages and of   *)
(* restarts.                                                                *)
(***************************************************************************)
EXTENDS Startup, TLAPS

\* A connection that is alive has its settings outside any transaction, so no rollback can undo them.
LiveIsConfigured == \A c \in Containers : pool[c].alive => pool[c].session

\* A request nothing has happened to: it found the database up and at the head, and once it has
\* a connection it keeps it.
UnexcusedIsSound ==
    request # NoRequest /\ ~request.excused =>
        /\ schema = Head
        /\ request.at \in WithDatabase
        /\ request.phase = "begin" => up
        /\ request.phase # "begin" => pool[request.at].alive

\* No status stands while a request is under way.
NoStatusYet == request # NoRequest => reply = 0

IInv ==
    /\ TypeOK
    /\ LiveIsConfigured /\ SettingsReachEverySearch
    /\ HealthyMeansIndexed
    /\ UnexcusedIsSound /\ NoStatusYet

LEMMA InitHolds == ASSUME StartupAssumption, Init PROVE IInv
  BY DEF StartupAssumption, Init, IInv, TypeOK, LiveIsConfigured, SettingsReachEverySearch,
         HealthyMeansIndexed, UnexcusedIsSound, NoStatusYet, Versions, Head, FirstStep, NoConnection,
         Connections, NoRequest, Requests, Kinds

\* A step of the entrypoint reaches no connection and no request, and never lowers the schema or
\* empties the index.
LEMMA StartHolds ==
    ASSUME StartupAssumption, IInv, NEW c \in Containers, Start(c)
    PROVE  IInv' /\ UNCHANGED serving
<1> USE DEF Versions, Head
<1>1. /\ UNCHANGED serving /\ UNCHANGED <<up, outages, restarts>>
      /\ schema' \in {schema, Head}
      /\ indexed' \in BOOLEAN /\ (indexed => indexed')
      /\ version' \in [Containers -> Versions]
      /\ step' \in [Containers -> {"migrate", "upgrade", "wait", "count", "load", "serve"}]
  <2>1. CASE ReadVersion(c)
    BY <2>1 DEF ReadVersion, IInv, TypeOK, Goto, Failed, database, serving
  <2>2. CASE Upgrade(c)
    BY <2>2 DEF Upgrade, IInv, TypeOK, Goto, Failed, database, serving
  <2>3. CASE WaitForDatabase(c)
    BY <2>3 DEF WaitForDatabase, IInv, TypeOK, Goto, Failed, database, serving
  <2>4. CASE CountIndexed(c)
    <3>1. step' = [step EXCEPT ![c] = "serve"] \/ step' = [step EXCEPT ![c] = "load"]
      BY <2>4 DEF CountIndexed, Goto, Failed
    <3> QED BY <2>4, <3>1 DEF CountIndexed, IInv, TypeOK, database, serving
  <2>5. CASE Load(c)
    <3>1. indexed' \in BOOLEAN /\ (indexed => indexed')
      BY <2>5, Zenon DEF Load, IInv, TypeOK
    <3> QED BY <2>5, <3>1 DEF Load, IInv, TypeOK, Goto, Failed, database, serving
  <2> QED BY <2>1, <2>2, <2>3, <2>4, <2>5 DEF Start
<1>2. TypeOK'
  BY <1>1 DEF IInv, TypeOK, serving
<1>3. LiveIsConfigured' /\ SettingsReachEverySearch'
  BY <1>1 DEF IInv, LiveIsConfigured, SettingsReachEverySearch, serving
<1>4. HealthyMeansIndexed'
  BY <1>1 DEF IInv, HealthyMeansIndexed, serving
<1>5. UnexcusedIsSound' /\ NoStatusYet'
  BY <1>1 DEF IInv, UnexcusedIsSound, NoStatusYet, serving
<1> QED BY <1>1, <1>2, <1>3, <1>4, <1>5 DEF IInv

\* What the ways of ending a request put back into the pool is still configured, if it is alive.
LEMMA SendHolds ==
    ASSUME StartupAssumption, IInv, NEW c \in Containers, NEW k \in Connections,
           k.alive => k.session,
           NEW status \in {200, 500, 503}, Send(c, status, k),
           UNCHANGED <<database, step, version, restarts>>,
           searched' \in {searched, "configured"},
           health' \in [Containers -> {0, 200, 503}], HealthyMeansIndexed'
    PROVE  IInv'
<1>1. pool' \in [Containers -> Connections]
  BY DEF Send, IInv, TypeOK
<1>2. TypeOK'
  BY <1>1 DEF Send, IInv, TypeOK, database
<1>3. LiveIsConfigured' /\ SettingsReachEverySearch'
  BY DEF Send, IInv, TypeOK, LiveIsConfigured, SettingsReachEverySearch
<1>4. UnexcusedIsSound' /\ NoStatusYet'
  BY DEF Send, UnexcusedIsSound, NoStatusYet
<1> QED BY <1>2, <1>3, <1>4 DEF IInv

\* A health check that sends 200 has found rows; one that sends anything else promises nothing.
LEMMA HealthHolds ==
    ASSUME IInv, NEW c \in Containers, UNCHANGED indexed, NEW status \in {200, 503},
           status = 200 => indexed,
           UNCHANGED health \/ health' = [health EXCEPT ![c] = status]
    PROVE  health' \in [Containers -> {0, 200, 503}] /\ HealthyMeansIndexed'
<1>1. health \in [Containers -> {0, 200, 503}] /\ HealthyMeansIndexed
  BY DEF IInv, TypeOK
<1>2. health' \in [Containers -> {0, 200, 503}]
  BY <1>1
<1>3. \A d \in Containers : health'[d] = health[d] \/ (d = c /\ health'[d] = status)
  BY <1>1
<1> QED BY <1>1, <1>2, <1>3 DEF HealthyMeansIndexed

\* Commit and rollback both leave a live connection its settings.
LEMMA EndingsKeepSettings ==
    ASSUME NEW k \in Connections, k.alive => k.session
    PROVE  /\ Committed(k) \in Connections /\ RolledBack(k) \in Connections
           /\ Committed(k).alive => Committed(k).session
           /\ RolledBack(k).alive => RolledBack(k).session
  BY DEF Connections, Committed, RolledBack, Configured

\* Going on keeps the connection, so a request nothing has happened to still has its own.
LEMMA GoOnHolds ==
    ASSUME StartupAssumption, IInv, request # NoRequest,
           request.phase # "begin", GoOnTo("variants"),
           searched' \in {searched, "configured"},
           UNCHANGED <<database, step, version, health, restarts>>
    PROVE  IInv' /\ reply' # 500
<1>1. request \in Requests
  BY DEF IInv, TypeOK
<1>2. /\ request' \in Requests /\ request'.phase # "begin"
      /\ request'.at = request.at /\ request'.excused = request.excused
  BY <1>1 DEF GoOnTo, Requests
<1>3. TypeOK'
  BY <1>2 DEF GoOnTo, IInv, TypeOK, database
<1>4. LiveIsConfigured' /\ SettingsReachEverySearch' /\ HealthyMeansIndexed'
  BY DEF GoOnTo, IInv, LiveIsConfigured, SettingsReachEverySearch, HealthyMeansIndexed, database
<1>5. UnexcusedIsSound'
  BY <1>2 DEF GoOnTo, IInv, UnexcusedIsSound, database
<1>6. reply' = 0
  BY DEF GoOnTo, IInv, NoStatusYet
<1> QED BY <1>3, <1>4, <1>5, <1>6 DEF IInv, NoStatusYet

\* A step of a request, one case for each handler's statement.
LEMMA ServeHolds ==
    ASSUME StartupAssumption, IInv, NEW c \in Containers, Serve(c)
    PROVE  /\ IInv'
           /\ request # NoRequest
           /\ reply' = 500 => request.excused /\ request.kind # "health"
<1>1. /\ pool[c] \in Connections /\ (pool[c].alive => pool[c].session)
      /\ NoConnection \in Connections /\ ~NoConnection.alive
      /\ Opened \in Connections /\ Opened.alive /\ Opened.session
  BY DEF IInv, TypeOK, LiveIsConfigured, NoConnection, Opened, Connections
<1>2. /\ Committed(pool[c]) \in Connections /\ RolledBack(pool[c]) \in Connections
      /\ Committed(pool[c]).alive => Committed(pool[c]).session
      /\ RolledBack(pool[c]).alive => RolledBack(pool[c]).session
  BY <1>1, EndingsKeepSettings
<1>3. request \in Requests /\ request # NoRequest /\ request.at = c
  BY DEF Serve, WithoutIndex, Connect, Healthz, Search, Landing, ListVariants, At, NoRequest,
         IInv, TypeOK, Kinds
<1>4. UNCHANGED <<database, health>> =>
        health' \in [Containers -> {0, 200, 503}] /\ HealthyMeansIndexed'
  BY HealthHolds DEF database
<1>5. CASE WithoutIndex(c)
  <2>1. \E status \in {200, 503} :
          /\ Send(c, status, pool[c])
          /\ UNCHANGED health \/ health' = [health EXCEPT ![c] = 503]
          /\ UNCHANGED <<database, step, version, searched, restarts>>
    <3>1. CASE request.kind = "health"
      BY <1>5, <3>1 DEF WithoutIndex
    <3>2. CASE request.kind # "health"
      BY <1>5, <3>2 DEF WithoutIndex, IInv, TypeOK
    <3> QED BY <3>1, <3>2
  <2>2. reply' # 500
    BY <2>1 DEF Send
  <2>3. IInv'
    <3>1. health' \in [Containers -> {0, 200, 503}] /\ HealthyMeansIndexed'
      BY <2>1, HealthHolds DEF database
    <3> QED BY <1>1, <2>1, <3>1, SendHolds
  <2> QED BY <1>3, <2>2, <2>3
<1>6. CASE Connect(c)
  <2>1. CASE MustConnect(c) /\ ~Reachable(c)
    <3>1. request.excused
      BY <1>3, <1>6, <2>1 DEF Connect, At, IInv, UnexcusedIsSound, Reachable
    <3>2. \E status \in {500, 503} :
            /\ Send(c, status, NoConnection)
            /\ status = 500 => request.kind # "health"
            /\ UNCHANGED health \/ health' = [health EXCEPT ![c] = 503]
            /\ UNCHANGED <<database, step, version, searched, restarts>>
      BY <1>6, <2>1 DEF Connect
    <3>3. reply' = 500 => request.kind # "health"
      BY <3>2 DEF Send
    <3>4. IInv'
      <4>1. health' \in [Containers -> {0, 200, 503}] /\ HealthyMeansIndexed'
        BY <3>2, HealthHolds DEF database
      <4> QED BY <1>1, <3>2, <4>1, SendHolds
    <3> QED BY <1>3, <3>1, <3>3, <3>4
  <2>2. CASE ~(MustConnect(c) /\ ~Reachable(c))
    <3>1. /\ pool' = [pool EXCEPT ![c] = IF MustConnect(c) THEN Opened ELSE @]
          /\ request' = [request EXCEPT !.phase = "run"]
          /\ UNCHANGED <<reply, health>>
          /\ UNCHANGED <<database, step, version, searched, restarts>>
      BY <1>6, <2>2 DEF Connect
    <3>2. pool'[c] \in Connections /\ pool'[c].alive /\ pool'[c].session
      BY <1>1, <3>1 DEF MustConnect, IInv, TypeOK
    <3>3. TypeOK'
      BY <1>1, <1>3, <3>1 DEF IInv, TypeOK, Requests, database
    <3>4. LiveIsConfigured'
      BY <3>1, <3>2 DEF IInv, TypeOK, LiveIsConfigured
    <3>5. SettingsReachEverySearch' /\ HealthyMeansIndexed'
      BY <3>1 DEF IInv, SettingsReachEverySearch, HealthyMeansIndexed, database
    <3>6. /\ request'.at = c /\ request'.excused = request.excused
          /\ request'.phase = "run"
      BY <1>3, <3>1 DEF Requests
    <3>7. UnexcusedIsSound' /\ NoStatusYet' /\ reply' # 500
      BY <1>3, <3>1, <3>2, <3>6 DEF IInv, UnexcusedIsSound, NoStatusYet, database
    <3> QED BY <1>3, <3>3, <3>4, <3>5, <3>7 DEF IInv
  <2> QED BY <2>1, <2>2
<1>7. CASE Healthz(c)
  <2>1. UNCHANGED <<database, step, version, searched, restarts>>
    BY <1>7 DEF Healthz
  <2>2. CASE StatementRuns(c, 1) /\ indexed
    <3>1. Send(c, 200, Committed(pool[c])) /\ health' = [health EXCEPT ![c] = 200]
      BY <1>7, <2>2 DEF Healthz
    <3>2. health' \in [Containers -> {0, 200, 503}] /\ HealthyMeansIndexed'
      <4>1. UNCHANGED indexed
        BY <2>1 DEF database
      <4> QED BY <2>2, <3>1, <4>1, HealthHolds
    <3>3. IInv'
      BY <1>2, <2>1, <3>1, <3>2, SendHolds
    <3> QED BY <1>3, <3>1, <3>3 DEF Send
  <2>3. CASE ~(StatementRuns(c, 1) /\ indexed)
    <3>1. Send(c, 503, Committed(pool[c])) /\ health' = [health EXCEPT ![c] = 503]
      BY <1>7, <2>3 DEF Healthz
    <3>2. health' \in [Containers -> {0, 200, 503}] /\ HealthyMeansIndexed'
      <4>1. UNCHANGED indexed
        BY <2>1 DEF database
      <4>2. \A d \in Containers : health'[d] = 200 => health[d] = 200
        BY <3>1 DEF IInv, TypeOK
      <4>3. health' \in [Containers -> {0, 200, 503}]
        BY <3>1 DEF IInv, TypeOK
      <4> QED BY <4>1, <4>2, <4>3 DEF IInv, HealthyMeansIndexed
    <3>3. IInv'
      BY <1>2, <2>1, <3>1, <3>2, SendHolds
    <3> QED BY <1>3, <3>1, <3>3 DEF Send
  <2> QED BY <2>2, <2>3
<1>8. CASE Search(c)
  <2>1. /\ request.phase # "begin" /\ request.kind # "health"
        /\ UNCHANGED <<database, step, version, health, restarts>>
    BY <1>8 DEF Search, At
  <2>2. CASE StatementRuns(c, Head)
    <3>1. searched' \in {searched, "configured"}
      BY <1>1, <1>8, <2>2 DEF Search, StatementRuns, Configured
    <3>2. CASE GoOnTo("variants")
      BY <1>3, <2>1, <3>1, <3>2, GoOnHolds
    <3>3. CASE Send(c, 200, Committed(pool[c])) \/ Send(c, 503, RolledBack(pool[c]))
      <4>1. reply' # 500
        BY <3>3 DEF Send
      <4>2. IInv'
        BY <1>2, <1>4, <2>1, <3>1, <3>3, SendHolds
      <4> QED BY <1>3, <4>1, <4>2
    <3> QED BY <1>8, <2>2, <3>2, <3>3 DEF Search
  <2>3. CASE ~StatementRuns(c, Head)
    <3>1. Send(c, 500, RolledBack(pool[c])) /\ UNCHANGED searched
      BY <1>8, <2>3 DEF Search, ServerError
    <3>2. IInv'
      BY <1>2, <1>4, <2>1, <3>1, SendHolds
    <3>3. request.excused
      BY <1>3, <2>1, <2>3 DEF IInv, UnexcusedIsSound, StatementRuns, Head
    <3> QED BY <1>3, <2>1, <3>2, <3>3
  <2> QED BY <2>2, <2>3
<1>9. CASE Landing(c)
  BY <1>3, <1>9, GoOnHolds DEF Landing, At
<1>10. CASE ListVariants(c)
  <2>1. /\ request.phase # "begin" /\ request.kind # "health"
        /\ UNCHANGED <<database, step, version, health, searched, restarts>>
    BY <1>10 DEF ListVariants, At
  <2>2. CASE StatementRuns(c, 1)
    <3>1. Send(c, 200, Committed(pool[c]))
      BY <1>10, <2>2 DEF ListVariants
    <3>2. IInv'
      BY <1>2, <1>4, <2>1, <3>1, SendHolds
    <3> QED BY <1>3, <3>1, <3>2 DEF Send
  <2>3. CASE ~StatementRuns(c, 1)
    <3>1. Send(c, 500, RolledBack(pool[c]))
      BY <1>10, <2>3 DEF ListVariants, ServerError
    <3>2. IInv'
      BY <1>2, <1>4, <2>1, <3>1, SendHolds
    <3>3. request.excused
      BY <1>3, <2>1, <2>3 DEF IInv, UnexcusedIsSound, StatementRuns, Head
    <3> QED BY <1>3, <2>1, <3>2, <3>3
  <2> QED BY <2>2, <2>3
<1> QED BY <1>5, <1>6, <1>7, <1>8, <1>9, <1>10 DEF Serve

\* What happens to the database, to a container, or to an idle one that is sent a request.
LEMMA EventsHold ==
    ASSUME StartupAssumption, IInv,
           \/ DatabaseStops \/ DatabaseStarts
           \/ \E c \in Containers : Restart(c) \/ \E kind \in Kinds : Receive(c, kind)
    PROVE  IInv' /\ (request # NoRequest => reply' # 500)
<1>1. CASE DatabaseStops
  <2>1. /\ \A c \in Containers : pool[c] \in Connections
        /\ pool' = [c \in Containers |-> [pool[c] EXCEPT !.alive = FALSE]]
    BY <1>1 DEF DatabaseStops, IInv, TypeOK
  <2>2. \A k \in Connections :
          [k EXCEPT !.alive = FALSE] \in Connections /\ ~[k EXCEPT !.alive = FALSE].alive
    BY DEF Connections
  <2>3. pool' \in [Containers -> Connections] /\ \A c \in Containers : ~pool'[c].alive
    BY <2>1, <2>2
  <2>4. /\ request' \in Requests \union {NoRequest}
        /\ request' = NoRequest \/ request'.excused
        /\ request' # NoRequest => request # NoRequest
    BY <1>1 DEF DatabaseStops, IInv, TypeOK, Requests
  <2>5. TypeOK'
    <3>1. up' \in BOOLEAN /\ UNCHANGED <<schema, indexed>>
      BY <1>1 DEF DatabaseStops
    <3> QED BY <1>1, <2>3, <2>4, <3>1 DEF DatabaseStops, IInv, TypeOK, StartupAssumption
  <2>6. LiveIsConfigured' /\ SettingsReachEverySearch' /\ HealthyMeansIndexed'
    BY <1>1, <2>3 DEF DatabaseStops, IInv, LiveIsConfigured, SettingsReachEverySearch,
       HealthyMeansIndexed
  <2>7. UnexcusedIsSound' /\ NoStatusYet'
    BY <1>1, <2>4 DEF DatabaseStops, IInv, UnexcusedIsSound, NoStatusYet
  <2>8. request # NoRequest => reply' # 500
    BY <1>1 DEF DatabaseStops, IInv, NoStatusYet
  <2> QED BY <2>5, <2>6, <2>7, <2>8 DEF IInv
<1>2. CASE DatabaseStarts
  BY <1>2 DEF DatabaseStarts, IInv, TypeOK, LiveIsConfigured, SettingsReachEverySearch,
     HealthyMeansIndexed, UnexcusedIsSound, NoStatusYet, serving
<1>3. ASSUME NEW c \in Containers, Restart(c) PROVE IInv' /\ reply' # 500
  <2>1. /\ pool' \in [Containers -> Connections]
        /\ \A d \in Containers : pool'[d].alive => pool'[d].session
        /\ \A d \in Containers : d # c => pool'[d] = pool[d]
    BY <1>3 DEF Restart, IInv, TypeOK, LiveIsConfigured, Connections, NoConnection
  <2>2. TypeOK'
    BY <1>3, <2>1 DEF Restart, IInv, TypeOK, Goto, FirstStep, Versions, Head, database,
       StartupAssumption
  <2>3. HealthyMeansIndexed'
    BY <1>3 DEF Restart, IInv, TypeOK, HealthyMeansIndexed, database
  <2>4. UnexcusedIsSound' /\ NoStatusYet' /\ SettingsReachEverySearch'
    BY <1>3, <2>1 DEF Restart, IInv, TypeOK, UnexcusedIsSound, NoStatusYet, NoRequest,
       Requests, SettingsReachEverySearch, database, StartupAssumption
  <2>5. LiveIsConfigured' /\ reply' # 500
    BY <1>3, <2>1 DEF Restart, LiveIsConfigured
  <2> QED BY <2>2, <2>3, <2>4, <2>5 DEF IInv
<1>4. ASSUME NEW c \in Containers, NEW kind \in Kinds, Receive(c, kind)
      PROVE  IInv' /\ reply' # 500
  <2>1. request' \in Requests
    BY <1>4 DEF Receive, Requests, Reachable, IInv, TypeOK
  <2>2. TypeOK'
    BY <1>4, <2>1 DEF Receive, IInv, TypeOK, database
  <2>3. UnexcusedIsSound'
    <3>1. /\ request' = [at |-> c, kind |-> kind, phase |-> "begin",
                          excused |-> ~Reachable(c) \/ schema < Head]
          /\ UNCHANGED <<up, schema>>
      BY <1>4 DEF Receive, database
    <3>2. schema < Head \/ schema = Head
      BY DEF IInv, TypeOK, Versions, Head
    <3>3. /\ request'.at = c /\ request'.phase = "begin"
          /\ ~request'.excused => Reachable(c) /\ schema = Head
      BY <3>1, <3>2, Zenon
    <3> QED BY <3>1, <3>3 DEF UnexcusedIsSound, Reachable
  <2> QED BY <1>4, <2>2, <2>3 DEF Receive, IInv, LiveIsConfigured, SettingsReachEverySearch,
          HealthyMeansIndexed, NoStatusYet, database
<1>5. CASE DatabaseStops \/ DatabaseStarts
  <2>1. UNCHANGED reply
    BY <1>5 DEF DatabaseStops, DatabaseStarts, serving
  <2> QED BY <1>1, <1>2, <1>5, <2>1 DEF IInv, NoStatusYet
<1> QED BY <1>3, <1>4, <1>5

LEMMA StepHolds ==
    ASSUME StartupAssumption, IInv, [Next]_vars
    PROVE  /\ IInv'
           /\ request # NoRequest /\ reply' = 500 => request.excused /\ request.kind # "health"
<1>1. CASE UNCHANGED vars
  BY <1>1 DEF vars, database, serving, IInv, TypeOK, LiveIsConfigured, SettingsReachEverySearch,
     HealthyMeansIndexed, UnexcusedIsSound, NoStatusYet
<1>2. CASE \E c \in Containers : Start(c)
  BY <1>2, StartHolds DEF serving, IInv, NoStatusYet
<1>3. CASE \E c \in Containers : Serve(c)
  BY <1>3, ServeHolds
<1> QED BY <1>1, <1>2, <1>3, EventsHold DEF Next

LEMMA Invariance == ASSUME StartupAssumption PROVE Spec => []IInv
<1>1. Init => IInv
  BY InitHolds
<1>2. IInv /\ [Next]_vars => IInv'
  BY StepHolds
<1> QED BY <1>1, <1>2, PTL DEF Spec

\* The state of a deployment is always of its type.
THEOREM TypeCorrect == ASSUME StartupAssumption PROVE Spec => []TypeOK
<1>1. IInv => TypeOK
  BY DEF IInv
<1> QED BY <1>1, Invariance, PTL

\* No search ever runs at pgvector's defaults: _set_guc's settings outlive every rollback.
THEOREM SettingsAlwaysReach == ASSUME StartupAssumption PROVE Spec => []SettingsReachEverySearch
<1>1. IInv => SettingsReachEverySearch
  BY DEF IInv
<1> QED BY <1>1, Invariance, PTL

\* A container that called itself healthy always has rows to search.
THEOREM HealthyIsIndexed == ASSUME StartupAssumption PROVE Spec => []HealthyMeansIndexed
<1>1. IInv => HealthyMeansIndexed
  BY DEF IInv
<1> QED BY <1>1, Invariance, PTL

\* A server error always has its cause within its own request, and none is a health check's.
THEOREM ErrorsAreExplained == ASSUME StartupAssumption PROVE Spec => ServerErrorsAreExplained
<1>1. IInv /\ [Next]_vars => [request # NoRequest /\ reply' = 500 =>
                               request.excused /\ request.kind # "health"]_vars
  BY StepHolds
<1> QED BY <1>1, Invariance, PTL DEF Spec, ServerErrorsAreExplained
=============================================================================
