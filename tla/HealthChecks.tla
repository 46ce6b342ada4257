---------------------------- MODULE HealthChecks ----------------------------
(***************************************************************************)
(* /health/ready and /health/serving: HealthService, the one-connection    *)
(* PostgreSQL pool of PostgresHealthCheckService and the one shared Redis  *)
(* client of RedisHealthCheckService, probed concurrently while both       *)
(* servers fail and recover and the process may be shutting down.          *)
(*                                                                         *)
(* One action is the code between two awaits: the answer of PostgreSQL and *)
(* the start of the Redis check are one action, and so are the end of a    *)
(* connection attempt, the finally that clears connectPromise and the      *)
(* continuations of everyone who awaited it.                               *)
(*                                                                         *)
(* Environment validation gives every required key a value at start-up, so *)
(* checkConfig passes and is left out.  A server that is up answers within *)
(* the timeouts; one that is not makes every wait end in an error.         *)
(***************************************************************************)
EXTENDS Naturals

CONSTANTS
  Probes,     \* concurrent readiness and serving requests
  Clients,    \* identities of Redis clients, reused when nothing refers to them
  NoClient,
  MaxOutages  \* bound on the failures of PostgreSQL and of Redis

ASSUME HealthAssumption == NoClient \notin Clients /\ MaxOutages \in Nat

VARIABLES
  probe,      \* the requests in progress
  postgres,   \* "up" or "down" (no answers)
  pool,       \* the pg pool: "none" until the first check, "open" or "ended"
  conn,       \* the connection of the pool (max 1)
  redis,      \* "up", "down" (connections break) or "hung" (no answers)
  cl,         \* the Redis clients
  client,     \* this.client
  promise,    \* connectPromise: the client whose attempt it is, or NoClient
  destroyed,  \* onModuleDestroy has run
  outages

healthVars == <<probe, postgres, pool, conn, redis, cl, client, promise, destroyed, outages>>
connVars == <<postgres, pool, conn>>
redisVars == <<redis, cl, client, promise>>

\* client: the Redis client the check uses; attempt: the promise it awaits.
\* clean: a history flag, see UpServicesPass.
Idle == [pc |-> "idle", kind |-> "ready", client |-> NoClient,
         attempt |-> NoClient, clean |-> FALSE]

\* broken: the connection is of no use, noticed or not; failed: a check has failed
\* on it.
NoConn == [state |-> "none", broken |-> FALSE, failed |-> FALSE]

NewClient == [status |-> "none", broken |-> FALSE, disconnected |-> FALSE]

HealthInit ==
  /\ probe = [p \in Probes |-> Idle]
  /\ postgres = "up"
  /\ pool = "none"
  /\ conn = NoConn
  /\ redis = "up"
  /\ cl = [c \in Clients |-> NewClient]
  /\ client = NoClient
  /\ promise = NoClient
  /\ destroyed = FALSE
  /\ outages = 0

Answer(p, pc) == probe' = [probe EXCEPT ![p] =
                             [Idle EXCEPT !.pc = pc, !.clean = probe[p].clean]]

-----------------------------------------------------------------------------
(* PostgresHealthCheckService.check *)

\* The first check builds the pool, also after onModuleDestroy.
getPool == pool' = IF pool = "none" THEN "open" ELSE pool

\* A request arrives; getPool().connect() is called, which rejects on a pool that
\* has ended.
StartProbe(p, kind) ==
  /\ probe[p].pc = "idle"
  /\ getPool
  /\ probe' = [probe EXCEPT ![p] =
       [Idle EXCEPT !.pc = IF pool = "ended" THEN "failedPostgres" ELSE "pool", !.kind = kind,
          !.clean = /\ ~destroyed
                    /\ postgres = "up"
                    /\ conn.state # "busy"
                    /\ conn.broken => conn.failed]]
  /\ UNCHANGED <<postgres, conn, redisVars, destroyed, outages>>

\* The pool hands out its idle connection or opens one.  Whoever else is waiting
\* may now wait for longer than the connection timeout.
PoolConnects(p) ==
  /\ probe[p].pc = "pool"
  /\ pool = "open"
  /\ \/ conn.state = "idle" /\ conn' = [conn EXCEPT !.state = "busy"]
     \/ conn.state = "none" /\ postgres = "up" /\ conn' = [NoConn EXCEPT !.state = "busy"]
  /\ probe' = [q \in Probes |->
       IF q = p THEN [probe[p] EXCEPT !.pc = "query"]
       ELSE IF probe[q].pc = "pool" THEN [probe[q] EXCEPT !.clean = FALSE]
       ELSE probe[q]]
  /\ UNCHANGED <<postgres, pool, redisVars, destroyed, outages>>

\* Mutant of PoolTimesOut: a pool without connectionTimeoutMillis.
PoolTimesOutOnlyAtEnd(p) ==
  /\ probe[p].pc = "pool"
  /\ pool = "ended"
  /\ Answer(p, "failedPostgres")
  /\ UNCHANGED <<connVars, redisVars, destroyed, outages>>

\* connectionTimeoutMillis; a pool that is ending serves nobody any more.
PoolTimesOut(p) ==
  /\ probe[p].pc = "pool"
  /\ pool = "ended" \/ conn.state = "busy" \/ (conn.state = "none" /\ postgres = "down")
  /\ Answer(p, "failedPostgres")
  /\ UNCHANGED <<connVars, redisVars, destroyed, outages>>

\* Mutant of ReleaseConnection: client.release() where the code has client.release(true).
ReleaseConnectionKept(c, close) ==
  conn' = IF pool = "ended" THEN NoConn ELSE [c EXCEPT !.state = "idle"]

\* client.release(close) of the connection c, which an ending pool closes anyway.
ReleaseConnection(c, close) ==
  conn' = IF close \/ pool = "ended" THEN NoConn ELSE [c EXCEPT !.state = "idle"]

\* Query or statement timeout, or the connection's end.  A query that has timed
\* out stays active on its connection, also when PostgreSQL is back.
QueryFails(p) ==
  /\ probe[p].pc = "query"
  /\ conn.broken \/ postgres = "down"
  /\ ReleaseConnection([conn EXCEPT !.broken = TRUE, !.failed = TRUE], TRUE)
  /\ Answer(p, "failedPostgres")
  /\ UNCHANGED <<postgres, pool, redisVars, destroyed, outages>>

\* The 'error' listener of the pool, or its idle timeout: pg-pool evicts the
\* idle connection.
IdleConnectionEnds ==
  /\ conn.state = "idle"
  /\ conn' = NoConn
  /\ UNCHANGED <<probe, postgres, pool, redisVars, destroyed, outages>>

-----------------------------------------------------------------------------
(* RedisHealthCheckService *)

\* No client of this identity is in use: a new one may get it.
Unused(c) ==
  /\ cl[c].status \in {"none", "end"}
  /\ client # c /\ promise # c
  /\ \A p \in Probes : probe[p].client # c /\ probe[p].attempt # c

\* Mutant of ClientEnded: getClient keeps a client whose connection has ended.
ClientEndedIgnored == FALSE

\* getClient finds a client that can never become ready again.
ClientEnded == client # NoClient /\ cl[client].status = "end"

\* A connection attempt or a PING can fail through no fault of the check: Redis
\* is not up, or the connection is dead and nobody has noticed.
RedisDisturbed ==
  \/ redis # "up"
  \/ destroyed
  \/ /\ client # NoClient
     /\ cl[client].status \in {"connecting", "ready"}
     /\ cl[client].broken

\* Mutant of ResetClient: it forgets a client that another check has built since.
ResetClientBlindly(cs, waiting) ==
  /\ client' = IF cs # {} THEN NoClient ELSE client
  /\ promise' = IF cs # {} THEN NoClient ELSE waiting

\* resetClient for the clients cs of failing checks while connectPromise is
\* `waiting`, the forgetting half: only the client that is still this.client is
\* forgotten, and connectPromise with it.
ResetClient(cs, waiting) ==
  /\ client' = IF client \in cs THEN NoClient ELSE client
  /\ promise' = IF client \in cs THEN NoClient ELSE waiting

\* resetClient, the other half: every one of them is disconnected.
Disconnect(cs, clients) ==
  [c \in Clients |-> IF c \in cs THEN [clients[c] EXCEPT !.disconnected = TRUE]
                     ELSE clients[c]]

ToRedis(p, pc, c, attempt) ==
  probe' = [probe EXCEPT ![p].pc = pc, ![p].client = c, ![p].attempt = attempt,
                         ![p].clean = @ /\ ~RedisDisturbed]

\* check() with a client it has to build, up to the await of connect: a new
\* client is in status 'wait', so its attempt starts unless one is pending.
CheckNewClient(p) ==
  /\ client = NoClient \/ ClientEnded
  /\ \E c \in Clients :
       LET awaited == IF ClientEnded THEN NoClient ELSE promise
       IN /\ Unused(c)
          /\ client' = c
          /\ promise' = IF awaited = NoClient THEN c ELSE awaited
          /\ cl' = [cl EXCEPT ![c] = [NewClient EXCEPT
                      !.status = IF awaited = NoClient THEN "connecting" ELSE "wait",
                      !.broken = redis # "up"]]
          /\ ToRedis(p, "connect", c, promise')

\* check() with the client at hand: it is ready, or an attempt is pending, or
\* connect throws REDIS_HEALTH_CLIENT_NOT_READY and the client is reset.
CheckCurrentClient(p) ==
  LET ready == cl[client].status = "ready"
      lost == IF ~ready /\ promise = NoClient THEN {client} ELSE {}
  IN /\ client # NoClient
     /\ ~ClientEnded
     /\ cl' = Disconnect(lost, cl)
     /\ ResetClient(lost, promise)
     /\ IF lost # {} THEN Answer(p, "failedRedis")
        ELSE ToRedis(p, IF ready THEN "ping" ELSE "connect", client,
                     IF ready THEN NoClient ELSE promise)

\* PostgreSQL has answered: /health/serving is done, /health/ready goes on with
\* Redis.
QuerySucceeds(p) ==
  /\ probe[p].pc = "query"
  /\ postgres = "up"
  /\ ~conn.broken
  /\ ReleaseConnection(conn, FALSE)
  /\ \/ /\ probe[p].kind = "serving"
        /\ Answer(p, "ok")
        /\ UNCHANGED <<cl, client, promise>>
     \/ /\ probe[p].kind = "ready"
        /\ CheckNewClient(p) \/ CheckCurrentClient(p)
  /\ UNCHANGED <<postgres, pool, redis, destroyed, outages>>

Fail(ps) ==
  probe' = [p \in Probes |->
    IF p \in ps THEN [Idle EXCEPT !.pc = "failedRedis", !.clean = probe[p].clean]
    ELSE probe[p]]

Awaiting(c) == {p \in Probes : probe[p].pc = "connect" /\ probe[p].attempt = c}
Pinging(c) == {p \in Probes : probe[p].pc = "ping" /\ probe[p].client = c}

\* The attempt succeeds; the finally clears connectPromise, whichever attempt it
\* belongs to by now, and the checks that awaited the attempt send their PING.
ConnectSucceeds(c) ==
  /\ cl[c].status = "connecting"
  /\ redis = "up"
  /\ ~cl[c].disconnected
  /\ cl' = [cl EXCEPT ![c].status = "ready", ![c].broken = FALSE]
  /\ promise' = NoClient
  /\ probe' = [p \in Probes |-> IF p \in Awaiting(c)
                                  THEN [probe[p] EXCEPT !.pc = "ping", !.attempt = NoClient]
                                  ELSE probe[p]]
  /\ UNCHANGED <<connVars, redis, client, destroyed, outages>>

\* The attempt is refused, times out or is cut off by disconnect; the finally
\* clears connectPromise, whichever attempt it belongs to by now, then everyone
\* who awaited the attempt resets the client.
ConnectFails(c) ==
  LET cs == {probe[p].client : p \in Awaiting(c)}
  IN /\ cl[c].status = "connecting"
     /\ redis # "up" \/ cl[c].broken \/ cl[c].disconnected
     /\ cl' = Disconnect(cs, [cl EXCEPT ![c].status = "end"])
     /\ ResetClient(cs, NoClient)
     /\ Fail(Awaiting(c))
     /\ UNCHANGED <<connVars, redis, destroyed, outages>>

\* The connection of a ready client closes: dropped by an outage or disconnected.
\* Commands in flight are rejected.
ConnectionCloses(c) ==
  LET cs == {probe[p].client : p \in Pinging(c)}
  IN /\ cl[c].status = "ready"
     /\ cl[c].broken \/ cl[c].disconnected
     /\ cl' = Disconnect(cs, [cl EXCEPT ![c].status = "end"])
     /\ ResetClient(cs, promise)
     /\ Fail(Pinging(c))
     /\ UNCHANGED <<connVars, redis, destroyed, outages>>

PingAnswered(p) ==
  /\ probe[p].pc = "ping"
  /\ redis = "up"
  /\ cl[probe[p].client].status = "ready"
  /\ ~cl[probe[p].client].broken
  /\ Answer(p, "ok")
  /\ UNCHANGED <<connVars, redisVars, destroyed, outages>>

\* commandTimeout
PingTimesOut(p) ==
  /\ probe[p].pc = "ping"
  /\ redis # "up" \/ cl[probe[p].client].broken
  /\ cl' = Disconnect({probe[p].client}, cl)
  /\ ResetClient({probe[p].client}, promise)
  /\ Fail({p})
  /\ UNCHANGED <<connVars, redis, destroyed, outages>>

-----------------------------------------------------------------------------
(* The servers, the load balancer and the end of the process *)

Outage == outages < MaxOutages /\ outages' = outages + 1

Disturb == probe' = [p \in Probes |-> [probe[p] EXCEPT !.clean = FALSE]]

\* PostgreSQL stops answering; its connection may survive that.
PostgresStops ==
  /\ Outage
  /\ postgres = "up"
  /\ postgres' = "down"
  /\ \E lost \in BOOLEAN :
       conn' = [conn EXCEPT !.broken = @ \/ (lost /\ conn.state # "none")]
  /\ Disturb
  /\ UNCHANGED <<pool, redisVars, destroyed>>

PostgresRecovers ==
  /\ postgres = "down"
  /\ postgres' = "up"
  /\ UNCHANGED <<probe, pool, conn, redisVars, destroyed, outages>>

\* Redis stops and its connections break, or it stops answering; attempts under
\* way may fail even if it is back by then.
RedisStops(how) ==
  /\ Outage
  /\ redis = "up"
  /\ redis' = how
  /\ cl' = [c \in Clients |->
       [cl[c] EXCEPT !.broken = @ \/ cl[c].status = "connecting"
                                  \/ (how = "down" /\ cl[c].status = "ready")]]
  /\ Disturb
  /\ UNCHANGED <<connVars, client, promise, destroyed>>

RedisRecovers ==
  /\ redis # "up"
  /\ redis' = "up"
  /\ UNCHANGED <<probe, connVars, cl, client, promise, destroyed, outages>>

\* The answer has been sent; the next request may come.
Return(p) ==
  /\ probe[p].pc \in {"ok", "failedPostgres", "failedRedis"}
  /\ probe' = [probe EXCEPT ![p] = Idle]
  /\ UNCHANGED <<connVars, redisVars, destroyed, outages>>

\* pool?.end(): a pool that nobody has built stays unbuilt.
EndPool ==
  /\ pool' = IF pool = "open" THEN "ended" ELSE pool
  /\ conn' = IF conn.state = "idle" THEN NoConn ELSE conn

\* onModuleDestroy of both services; requests are still served after it.
Destroy ==
  /\ ~destroyed
  /\ destroyed' = TRUE
  /\ EndPool
  /\ client' = NoClient
  /\ promise' = NoClient
  /\ cl' = Disconnect({client}, cl)
  /\ Disturb
  /\ UNCHANGED <<postgres, redis, outages>>

ProbeStep(p) ==
  \/ PoolConnects(p) \/ PoolTimesOut(p) \/ QuerySucceeds(p) \/ QueryFails(p)
  \/ PingAnswered(p) \/ PingTimesOut(p)

ClientStep(c) == ConnectSucceeds(c) \/ ConnectFails(c) \/ ConnectionCloses(c)

HealthNext ==
  \/ \E p \in Probes : \/ \E kind \in {"ready", "serving"} : StartProbe(p, kind)
                       \/ ProbeStep(p) \/ Return(p)
  \/ \E c \in Clients : ClientStep(c)
  \/ IdleConnectionEnds
  \/ PostgresStops \/ PostgresRecovers
  \/ RedisStops("down") \/ RedisStops("hung") \/ RedisRecovers
  \/ Destroy

HealthSpec == HealthInit /\ [][HealthNext]_healthVars

-----------------------------------------------------------------------------
(* Properties *)

\* The state is well formed; only onModuleDestroy ends the pool, and the only
\* connection of the pool is out exactly while one probe uses it, so no probe
\* loses it or shares it.
HealthTypeOK ==
  /\ probe \in [Probes -> [pc : {"idle", "pool", "query", "connect", "ping", "ok",
                                 "failedPostgres", "failedRedis"},
                           kind : {"ready", "serving"}, client : Clients \cup {NoClient},
                           attempt : Clients \cup {NoClient}, clean : BOOLEAN]]
  /\ postgres \in {"up", "down"}
  /\ pool \in {"none", "open", "ended"}
  /\ conn \in [state : {"none", "idle", "busy"}, broken : BOOLEAN, failed : BOOLEAN]
  /\ redis \in {"up", "down", "hung"}
  /\ cl \in [Clients -> [status : {"none", "wait", "connecting", "ready", "end"},
                         broken : BOOLEAN, disconnected : BOOLEAN]]
  /\ {client, promise} \subseteq Clients \cup {NoClient}
  /\ destroyed \in BOOLEAN
  /\ outages \in 0..MaxOutages
  /\ pool = "ended" => destroyed
  /\ (conn.state = "busy") = \E p \in Probes : probe[p].pc = "query"
  /\ \A p, q \in Probes : probe[p].pc = "query" /\ probe[q].pc = "query" => p = q

\* No connection leaks: whatever checks fail and replace clients concurrently,
\* also after onModuleDestroy, a client that is not the current one has been
\* disconnected or its connection has ended.
NoClientLeaks ==
  /\ HealthTypeOK
  /\ \A c \in Clients :
       cl[c].status \in {"wait", "connecting", "ready"} /\ ~cl[c].disconnected => c = client

\* "Replace it here instead of failing the first check after Redis recovers": a
\* probe that finds the services up and has the pool to itself, and that neither
\* a failure nor onModuleDestroy interrupts, passes whatever other probes do with
\* the shared client, unless it meets a dead connection that nobody has noticed.
\* So neither a PostgreSQL connection on which a check has failed nor a Redis
\* client that has ended is used again.
UpServicesPass ==
  \A p \in Probes : probe[p].clean => probe[p].pc \notin {"failedPostgres", "failedRedis"}

\* Connecting, queries and PINGs are answered or run into their timeouts (one
\* or two seconds), and sockets that are dead or disconnected close.
HealthFairSpec ==
  /\ HealthSpec
  /\ \A p \in Probes : WF_healthVars(ProbeStep(p))
  /\ \A c \in Clients : WF_healthVars(ClientStep(c))

\* A probe never hangs on a pool that ends or on a promise that another check
\* started: every request is answered.
EveryProbeEnds ==
  \A p \in Probes :
    probe[p].pc = "pool" ~> probe[p].pc \in {"ok", "failedPostgres", "failedRedis"}
=============================================================================
