------------------------------ MODULE L3Binding ------------------------------
(***************************************************************************)
(* The binding of rung L3 (src/src/governor/bootstrap.rs): the environment *)
(* is read once, a redis connection is tried, the rungs are assembled, and *)
(* while the application calls L3 the governor replaces what is behind its *)
(* hot rung (src/src/tier/hot_rung.rs) by a new connection when the        *)
(* breaker has counted failures.  The server goes down and comes back; a   *)
(* connection does not survive that.  The operator edits the environment.  *)
(*                                                                         *)
(* A URL is its scheme; its host is the variable that held it.  A call     *)
(* takes the tier bound at the time out of the lock and ends later.        *)
(*                                                                         *)
(* The operators whose names end in Mutant are mutants of the one each     *)
(* precedes; nothing uses them.                                            *)
(***************************************************************************)
EXTENDS Naturals, Sequences

CONSTANTS
  Envs,         \* the environments there may be
  Clients,      \* tasks that call L3
  Threshold,    \* FAILURE_THRESHOLD; the breaker's count is kept up to it
  MaxStarts     \* bound on the times the server starts

(* The order of detect_redis_endpoint.                                     *)
Candidates == <<"THESIX_REDIS_URL", "THESIX_VALKEY_URL", "REDIS_URL", "VALKEY_URL">>

NamesValkey(name) == name \in {"THESIX_VALKEY_URL", "VALKEY_URL"}

(* What a variable may hold; a blank one counts as unset (lookup).         *)
Url == {"unset", "blank", "redis", "rediss", "valkey", "valkeys", "other"}

Lookup(env, name) == env[name] \notin {"unset", "blank"}

Refused == [at |-> "refused"]

(* normalize_url: valkey is spoken to as redis, with or without TLS.       *)
NormalizeUrl(env, name) ==
  IF env[name] = "other" THEN Refused
  ELSE [at     |-> "found",
        host   |-> name,
        scheme |-> IF env[name] \in {"valkeys", "rediss"} THEN "rediss" ELSE "redis",
        valkey |-> env[name] \in {"valkey", "valkeys"} \/ NamesValkey(name)]

(* detect_redis_endpoint: the first variable present decides.              *)
DetectRedisEndpoint(env) ==
  LET present == {i \in DOMAIN Candidates : Lookup(env, Candidates[i])}
  IN  IF present = {} THEN [at |-> "none"]
      ELSE NormalizeUrl(env, Candidates[CHOOSE i \in present : \A j \in present : i <= j])

VARIABLES
  env,        \* the environment, now
  read,       \* history: the environment that was read
  compiled,   \* whether the redis feature is compiled in
  executes,   \* whether the governor's mode executes maintenance
  server,     \* whether the server is up, and how often it started
  ladder,     \* what assemble_ladder returned
  inner,      \* the tier behind the hot rung
  client,     \* the call each client is in
  failing,    \* the breaker's consecutive failures of L3
  repair      \* how far the governor's rebinding is

l3Vars == <<env, read, compiled, executes, server, ladder, inner, client, failing, repair>>

Memory == [kind |-> "memory"]

Connection(endpoint) == [kind |-> "redis", endpoint |-> endpoint, start |-> server.starts]

Alive(tier) == tier.kind = "memory" \/ (server.up /\ tier.start = server.starts)

NoLadder == [at |-> "none"]

L3Init ==
  /\ env \in Envs /\ read = env
  /\ compiled \in BOOLEAN /\ executes \in BOOLEAN
  /\ server = [up |-> FALSE, starts |-> 0]
  /\ ladder = NoLadder /\ inner = Memory
  /\ client = [c \in Clients |-> [at |-> "idle"]]
  /\ failing = 0
  /\ repair = [at |-> "asleep"]

-----------------------------------------------------------------------------
(* Assembled rungs: hot says that what the manager calls as L3 is the hot  *)
(* rung, governed that the governor has that rung and a rebinder.          *)
Built(report, endpoint, hot, governed) ==
  [at |-> "built", report |-> report, endpoint |-> endpoint, hot |-> hot, governed |-> governed]

(* bind_l3.  If the connection is refused the hot rung wraps the stub, but *)
(* the stub itself stays among the rungs.                                  *)
BindL3(endpoint) ==
  IF compiled /\ server.up
  THEN ladder' = Built("Redis", endpoint, TRUE, TRUE) /\ inner' = Connection(endpoint)
  ELSE ladder' = Built("RedisDegradedToMemory", endpoint, FALSE, compiled) /\ UNCHANGED inner

(* assemble_ladder.                                                        *)
AssembleLadder ==
  LET endpoint == DetectRedisEndpoint(env)
  IN  /\ ladder = NoLadder
      /\ read' = env
      /\ CASE endpoint.at = "refused" -> ladder' = Refused /\ UNCHANGED inner
           [] endpoint.at = "none"    -> /\ ladder' = Built("NotConfigured", endpoint, FALSE, FALSE)
                                         /\ UNCHANGED inner
           [] OTHER                   -> BindL3(endpoint)
      /\ UNCHANGED <<env, compiled, executes, server, client, failing, repair>>

EditEnv ==
  /\ env' \in Envs \ {env}
  /\ UNCHANGED <<read, compiled, executes, server, ladder, inner, client, failing, repair>>

ServerStarts ==
  /\ ~server.up /\ server.starts < MaxStarts
  /\ server' = [up |-> TRUE, starts |-> server.starts + 1]
  /\ UNCHANGED <<env, read, compiled, executes, ladder, inner, client, failing, repair>>

ServerStops ==
  /\ server.up
  /\ server' = [server EXCEPT !.up = FALSE]
  /\ UNCHANGED <<env, read, compiled, executes, ladder, inner, client, failing, repair>>

-----------------------------------------------------------------------------
(* HotRungTier::current, and the call on what it returned; record_outcome  *)
(* and record_read count.                                                  *)
Current == IF ladder.hot THEN inner ELSE Memory

CallL3(c) ==
  /\ ladder.at = "built" /\ client[c].at = "idle"
  /\ client' = [client EXCEPT ![c] = [at |-> "calls", via |-> Current]]
  /\ UNCHANGED <<env, read, compiled, executes, server, ladder, inner, failing, repair>>

L3Answers(c) ==
  /\ client[c].at = "calls"
  /\ client' = [client EXCEPT ![c] = [at |-> "idle"]]
  /\ failing' = CASE Alive(client[c].via) -> 0
                  [] failing < Threshold -> failing + 1
                  [] OTHER -> failing
  /\ UNCHANGED <<env, read, compiled, executes, server, ladder, inner, repair>>

DegradedOnlyMutant ==
  /\ ladder.at = "built" /\ repair.at = "asleep"
  /\ executes /\ ladder.governed /\ failing \in 1..Threshold - 1
  /\ repair' = [at |-> "planned"]
  /\ UNCHANGED <<env, read, compiled, executes, server, ladder, inner, client, failing>>

(* observe and plan_tick: a rung with counted failures is Degraded or      *)
(* Unavailable, and both are rebound.  No other rung here fails, so the    *)
(* budget of a tick reaches L3.                                            *)
PlanRebind ==
  /\ ladder.at = "built" /\ repair.at = "asleep"
  /\ executes /\ ladder.governed /\ failing > 0
  /\ repair' = [at |-> "planned"]
  /\ UNCHANGED <<env, read, compiled, executes, server, ladder, inner, client, failing>>

RereadsMutant ==
  /\ repair.at = "planned"
  /\ repair' = IF server.up /\ DetectRedisEndpoint(env).at = "found"
               THEN [at |-> "dialled", tier |-> Connection(DetectRedisEndpoint(env))]
               ELSE [at |-> "asleep"]
  /\ UNCHANGED <<env, read, compiled, executes, server, ladder, inner, client, failing>>

(* redis_rebinder, on the blocking pool.                                   *)
RedisRebinder ==
  /\ repair.at = "planned"
  /\ repair' = IF server.up THEN [at |-> "dialled", tier |-> Connection(ladder.endpoint)]
               ELSE [at |-> "asleep"]
  /\ UNCHANGED <<env, read, compiled, executes, server, ladder, inner, client, failing>>

(* hot_swap; the connection may be dead again.  The count is not reset.    *)
SwapL3 ==
  /\ repair.at = "dialled"
  /\ inner' = repair.tier
  /\ repair' = [at |-> "asleep"]
  /\ UNCHANGED <<env, read, compiled, executes, server, ladder, client, failing>>

Governing == PlanRebind \/ RedisRebinder \/ SwapL3

L3Next ==
  \/ AssembleLadder \/ EditEnv \/ ServerStarts \/ ServerStops
  \/ \E c \in Clients : CallL3(c) \/ L3Answers(c)
  \/ Governing

L3Spec == L3Init /\ [][L3Next]_l3Vars

(* The governor's loop goes on, and so do the calls.                       *)
L3Fairness ==
  /\ WF_l3Vars(Governing)
  /\ \A c \in Clients : WF_l3Vars(CallL3(c)) /\ WF_l3Vars(L3Answers(c))

-----------------------------------------------------------------------------
(* The report is true at every moment, also after rebinding: it says Redis *)
(* exactly if what the manager calls as L3 is a connection, to the         *)
(* endpoint it names and no other, whatever the environment says by now;   *)
(* and that endpoint is of the first variable that was set when it was     *)
(* read, even if that one was no redis URL.                                *)
ReportIsTrue ==
  /\ ladder.at = "built" =>
       /\ ladder.report = "Redis" <=> Current.kind = "redis"
       /\ ladder.hot => inner.endpoint = ladder.endpoint
       /\ ladder.report # "NotConfigured" =>
            \A i \in DOMAIN Candidates :
              Lookup(read, Candidates[i]) => \E j \in 1..i : Candidates[j] = ladder.endpoint.host
  /\ ladder.at = "refused" =>
       \E i \in DOMAIN Candidates : /\ read[Candidates[i]] = "other"
                                    /\ \A j \in 1..i - 1 : ~Lookup(read, Candidates[j])

(* A rung that was bound to redis comes back by itself: if the server ends *)
(* up running and the application goes on calling, the governor (in a mode *)
(* that executes maintenance) has L3 on a live connection for good, and    *)
(* the breaker forgets the failures.  Calls under way on a connection that *)
(* was replaced may still fail, and set off another rebinding.             *)
RedisIsRepaired ==
  /\ executes
  /\ <>(ladder.at = "built" /\ ladder.report = "Redis")
  /\ <>[]server.up
  => <>[](Alive(inner) /\ failing = 0)

=============================================================================
