---------------------------- MODULE UserWorkflow ----------------------------
(***************************************************************************)
(* The user workload, user/{scheduler,worker,workflow,timerange}.go: users *)
(* are launched along a ramp, each runs the queries of its workflow with a *)
(* time range and binds that are sampled per query, per pass over the list *)
(* or once, and a failed worker is replaced by a new one. A time range or  *)
(* a bind is represented by the NextQuery call in which it was obtained.   *)
(***************************************************************************)
EXTENDS TimeRange, Sequences, FiniteSets

CONSTANTS
    Threads,      \* cfg.Threads
    Names,        \* names of binds
    Configs,      \* workflow settings to consider (see Valid)
    MaxCalls      \* bound: calls of NextQuery by one user

Users == 1 .. Threads
None == 0         \* no time range; calls are counted from 1

QueryConfigs == [range : {"none", "own", "default"}, vars : SUBSET Names,
                 preflights : Seq(SUBSET Names)]
Cadences == {"once", "per_loop", "per_query"}
WorkflowConfigs ==
    [random : BOOLEAN, ramp : BOOLEAN, duration : BOOLEAN, defaultRange : BOOLEAN,
     rangeCadence : Cadences, preflightCadence : Cadences, vars : SUBSET Names,
     preflights : Seq(SUBSET Names), queries : Seq(QueryConfigs)]

\* QueriesWorkflowConfig.Validate: settings that sample per pass need a list
\* that is run in order, and there is a query.
Valid(c) == /\ c.random => "per_loop" \notin {c.rangeCadence, c.preflightCadence}
            /\ c.rangeCadence \in {"per_query", "per_loop"}
            /\ c.preflightCadence \in Cadences
            /\ Len(c.queries) > 0

ASSUME UserAssumption ==
    /\ Threads \in Nat \ {0} /\ MaxCalls \in Nat
    /\ Configs \subseteq WorkflowConfigs
    /\ \A c \in Configs : Valid(c)

VARIABLES
    cfg,            \* the settings of this run
    ctx,            \* "live", "cancelled" by the program or "expired" (cfg.Duration)
    launched,       \* users started by Scheduler.Run so far
    returned,       \* Scheduler.Run has returned
    pc,             \* a user's place
    index,          \* workflow.index
    range,          \* workflow.sampledTimeRange
    cached, binds,  \* workflow.workflowBindsCached, workflowBinds
    query,          \* the query under way: position, time range, binds, preflights run
    calls,          \* history: NextQuery calls of a user
    pass,           \* history: the call that started the pass over the list
    sampled         \* history: default ranges and fetches used by the queries of this pass (worker)

workflow == <<index, range, cached, binds>>
history == <<calls, pass, sampled>>
vars == <<cfg, ctx, launched, returned, pc, workflow, query, history>>

NoBinds == [n \in {} |-> None]
\* A query under way, and the same one with other binds.
QueryUnderWay(i, t, b, k) == [at |-> i, range |-> t, binds |-> b, ran |-> k]
NoQuery == QueryUnderWay(0, None, NoBinds, 0)
With(q, b, k) == QueryUnderWay(q.at, q.range, b, k)
Query(u) == cfg.queries[query[u].at]
PerLoop(cadence) == cadence = "per_loop"

TypeOK ==
    /\ cfg \in Configs /\ ctx \in {"live", "cancelled", "expired"}
    /\ launched \in 0 .. Threads /\ returned \in BOOLEAN
    /\ pc \in [Users -> {"unborn", "start", "backoff", "top", "shared", "own", "exec", "think", "gone"}]
    /\ index \in [Users -> Nat] /\ range \in [Users -> 0 .. MaxCalls]
    /\ cached \in [Users -> BOOLEAN]
    /\ calls \in [Users -> 0 .. MaxCalls]

Init ==
    /\ cfg \in Configs /\ ctx = "live" /\ launched = 0 /\ returned = FALSE
    /\ pc = [u \in Users |-> "unborn"]
    /\ index = [u \in Users |-> 0] /\ range = [u \in Users |-> None]
    /\ cached = [u \in Users |-> FALSE] /\ binds = [u \in Users |-> NoBinds]
    /\ query = [u \in Users |-> NoQuery]
    /\ calls = [u \in Users |-> 0] /\ pass = [u \in Users |-> 0]
    /\ sampled = [u \in Users |-> {}]

Goto(u, l) == pc' = [pc EXCEPT ![u] = l]

-----------------------------------------------------------------------------
(* Scheduler *)

EndContext ==
    /\ ctx = "live"
    /\ ctx' = "cancelled" \/ (cfg.duration /\ ctx' = "expired")
    /\ UNCHANGED <<cfg, launched, returned, pc, workflow, query, history>>

\* Scheduler.Run starts the next user; with a ramp it waits first, and gives up
\* the rest when the context ends.
Launch ==
    /\ launched < Threads /\ ~returned
    /\ launched' = launched + 1
    /\ Goto(launched + 1, "start")
    /\ UNCHANGED <<cfg, ctx, returned, workflow, query, history>>

\* wg.Wait, after the last user or in the middle of the ramp.
SchedulerReturn ==
    /\ ~returned
    /\ launched = Threads \/ (cfg.ramp /\ Threads > 1 /\ ctx # "live")
    /\ \A u \in 1 .. launched : pc[u] = "gone"
    /\ returned' = TRUE
    /\ UNCHANGED <<cfg, ctx, launched, pc, workflow, query, history>>

\* Mutant: a new worker is made after the end as well.
NewWorker_Unchecked(u) ==
    /\ pc[u] = "start"
    /\ \/ Goto(u, "backoff") /\ UNCHANGED <<workflow, sampled>>
       \/ /\ Goto(u, "top")
          /\ index' = [index EXCEPT ![u] = 0] /\ range' = [range EXCEPT ![u] = None]
          /\ cached' = [cached EXCEPT ![u] = FALSE]
          /\ binds' = [binds EXCEPT ![u] = NoBinds]
          /\ sampled' = [sampled EXCEPT ![u] = {}]
    /\ UNCHANGED <<cfg, ctx, launched, returned, query, calls, pass>>

\* runWorker: a new worker with a new workflow, or another attempt after a delay.
NewWorker(u) ==
    /\ pc[u] = "start"
    /\ \/ ctx # "live" /\ Goto(u, "gone") /\ UNCHANGED <<workflow, sampled>>
       \/ ctx = "live" /\ Goto(u, "backoff") /\ UNCHANGED <<workflow, sampled>>
       \/ /\ ctx = "live" /\ Goto(u, "top")
          /\ index' = [index EXCEPT ![u] = 0] /\ range' = [range EXCEPT ![u] = None]
          /\ cached' = [cached EXCEPT ![u] = FALSE]
          /\ binds' = [binds EXCEPT ![u] = NoBinds]
          /\ sampled' = [sampled EXCEPT ![u] = {}]
    /\ UNCHANGED <<cfg, ctx, launched, returned, query, calls, pass>>

Backoff(u) ==
    /\ pc[u] = "backoff"
    /\ Goto(u, "start") \/ (ctx # "live" /\ Goto(u, "gone"))
    /\ UNCHANGED <<cfg, ctx, launched, returned, workflow, query, history>>

-----------------------------------------------------------------------------
(* QueriesWorkflow.NextQuery *)

\* resolveTimeRange for query q in call t: its own range, else the default one,
\* sampled again or kept (held is what a pass has so far). An answer is the
\* query's range and the workflow's.
resolveTimeRange(q, t, held) ==
    CASE q.range = "none" -> [used |-> None, held |-> held]
      [] q.range = "own" -> [used |-> t, held |-> held]
      [] q.range = "default" /\ ~cfg.defaultRange -> [used |-> None, held |-> held]
      [] OTHER -> LET r == IF cfg.rangeCadence = "per_query" \/ held = None THEN t ELSE held
                  IN  [used |-> r, held |-> r]

\* The binds b with the given names bound, or bound again, by source s in call t.
Bind(names, s, t, b) ==
    [n \in names \cup DOMAIN b |-> IF n \in names THEN [by |-> s, call |-> t] ELSE b[n]]

\* The workflow's binds are ready: they and the query's own vars, which take
\* precedence, are what the query (or its preflights) receives.
Receive(u, shared) ==
    /\ query' = [query EXCEPT ![u] =
                    With(@, Bind(Query(u).vars, "query_var", calls[u], shared), 0)]
    /\ Goto(u, IF Query(u).preflights = <<>> THEN "exec" ELSE "own")

\* nextQueryConfig: the query at position i; the first of the list starts a
\* pass and forgets what is sampled per pass.
Positions(u) == IF cfg.random THEN DOMAIN cfg.queries ELSE {(index[u] % Len(cfg.queries)) + 1}
Wraps(i) == ~cfg.random /\ i = 1

\* Mutant: the binds are forgotten only together with the range.
ForgetsBinds_WithRange(i) == Wraps(i) /\ PerLoop(cfg.preflightCadence) /\ PerLoop(cfg.rangeCadence)

ForgetsBinds(i) == Wraps(i) /\ PerLoop(cfg.preflightCadence)
ForgetsRange(i) == Wraps(i) /\ PerLoop(cfg.rangeCadence)
Lasting(samples) == {x \in samples : x[1] = "fetch" /\ cfg.preflightCadence = "once"}
NextQuery(u) ==
    /\ pc[u] = "top" /\ ctx = "live" /\ calls[u] < MaxCalls
    /\ calls' = [calls EXCEPT ![u] = @ + 1]
    /\ \E i \in Positions(u) :
         LET r == resolveTimeRange(cfg.queries[i], calls[u] + 1,
                                   IF ForgetsRange(i) THEN None ELSE range[u])
         IN
         /\ index' = [index EXCEPT ![u] = IF cfg.random THEN @ ELSE @ + 1]
         /\ range' = [range EXCEPT ![u] = r.held]
         /\ cached' = [cached EXCEPT ![u] = @ /\ ~ForgetsBinds(i)]
         /\ query' = [query EXCEPT ![u] = QueryUnderWay(i, r.used, NoBinds, 0)]
         /\ pass' = [pass EXCEPT ![u] = IF Wraps(i) THEN calls[u] + 1 ELSE @]
         /\ sampled' = [sampled EXCEPT ![u] = IF Wraps(i) THEN Lasting(@) ELSE @]
    /\ Goto(u, "shared")
    /\ UNCHANGED <<cfg, ctx, launched, returned, binds>>

\* ResetLoop, and where Run goes when NextQuery has failed.
ResetLoop(u) == index' = [index EXCEPT ![u] =
    IF PerLoop(cfg.preflightCadence) THEN (@ \div Len(cfg.queries)) * Len(cfg.queries) ELSE @]
Fail(u) ==
    /\ \/ ctx = "cancelled" /\ Goto(u, "top") /\ UNCHANGED index          \* context.Canceled
       \/ Goto(u, "top") /\ ResetLoop(u)                                  \* sql.ErrNoRows
       \/ /\ PerLoop(cfg.preflightCadence)                                \* any other error
          /\ Goto(u, "top") /\ ResetLoop(u)
       \/ /\ ~PerLoop(cfg.preflightCadence)
          /\ Goto(u, "backoff") \/ (ctx = "expired" /\ Goto(u, "gone"))
          /\ UNCHANGED index
    /\ UNCHANGED <<cfg, ctx, launched, returned, range, cached, binds, query, history>>

\* getWorkloadBinds: the cached binds, or the vars and then the answers of the
\* workflow's preflights (one step for each), each of which receives what has
\* been bound so far.
CachedBinds(u) ==
    /\ pc[u] = "shared" /\ cached[u] /\ cfg.preflightCadence # "per_query"
    /\ Receive(u, binds[u])
    /\ UNCHANGED <<cfg, ctx, launched, returned, workflow, history>>

\* Mutant: the cache keeps the map the query received.
Keep_WithQueryVars(u, all) ==
    IF cfg.preflightCadence = "per_query" THEN UNCHANGED <<cached, binds>>
    ELSE /\ cached' = [cached EXCEPT ![u] = TRUE]
         /\ binds' = [binds EXCEPT ![u] = Bind(Query(u).vars, "query_var", calls[u], all)]

\* The last answer has been merged (there may be none to ask for): keep them
\* unless they are for this query only.
Keep(u, all) ==
    IF cfg.preflightCadence = "per_query" THEN UNCHANGED <<cached, binds>>
    ELSE cached' = [cached EXCEPT ![u] = TRUE] /\ binds' = [binds EXCEPT ![u] = all]

SharedPreflight(u) ==
    /\ pc[u] = "shared" /\ ~(cached[u] /\ cfg.preflightCadence # "per_query")
    /\ LET ran == query[u].ran
           before == IF ran = 0 THEN Bind(cfg.vars, "var", calls[u], NoBinds) ELSE query[u].binds
       IN  \/ /\ ran < Len(cfg.preflights)
              /\ query' = [query EXCEPT ![u] =
                    With(@, Bind(cfg.preflights[ran + 1], "preflight", calls[u], before), ran + 1)]
              /\ UNCHANGED <<pc, cached, binds>>
           \/ /\ ran = Len(cfg.preflights)
              /\ Receive(u, before)
              /\ Keep(u, before)
    /\ UNCHANGED <<cfg, ctx, launched, returned, index, range, history>>

SharedPreflightFails(u) ==
    /\ pc[u] = "shared" /\ ~(cached[u] /\ cfg.preflightCadence # "per_query")
    /\ query[u].ran < Len(cfg.preflights)
    /\ Fail(u)

\* The query's own preflights; after the last one the query is complete.
OwnPreflight(u) ==
    /\ pc[u] = "own"
    /\ LET ran == query[u].ran IN
       /\ query' = [query EXCEPT ![u] =
             With(@, Bind(Query(u).preflights[ran + 1], "query_preflight", calls[u], @.binds), ran + 1)]
       /\ IF ran + 1 = Len(Query(u).preflights) THEN Goto(u, "exec") ELSE UNCHANGED pc
    /\ UNCHANGED <<cfg, ctx, launched, returned, workflow, history>>

OwnPreflightFails(u) == pc[u] = "own" /\ Fail(u)

-----------------------------------------------------------------------------
(* Worker.Run *)

\* The default range and the fetches the query uses.
Samples(u) ==
    (IF Query(u).range = "default" /\ cfg.defaultRange THEN {<<"range", query[u].range>>} ELSE {})
      \cup {<<"fetch", query[u].binds[n].call>> :
              n \in {n \in DOMAIN query[u].binds : query[u].binds[n].by \in {"var", "preflight"}}}

\* Exec: a cancelled query is not counted, any other is, a deadline's included.
Exec(u) ==
    /\ pc[u] = "exec"
    /\ (ctx = "cancelled" /\ Goto(u, "top")) \/ Goto(u, "think")
    /\ sampled' = [sampled EXCEPT ![u] = @ \cup Samples(u)]
    /\ UNCHANGED <<cfg, ctx, launched, returned, workflow, query, calls, pass>>

Think(u) ==
    /\ pc[u] = "think" /\ Goto(u, "top")
    /\ UNCHANGED <<cfg, ctx, launched, returned, workflow, query, history>>

\* The top of the loop after the context has ended: Run and runWorker return.
Leave(u) ==
    /\ pc[u] = "top" /\ ctx # "live"
    /\ Goto(u, "gone")
    /\ UNCHANGED <<cfg, ctx, launched, returned, workflow, query, history>>

-----------------------------------------------------------------------------
User(u) ==
    \/ NewWorker(u) \/ Backoff(u) \/ NextQuery(u) \/ CachedBinds(u)
    \/ SharedPreflight(u) \/ SharedPreflightFails(u) \/ OwnPreflight(u) \/ OwnPreflightFails(u)
    \/ Exec(u) \/ Think(u) \/ Leave(u)

\* The program is over, or the users are at their bound and go on for ever.
Rest ==
    /\ returned \/ \A u \in Users : pc[u] = "top" /\ calls[u] = MaxCalls
    /\ UNCHANGED vars

Next == EndContext \/ Launch \/ SchedulerReturn \/ Rest \/ \E u \in Users : User(u)
Spec == Init /\ [][Next]_vars

\* Goroutines take their next step, the scheduler leaves its waits, and a query
\* returns once its context has ended; nothing obliges a context to end.
FairSpec == /\ Spec /\ WF_vars(Launch) /\ WF_vars(SchedulerReturn)
            /\ \A u \in Users : WF_vars(User(u))

-----------------------------------------------------------------------------
(* Properties *)

\* workflow.go:142-203, 257-290. Whatever fails and restarts in between, the
\* queries of one pass over the list see what the settings promise: with
\* per_loop they share one default time range and one fetch of the workflow's
\* binds, obtained in this pass; with per_query a query's are its own.
Draws(u, what) == {x[2] : x \in {y \in sampled[u] \cup Samples(u) : y[1] = what}}
Cadence(u, what, cadence) ==
    /\ PerLoop(cadence) => /\ Cardinality(Draws(u, what)) =< 1
                           /\ \A t \in Draws(u, what) : t >= pass[u]
    /\ cadence = "per_query" => \A x \in Samples(u) : x[1] = what => x[2] = calls[u]
    /\ cadence = "once" => Cardinality(Draws(u, what)) =< 1
SampledAsConfigured ==
    \A u \in Users : pc[u] = "exec" =>
        /\ Cadence(u, "range", cfg.rangeCadence)
        /\ Cadence(u, "fetch", cfg.preflightCadence)

\* workflow.go:103-118, 178-234. A query runs with each name bound by the most
\* specific source that defines it (its preflights, its vars, the workflow's
\* preflights, the workflow's vars): what one query binds for itself never
\* reaches another through the cached map.
Answers(preflights) == UNION {preflights[i] : i \in DOMAIN preflights}
Source(u, n) ==
    IF n \in Answers(Query(u).preflights) THEN "query_preflight"
    ELSE IF n \in Query(u).vars THEN "query_var"
    ELSE IF n \in Answers(cfg.preflights) THEN "preflight" ELSE "var"
BindsPrecede ==
    \A u \in Users : pc[u] = "exec" => LET b == query[u].binds IN
        /\ DOMAIN b = cfg.vars \cup Answers(cfg.preflights)
                        \cup Query(u).vars \cup Answers(Query(u).preflights)
        /\ \A n \in DOMAIN b : b[n].by = Source(u, n)

\* workflow.go:142-174, timerange.go, config.go:312-357. The range a user holds,
\* resolved in call t at a time that grows with the calls, is sound under every
\* setting that passed the validation, and those of later calls do not go back
\* in time. The exception are settings that panic: a uniform range with equal
\* bounds, and a random anchor in a data set that does not end after its start.
Time(t) == 10 + t
RangeSound == [t \in 1 .. MaxCalls |-> \A c \in ValidRanges :
    /\ IntervalSound(c, Time(t))
    /\ \A later \in t .. MaxCalls : WindowAdvances(c, Time(t), Time(later))]
RangesResolve == \A u \in Users : range[u] # None => RangeSound[range[u]]

\* scheduler.go:52-79, 88-124. Wherever its users are, in a ramp, a backoff, a
\* preflight, a query or thinking, the scheduler returns after the context has
\* ended.
UsersStop == ctx # "live" ~> returned
=============================================================================
