---------------------------- MODULE PoolManager ----------------------------
(***************************************************************************)
(* src/src/long_running_pool_manager.rs: clients submit query tasks, each  *)
(* is routed by tenant to the bounded channel of one worker, the worker    *)
(* answers it through the task's oneshot channel, and shutdown() polls the *)
(* in-flight counters.  Clients, workers and the shutdown caller are       *)
(* concurrent tasks that share atomics, so every atomic access, channel    *)
(* operation and lock section is a step of its own.                        *)
(*                                                                         *)
(* The shared result cache is the forgetful map of CacheContract: it may   *)
(* lose entries at any time, and here only who produced an entry matters.  *)
(***************************************************************************)
EXTENDS Integers, Sequences, FiniteSets, Functions

CONSTANTS Tasks,         \* the queries ever submitted
          Tenants,
          TenantOf,      \* tenant of each task
          SqlOf,         \* SQL text of each task
          worker_count, queue_depth,   \* PoolConfig
          DrainPolls,    \* polls of shutdown() within drain_timeout_secs
          MaxPanics      \* bound on the queries that panic

NoTask == [kind |-> "no task"]

ASSUME PoolConstants ==
  /\ NoTask \notin Tasks
  /\ TenantOf \in [Tasks -> Tenants]
  /\ Tasks \subseteq DOMAIN SqlOf
  /\ worker_count \in Nat \ {0}   \* submit indexes workers[0]
  /\ queue_depth \in Nat \ {0}    \* mpsc::channel(0) panics
  /\ DrainPolls \in Nat
  /\ MaxPanics \in Nat

VARIABLES config_valid,    \* whether InitConfig::validate accepts the config
          manager,         \* FALSE once the manager (and its senders) is dropped
          shutdown,        \* the shutdown flag
          tenant_affinity, \* tenants pinned to a worker -> that worker
          cache,           \* cached (tenant, sql) keys -> the task that produced it
          queue,           \* per worker: tasks in its channel
          rx_open,         \* per worker: the receiver exists
          in_flight, alive,
          wpc, wtask, wres,   \* per worker: control point, task in hand, its result
          cpc, target,        \* per task: the submitting client, the worker chosen
          reply,              \* per task: what came through the oneshot channel
          dpc, scan, polls, busy,  \* shutdown(): point, next worker, sleeps, sum > 0
          panics

clientVars == <<cpc, target, tenant_affinity>>
workerVars == <<wpc, wtask, wres, in_flight, alive, rx_open>>
drainVars == <<shutdown, dpc, scan, polls, busy>>
vars == <<config_valid, manager, cache, queue, reply, panics,
          clientVars, workerVars, drainVars>>

Workers == 0 .. worker_count - 1
NoResult == [kind |-> "none"]

(* Faulty variant: the cache key leaves the tenant out.                    *)
Key_NoTenant(t) == <<"any", SqlOf[t]>>

Key(t) == <<TenantOf[t], SqlOf[t]>>

(* The oneshot answers: rows produced by task `by`, or an error, or a      *)
(* sender dropped unused.                                                  *)
None == [kind |-> "none"]
Rows(by) == [kind |-> "rows", by |-> by]
EngineError == [kind |-> "engine error"]
ShutdownError == [kind |-> "shutdown"]
Dropped == [kind |-> "dropped"]

InQueue(w) == {queue[w][i] : i \in DOMAIN queue[w]}
HasRoom(w) == Len(queue[w]) < queue_depth

Goto(w, point) == wpc' = [wpc EXCEPT ![w] = point]

-----------------------------------------------------------------------------
(* start(): the channels exist and the workers are spawned.                *)
Init ==
  /\ config_valid \in BOOLEAN
  /\ manager = TRUE
  /\ shutdown = FALSE
  /\ tenant_affinity = <<>>
  /\ cache = <<>>
  /\ queue = [w \in Workers |-> <<>>]
  /\ rx_open = [w \in Workers |-> TRUE]
  /\ in_flight = [w \in Workers |-> 0]
  /\ alive = [w \in Workers |-> TRUE]
  /\ wpc = [w \in Workers |-> "init"]
  /\ wtask = [w \in Workers |-> NoTask]
  /\ wres = [w \in Workers |-> NoResult]
  /\ cpc = [t \in Tasks |-> "new"]
  /\ target = [t \in Tasks |-> 0]
  /\ reply = [t \in Tasks |-> None]
  /\ dpc = "up" /\ scan = 0 /\ polls = 0 /\ busy = FALSE
  /\ panics = 0

-----------------------------------------------------------------------------
(* submit(): the shutdown check.                                           *)
Submit(t) ==
  /\ manager
  /\ cpc[t] = "new"
  /\ cpc' = [cpc EXCEPT ![t] = IF shutdown THEN "refused" ELSE "routing"]
  /\ UNCHANGED <<target, tenant_affinity, config_valid, manager, cache, queue,
                 reply, panics, workerVars, drainVars>>

(* select_worker under the read lock: a pinned worker that is alive, and   *)
(* then whether it has room.  The second read uses the worker id the first *)
(* one found, so what others do to the map in between does not matter.     *)
Sticky(t) ==
  /\ TenantOf[t] \in DOMAIN tenant_affinity
  /\ alive[tenant_affinity[TenantOf[t]]]

ReadAffinity(t) ==
  /\ cpc[t] = "routing"
  /\ \/ /\ Sticky(t)
        /\ target' = [target EXCEPT ![t] = tenant_affinity[TenantOf[t]]]
        /\ cpc' = [cpc EXCEPT ![t] = "checking"]
     \/ /\ ~ Sticky(t)
        /\ cpc' = [cpc EXCEPT ![t] = "picking"]
        /\ UNCHANGED target
  /\ UNCHANGED <<tenant_affinity, config_valid, manager, cache, queue,
                 reply, panics, workerVars, drainVars>>

CheckCapacity(t) ==
  /\ cpc[t] = "checking"
  /\ cpc' = [cpc EXCEPT ![t] = IF HasRoom(target[t]) THEN "sending" ELSE "picking"]
  /\ UNCHANGED <<target, tenant_affinity, config_valid, manager, cache, queue,
                 reply, panics, workerVars, drainVars>>

Live == {w \in Workers : alive[w]}

(* min_by_key over the live workers takes the first of the least loaded;   *)
(* with none alive the choice falls back to worker 0.                      *)
LeastLoaded(w) ==
  IF Live = {} THEN w = 0
  ELSE /\ w \in Live
       /\ \A v \in Live : \/ in_flight[w] < in_flight[v]
                          \/ in_flight[w] = in_flight[v] /\ w <= v

PickWorker(t) ==
  /\ cpc[t] = "picking"
  /\ \E w \in Workers : LeastLoaded(w) /\ target' = [target EXCEPT ![t] = w]
  /\ cpc' = [cpc EXCEPT ![t] = "pinning"]
  /\ UNCHANGED <<tenant_affinity, config_valid, manager, cache, queue,
                 reply, panics, workerVars, drainVars>>

(* select_worker under the write lock.                                     *)
Pin(t) ==
  /\ cpc[t] = "pinning"
  /\ tenant_affinity' = [x \in DOMAIN tenant_affinity \cup {TenantOf[t]} |->
                           IF x = TenantOf[t] THEN target[t] ELSE tenant_affinity[x]]
  /\ cpc' = [cpc EXCEPT ![t] = "sending"]
  /\ UNCHANGED <<target, config_valid, manager, cache, queue, reply, panics,
                 workerVars, drainVars>>

(* try_send: a full channel and a closed one give the same QueueFull.      *)
TrySend(t) ==
  /\ cpc[t] = "sending"
  /\ \/ /\ rx_open[target[t]] /\ HasRoom(target[t])
        /\ queue' = [queue EXCEPT ![target[t]] = Append(@, t)]
        /\ cpc' = [cpc EXCEPT ![t] = "accepted"]
     \/ /\ ~ (rx_open[target[t]] /\ HasRoom(target[t]))
        /\ cpc' = [cpc EXCEPT ![t] = "queue full"]
        /\ UNCHANGED queue
  /\ UNCHANGED <<target, tenant_affinity, config_valid, manager, cache, reply,
                 panics, workerVars, drainVars>>

Client(t) ==
  \/ Submit(t) \/ ReadAffinity(t) \/ CheckCapacity(t) \/ PickWorker(t) \/ Pin(t)
  \/ TrySend(t)

-----------------------------------------------------------------------------
(* Faulty variant: the channel outlives its worker with its tasks in it.   *)
DropReceiver_Leak(w, inHand) ==
  /\ rx_open' = [rx_open EXCEPT ![w] = FALSE]
  /\ queue' = queue
  /\ reply' = [t \in Tasks |-> IF t \in inHand THEN Dropped ELSE reply[t]]

(* The end of worker w: dropping the receiver drops the queued tasks and   *)
(* with them their reply senders; `inHand` is a task dropped in flight.    *)
DropReceiver(w, inHand) ==
  /\ rx_open' = [rx_open EXCEPT ![w] = FALSE]
  /\ queue' = [queue EXCEPT ![w] = <<>>]
  /\ reply' = [t \in Tasks |-> IF t \in InQueue(w) \cup inHand THEN Dropped ELSE reply[t]]

(* worker_loop: K04DEngine::new_with_config and the initial bundle.        *)
StartEngine(w) ==
  /\ wpc[w] = "init"
  /\ \/ /\ config_valid
        /\ Goto(w, "top")
        /\ UNCHANGED alive
     \/ /\ ~ config_valid
        /\ Goto(w, "closing")
        /\ alive' = [alive EXCEPT ![w] = FALSE]
  /\ UNCHANGED <<wtask, wres, in_flight, rx_open, config_valid, manager, cache,
                 queue, reply, panics, clientVars, drainVars>>

CheckShutdown(w) ==
  /\ wpc[w] = "top"
  /\ Goto(w, IF shutdown THEN "draining" ELSE "receiving")
  /\ UNCHANGED <<wtask, wres, in_flight, alive, rx_open, config_valid, manager,
                 cache, queue, reply, panics, clientVars, drainVars>>

(* recv() with its 500ms timeout: a task, or the channel closed because    *)
(* the manager is gone, or nothing yet.                                    *)
Recv(w) ==
  /\ wpc[w] = "receiving"
  /\ queue[w] # <<>>
  /\ wtask' = [wtask EXCEPT ![w] = Head(queue[w])]
  /\ queue' = [queue EXCEPT ![w] = Tail(@)]
  /\ Goto(w, "received")
  /\ UNCHANGED <<wres, in_flight, alive, rx_open, config_valid, manager, cache,
                 reply, panics, clientVars, drainVars>>

(* Faulty variant: the timeout of recv() ends the worker as well.          *)
RecvNothing_TimeoutExits(w) ==
  /\ wpc[w] = "receiving"
  /\ queue[w] = <<>>
  /\ Goto(w, "exiting")
  /\ UNCHANGED <<wtask, wres, in_flight, alive, rx_open, config_valid, manager,
                 cache, queue, reply, panics, clientVars, drainVars>>

RecvNothing(w) ==
  /\ wpc[w] = "receiving"
  /\ queue[w] = <<>>
  /\ Goto(w, IF manager THEN "top" ELSE "exiting")
  /\ UNCHANGED <<wtask, wres, in_flight, alive, rx_open, config_valid, manager,
                 cache, queue, reply, panics, clientVars, drainVars>>

(* Faulty variant: the fetch_add is missing.                               *)
CountIn_Missing(w) ==
  /\ wpc[w] = "received"
  /\ Goto(w, "looking up")
  /\ UNCHANGED <<in_flight, wtask, wres, alive, rx_open, config_valid, manager,
                 cache, queue, reply, panics, clientVars, drainVars>>

CountIn(w) ==
  /\ wpc[w] = "received"
  /\ in_flight' = [in_flight EXCEPT ![w] = @ + 1]
  /\ Goto(w, "looking up")
  /\ UNCHANGED <<wtask, wres, alive, rx_open, config_valid, manager, cache,
                 queue, reply, panics, clientVars, drainVars>>

(* execute_query_task: the cache first.                                    *)
LookUp(w) ==
  /\ wpc[w] = "looking up"
  /\ LET k == Key(wtask[w]) IN
     \/ /\ k \in DOMAIN cache
        /\ wres' = [wres EXCEPT ![w] = Rows(cache[k])]
        /\ Goto(w, "executed")
     \/ /\ k \notin DOMAIN cache
        /\ Goto(w, "querying")
        /\ UNCHANGED wres
  /\ UNCHANGED <<wtask, in_flight, alive, rx_open, config_valid, manager, cache,
                 queue, reply, panics, clientVars, drainVars>>

(* engine.query: rows or an error ...                                      *)
Query(w) ==
  /\ wpc[w] = "querying"
  /\ \E r \in {Rows(wtask[w]), EngineError} : wres' = [wres EXCEPT ![w] = r]
  /\ Goto(w, "executed")
  /\ UNCHANGED <<wtask, in_flight, alive, rx_open, config_valid, manager, cache,
                 queue, reply, panics, clientVars, drainVars>>

(* ... or a panic: the spawned task unwinds, which drops the task in hand  *)
(* and the receiver but neither `alive` nor `in_flight` is updated.        *)
QueryPanic(w) ==
  /\ wpc[w] = "querying"
  /\ panics < MaxPanics
  /\ panics' = panics + 1
  /\ Goto(w, "panicked")
  /\ wtask' = [wtask EXCEPT ![w] = NoTask]
  /\ DropReceiver(w, {wtask[w]})
  /\ UNCHANGED <<wres, in_flight, alive, config_valid, manager, cache,
                 clientVars, drainVars>>

(* Faulty variant: the fetch_sub is missing.                               *)
CountOut_Missing(w) ==
  /\ wpc[w] = "executed"
  /\ Goto(w, "storing")
  /\ UNCHANGED <<in_flight, wtask, wres, alive, rx_open, config_valid, manager,
                 cache, queue, reply, panics, clientVars, drainVars>>

CountOut(w) ==
  /\ wpc[w] = "executed"
  /\ in_flight' = [in_flight EXCEPT ![w] = @ - 1]
  /\ Goto(w, "storing")
  /\ UNCHANGED <<wtask, wres, alive, rx_open, config_valid, manager, cache,
                 queue, reply, panics, clientVars, drainVars>>

(* cache.put on every success, a hit included.                             *)
StoreResult(w) ==
  /\ wpc[w] = "storing"
  /\ LET k == Key(wtask[w]) IN
     cache' = IF wres[w].kind = "rows"
              THEN [x \in DOMAIN cache \cup {k} |->
                      IF x = k THEN wres[w].by ELSE cache[x]]
              ELSE cache
  /\ Goto(w, "replying")
  /\ UNCHANGED <<wtask, wres, in_flight, alive, rx_open, config_valid, manager,
                 queue, reply, panics, clientVars, drainVars>>

Reply(w) ==
  /\ wpc[w] = "replying"
  /\ reply' = [reply EXCEPT ![wtask[w]] = wres[w]]
  /\ wtask' = [wtask EXCEPT ![w] = NoTask]
  /\ wres' = [wres EXCEPT ![w] = NoResult]
  /\ Goto(w, "top")
  /\ UNCHANGED <<in_flight, alive, rx_open, config_valid, manager, cache, queue,
                 panics, clientVars, drainVars>>

(* Faulty variant: the drain takes the tasks out and answers nobody.       *)
Drain_Silent(w) ==
  /\ wpc[w] = "draining"
  /\ \/ /\ queue[w] # <<>>
        /\ queue' = [queue EXCEPT ![w] = Tail(@)]
        /\ UNCHANGED wpc
     \/ /\ queue[w] = <<>>
        /\ Goto(w, "exiting")
        /\ UNCHANGED queue
  /\ UNCHANGED <<reply, wtask, wres, in_flight, alive, rx_open, config_valid,
                 manager, cache, panics, clientVars, drainVars>>

(* The drain at shutdown: queued tasks are answered with an error.         *)
Drain(w) ==
  /\ wpc[w] = "draining"
  /\ \/ /\ queue[w] # <<>>
        /\ reply' = [reply EXCEPT ![Head(queue[w])] = ShutdownError]
        /\ queue' = [queue EXCEPT ![w] = Tail(@)]
        /\ UNCHANGED wpc
     \/ /\ queue[w] = <<>>
        /\ Goto(w, "exiting")
        /\ UNCHANGED <<reply, queue>>
  /\ UNCHANGED <<wtask, wres, in_flight, alive, rx_open, config_valid, manager,
                 cache, panics, clientVars, drainVars>>

MarkDead(w) ==
  /\ wpc[w] = "exiting"
  /\ alive' = [alive EXCEPT ![w] = FALSE]
  /\ Goto(w, "closing")
  /\ UNCHANGED <<wtask, wres, in_flight, rx_open, config_valid, manager, cache,
                 queue, reply, panics, clientVars, drainVars>>

(* worker_loop returns and its receiver goes out of scope.                 *)
Close(w) ==
  /\ wpc[w] = "closing"
  /\ DropReceiver(w, {})
  /\ Goto(w, "stopped")
  /\ UNCHANGED <<wtask, wres, in_flight, alive, config_valid, manager, cache,
                 panics, clientVars, drainVars>>

(* What a worker does when it is scheduled and its query returns.          *)
Worker(w) ==
  \/ StartEngine(w) \/ CheckShutdown(w) \/ Recv(w) \/ RecvNothing(w)
  \/ CountIn(w) \/ LookUp(w) \/ Query(w) \/ CountOut(w) \/ StoreResult(w)
  \/ Reply(w) \/ Drain(w) \/ MarkDead(w) \/ Close(w)

-----------------------------------------------------------------------------
(* shutdown(): raise the flag, then poll.                                  *)
BeginShutdown ==
  /\ manager
  /\ dpc = "up"
  /\ shutdown' = TRUE
  /\ dpc' = "polling"
  /\ UNCHANGED <<scan, polls, busy, config_valid, manager, cache, queue, reply,
                 panics, clientVars, workerVars>>

(* The sum reads the counters one after the other.                         *)
ScanWorker ==
  /\ dpc = "polling"
  /\ scan < worker_count
  /\ busy' = (busy \/ in_flight[scan] > 0)
  /\ scan' = scan + 1
  /\ UNCHANGED <<shutdown, dpc, polls, config_valid, manager, cache, queue,
                 reply, panics, clientVars, workerVars>>

(* Faulty variant: polling goes on as long as a query is counted.          *)
PollDone_NoDeadline ==
  /\ dpc = "polling"
  /\ scan = worker_count
  /\ dpc' = IF busy THEN "polling" ELSE "drained"
  /\ scan' = IF busy THEN 0 ELSE scan
  /\ busy' = FALSE
  /\ UNCHANGED <<polls, shutdown, config_valid, manager, cache, queue, reply,
                 panics, clientVars, workerVars>>

(* The sum is zero, or the deadline has passed, or sleep and poll again.   *)
PollDone ==
  /\ dpc = "polling"
  /\ scan = worker_count
  /\ \/ /\ ~ busy
        /\ dpc' = "drained"
        /\ UNCHANGED <<scan, polls, busy>>
     \/ /\ busy /\ polls >= DrainPolls
        /\ dpc' = "forced"
        /\ UNCHANGED <<scan, polls, busy>>
     \/ /\ busy /\ polls < DrainPolls
        /\ polls' = polls + 1
        /\ scan' = 0
        /\ busy' = FALSE
        /\ UNCHANGED dpc
  /\ UNCHANGED <<shutdown, config_valid, manager, cache, queue, reply, panics,
                 clientVars, workerVars>>

(* refresh_contract_bundle: only the tenant's cache entries go.            *)
RefreshContractBundle(x) ==
  /\ manager
  /\ cache' = Restrict(cache, {k \in DOMAIN cache : k[1] # x})
  /\ UNCHANGED <<config_valid, manager, queue, reply, panics, clientVars,
                 workerVars, drainVars>>

(* External: the cache loses an entry (expiry, eviction).                  *)
CacheForgets ==
  /\ \E k \in DOMAIN cache : cache' = Restrict(cache, DOMAIN cache \ {k})
  /\ UNCHANGED <<config_valid, manager, queue, reply, panics, clientVars,
                 workerVars, drainVars>>

(* External: the owner lets go of the manager, which closes the channels.  *)
DropManager ==
  /\ manager
  /\ \A t \in Tasks : cpc[t] \in {"new", "refused", "accepted", "queue full"}
  /\ dpc # "polling"
  /\ manager' = FALSE
  /\ UNCHANGED <<config_valid, cache, queue, reply, panics, clientVars,
                 workerVars, drainVars>>

Next ==
  \/ \E t \in Tasks : Client(t)
  \/ \E w \in Workers : Worker(w) \/ QueryPanic(w)
  \/ BeginShutdown \/ ScanWorker \/ PollDone
  \/ \E x \in Tenants : RefreshContractBundle(x)
  \/ CacheForgets
  \/ DropManager

Spec == Init /\ [][Next]_vars

(* Tasks that were started keep running: tokio polls every ready task and  *)
(* a query that does not panic returns.  Nobody has to submit, to shut     *)
(* down, to refresh or to drop the manager.                                *)
FairSpec ==
  /\ Spec
  /\ \A t \in Tasks :
       WF_vars(ReadAffinity(t) \/ CheckCapacity(t) \/ PickWorker(t) \/ Pin(t) \/ TrySend(t))
  /\ \A w \in Workers : WF_vars(Worker(w))
  /\ WF_vars(ScanWorker \/ PollDone)

-----------------------------------------------------------------------------
Points == {"init", "top", "receiving", "received", "looking up", "querying",
           "executed", "storing", "replying", "draining", "exiting", "closing",
           "stopped", "panicked"}

Results == {EngineError, NoResult} \cup {Rows(t) : t \in Tasks}

ClientOK ==
  /\ \E S \in SUBSET Tenants : tenant_affinity \in [S -> Workers]
  /\ cpc \in [Tasks -> {"new", "refused", "routing", "checking", "picking",
                        "pinning", "sending", "accepted", "queue full"}]
  /\ target \in [Tasks -> Workers]

CacheOK == \E S \in SUBSET {Key(t) : t \in Tasks} : cache \in [S -> Tasks]

WorkerOK ==
  /\ rx_open \in [Workers -> BOOLEAN] /\ alive \in [Workers -> BOOLEAN]
  /\ in_flight \in [Workers -> {0, 1}]
  /\ wpc \in [Workers -> Points]
  /\ wtask \in [Workers -> Tasks \cup {NoTask}]
  /\ wres \in [Workers -> Results]

ChannelsOK ==
  /\ queue \in [Workers -> Seq(Tasks)]
  /\ reply \in [Tasks -> Results \cup {ShutdownError, Dropped}]

DrainOK ==
  /\ shutdown \in BOOLEAN /\ dpc \in {"up", "polling", "drained", "forced"}
  /\ scan \in 0 .. worker_count /\ polls \in 0 .. DrainPolls /\ busy \in BOOLEAN

(* Types; no worker counts more than the one query it runs.                *)
TypeOK ==
  /\ config_valid \in BOOLEAN /\ manager \in BOOLEAN /\ panics \in 0 .. MaxPanics
  /\ ClientOK /\ CacheOK /\ WorkerOK /\ ChannelsOK /\ DrainOK

(* Where a task is: positions in channels and workers that hold it.        *)
Places(t) ==
  {x \in Workers \X (1 .. queue_depth) :
      x[2] <= Len(queue[x[1]]) /\ queue[x[1]][x[2]] = t}
  \cup {<<w, 0>> : w \in {v \in Workers : wtask[v] = t}}

(* No task is lost or duplicated between submit, the channels, the workers *)
(* and the end of a worker: an accepted task without an answer is in       *)
(* exactly one place, and any other task is in none.                       *)
OnePlace ==
  \A t \in Tasks :
    Cardinality(Places(t)) =
      IF cpc[t] = "accepted" /\ reply[t] = None THEN 1 ELSE 0

(* in_flight counts the query between its two counter updates and nothing  *)
(* else, which is what shutdown() and least-loaded routing read; a panic   *)
(* leaves it at one for ever.                                              *)
InFlightExact ==
  \A w \in Workers :
    in_flight[w] = IF wpc[w] \in {"looking up", "querying", "executed", "panicked"}
                   THEN 1 ELSE 0

(* A caller only ever gets rows that were computed for its own tenant and  *)
(* SQL text, whoever computed them and through whatever worker or cache    *)
(* entry they came.                                                        *)
RowsOfOwnKey ==
  \A t \in Tasks : reply[t].kind = "rows" =>
    TenantOf[reply[t].by] = TenantOf[t] /\ SqlOf[reply[t].by] = SqlOf[t]

(* A reply channel is dropped without an answer only when the pool is shut *)
(* down, its engines could not be built, or the worker the task was routed *)
(* to panicked; one worker's panic costs no other worker's tasks.          *)
DroppedOnlyByDeadWorker ==
  \A t \in Tasks : reply[t] = Dropped =>
    \/ shutdown
    \/ ~ config_valid
    \/ wpc[target[t]] = "panicked"

(* Every accepted task is settled: its reply channel gets an answer or is  *)
(* closed, whatever shutdown, panic or loss of the manager comes between.  *)
EveryTaskSettles ==
  \A t \in Tasks : cpc[t] = "accepted" ~> reply[t] # None

(* shutdown() returns, and all workers that did not panic stop.            *)
ShutdownCompletes ==
  shutdown ~> /\ dpc \in {"drained", "forced"}
              /\ \A w \in Workers : wpc[w] \in {"stopped", "panicked"}
=============================================================================
