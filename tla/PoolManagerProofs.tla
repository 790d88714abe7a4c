------------------------- MODULE PoolManagerProofs -------------------------
(***************************************************************************)
(* The pool for any number of workers, tasks and tenants: types and        *)
(* counters, what reaches a channel, whose rows reach a caller, which      *)
(* replies are dropped, where every task is.                               *)
(***************************************************************************)
EXTENDS PoolManager, FiniteSetTheorems, TLAPS

(* Results are told apart by their kind, and rows carry their producer.    *)
LEMMA ResultKinds ==
  /\ \A t : Rows(t).kind = "rows" /\ Rows(t).by = t
  /\ \A r \in Results : r.kind = "rows" => r.by \in Tasks /\ r = Rows(r.by)
  /\ EngineError.kind # "rows" /\ NoResult.kind # "rows" /\ None.kind # "rows"
  /\ ShutdownError.kind # "rows" /\ Dropped.kind # "rows"
  /\ \A r \in Results : r # Dropped
  /\ ShutdownError # Dropped /\ None \in Results
<1>1. \A t : Rows(t).kind = "rows" /\ Rows(t).by = t
  BY DEF Rows
<1>2. /\ EngineError.kind = "engine error" /\ NoResult.kind = "none"
      /\ ShutdownError.kind = "shutdown" /\ Dropped.kind = "dropped" /\ None.kind = "none"
  BY DEF EngineError, NoResult, None, ShutdownError, Dropped
<1>3. \A r \in Results : r = EngineError \/ r = NoResult \/ \E t \in Tasks : r = Rows(t)
  BY DEF Results
<1>4. /\ \A r \in Results : r.kind = "rows" => r.by \in Tasks /\ r = Rows(r.by)
      /\ \A r \in Results : r.kind # "dropped"
  BY <1>1, <1>2, <1>3
<1>6. None \in Results
  BY DEF Results, None, NoResult
<1> QED
  BY <1>1, <1>2, <1>4, <1>6

-----------------------------------------------------------------------------
(* Types and counters.                                                     *)

(* A worker between recv() and its answer has a task in hand, and a result *)
(* only after its query.                                                   *)
InHand ==
  \A w \in Workers :
    /\ wpc[w] \in {"received", "looking up", "querying", "executed", "storing", "replying"}
         => wtask[w] \in Tasks
    /\ wpc[w] \notin {"executed", "storing", "replying"} => wres[w] = NoResult

Counted == TypeOK /\ InFlightExact /\ InHand

LEMMA CountedInit == Init => Counted
<1> SUFFICES ASSUME Init PROVE Counted
  OBVIOUS
<1> USE PoolConstants DEF Init
<1>1. ClientOK
  <2>1. tenant_affinity \in [{} -> Workers]
    OBVIOUS
  <2>2. 0 \in Workers
    BY DEF Workers
  <2> QED
    BY <2>1, <2>2 DEF ClientOK
<1>2. CacheOK
  <2>1. cache \in [{} -> Tasks]
    OBVIOUS
  <2> QED
    BY <2>1 DEF CacheOK
<1>3. WorkerOK
  BY DEF WorkerOK, Points, Results
<1>4. ChannelsOK
  BY ResultKinds DEF ChannelsOK
<1>5. DrainOK
  <2>1. scan \in 0 .. worker_count /\ polls \in 0 .. DrainPolls
    OBVIOUS
  <2>2. shutdown \in BOOLEAN /\ busy \in BOOLEAN /\ dpc = "up"
    OBVIOUS
  <2> QED
    BY <2>1, <2>2 DEF DrainOK
<1>6. config_valid \in BOOLEAN /\ manager \in BOOLEAN /\ panics \in 0 .. MaxPanics
  OBVIOUS
<1>7. InFlightExact /\ InHand
  BY DEF InFlightExact, InHand
<1> QED
  BY <1>1, <1>2, <1>3, <1>4, <1>5, <1>6, <1>7 DEF Counted, TypeOK

(* The steps of a client change neither workers nor counters.              *)
LEMMA CountedClient ==
  ASSUME Counted, NEW t \in Tasks, Client(t)
  PROVE  Counted'
<1> USE DEF Counted, TypeOK
<1>1. UNCHANGED <<config_valid, manager, cache, reply, panics, workerVars, drainVars>>
  BY DEF Client, Submit, ReadAffinity, CheckCapacity, PickWorker, Pin, TrySend
<1>2. /\ InFlightExact' /\ InHand' /\ CacheOK' /\ WorkerOK' /\ DrainOK'
      /\ config_valid' \in BOOLEAN /\ manager' \in BOOLEAN /\ panics' \in 0 .. MaxPanics
  BY <1>1 DEF InFlightExact, InHand, CacheOK, WorkerOK, DrainOK, workerVars, drainVars
<1>3. ChannelsOK'
  <2>1. queue' = queue \/ queue' = [queue EXCEPT ![target[t]] = Append(@, t)]
    BY DEF Client, Submit, ReadAffinity, CheckCapacity, PickWorker, Pin, TrySend
  <2>2. Append(queue[target[t]], t) \in Seq(Tasks)
    <3>1. target[t] \in Workers
      BY DEF ClientOK
    <3>2. queue[target[t]] \in Seq(Tasks)
      BY <3>1 DEF ChannelsOK
    <3> QED
      BY <3>2
  <2>3. queue' \in [Workers -> Seq(Tasks)]
    BY <2>1, <2>2 DEF ChannelsOK
  <2> QED
    BY <1>1, <2>3 DEF ChannelsOK
<1>4. PICK S \in SUBSET Tenants : tenant_affinity \in [S -> Workers]
  BY DEF ClientOK
<1>5. ClientOK'
  <2>1. CASE Submit(t)
    BY <2>1 DEF Submit, ClientOK
  <2>2. CASE ReadAffinity(t)
    <3>1. Sticky(t) => tenant_affinity[TenantOf[t]] \in Workers
      BY <1>4 DEF Sticky
    <3> QED
      BY <2>2, <3>1 DEF ReadAffinity, ClientOK
  <2>6. CASE CheckCapacity(t)
    BY <2>6 DEF CheckCapacity, ClientOK
  <2>3. CASE PickWorker(t)
    BY <2>3 DEF PickWorker, ClientOK
  <2>4. CASE Pin(t)
    <3>1. S \cup {TenantOf[t]} \in SUBSET Tenants
      BY PoolConstants
    <3>2. tenant_affinity' \in [S \cup {TenantOf[t]} -> Workers]
      BY <1>4, <2>4 DEF Pin, ClientOK
    <3>3. cpc' \in [Tasks -> {"new", "refused", "routing", "checking", "picking", "pinning",
                              "sending", "accepted", "queue full"}]
          /\ target' = target
      BY <2>4 DEF Pin, ClientOK
    <3> QED
      BY <3>1, <3>2, <3>3 DEF ClientOK
  <2>5. CASE TrySend(t)
    BY <2>5 DEF TrySend, ClientOK
  <2> QED
    BY <2>1, <2>2, <2>3, <2>4, <2>5, <2>6 DEF Client
<1> QED
  BY <1>2, <1>3, <1>5

(* What a worker's step leaves alone.                                      *)
LEMMA WorkerFrame ==
  ASSUME NEW w \in Workers, Worker(w) \/ QueryPanic(w)
  PROVE  UNCHANGED <<config_valid, manager, clientVars, drainVars>>
BY DEF Worker, StartEngine, CheckShutdown, Recv, RecvNothing, CountIn, LookUp, Query,
       CountOut, StoreResult, Reply, Drain, MarkDead, Close, QueryPanic

(* The channels and the replies after a worker's step.                     *)
LEMMA ChannelsWorker ==
  ASSUME Counted, NEW w \in Workers, Worker(w) \/ QueryPanic(w)
  PROVE  ChannelsOK'
<1> USE DEF Counted, TypeOK
<1>1. ASSUME queue[w] # <<>> PROVE Head(queue[w]) \in Tasks /\ Tail(queue[w]) \in Seq(Tasks)
  BY <1>1 DEF ChannelsOK
<1>2. CASE UNCHANGED <<queue, reply>>
  BY <1>2 DEF ChannelsOK
<1>3. CASE Recv(w)
  BY <1>1, <1>3 DEF Recv, ChannelsOK
<1>4. CASE Reply(w)
  BY <1>4 DEF Reply, ChannelsOK, WorkerOK
<1>5. CASE Drain(w)
  BY <1>1, <1>5 DEF Drain, ChannelsOK
<1>6. ASSUME NEW H, DropReceiver(w, H) PROVE ChannelsOK'
  BY <1>6 DEF DropReceiver, ChannelsOK
<1> QED
  BY <1>2, <1>3, <1>4, <1>5, <1>6
     DEF Worker, StartEngine, CheckShutdown, RecvNothing, CountIn, LookUp, Query,
         CountOut, StoreResult, MarkDead, Close, QueryPanic

(* The cache after a worker's step.                                        *)
LEMMA CacheWorker ==
  ASSUME Counted, NEW w \in Workers, Worker(w) \/ QueryPanic(w)
  PROVE  CacheOK'
<1> USE DEF Counted, TypeOK
<1>1. PICK S \in SUBSET {Key(t) : t \in Tasks} : cache \in [S -> Tasks]
  BY DEF CacheOK
<1>2. CASE UNCHANGED cache
  BY <1>2 DEF CacheOK
<1>3. CASE StoreResult(w) /\ wres[w].kind = "rows"
  <2>1. wtask[w] \in Tasks /\ wres[w].by \in Tasks
    BY <1>3, ResultKinds DEF StoreResult, InHand, WorkerOK
  <2>2. S \cup {Key(wtask[w])} \in SUBSET {Key(t) : t \in Tasks}
    BY <2>1
  <2>3. cache' \in [S \cup {Key(wtask[w])} -> Tasks]
    BY <1>1, <1>3, <2>1 DEF StoreResult
  <2> QED
    BY <2>2, <2>3 DEF CacheOK
<1> QED
  BY <1>2, <1>3
     DEF Worker, StartEngine, CheckShutdown, Recv, RecvNothing, CountIn, LookUp, Query,
         CountOut, StoreResult, Reply, Drain, MarkDead, Close, QueryPanic

(* The workers themselves: every step keeps the counter in step with the   *)
(* control point.                                                          *)
LEMMA CountedWorker ==
  ASSUME Counted, NEW w \in Workers, Worker(w) \/ QueryPanic(w)
  PROVE  Counted'
<1> USE DEF Counted, TypeOK
<1> DEFINE Whole == WorkerOK' /\ InFlightExact' /\ InHand'
<1>1. ASSUME StartEngine(w) PROVE Whole
  BY <1>1 DEF StartEngine, Goto, WorkerOK, InFlightExact, InHand, Points
<1>2. ASSUME CheckShutdown(w) PROVE Whole
  BY <1>2 DEF CheckShutdown, Goto, WorkerOK, InFlightExact, InHand, Points
<1>3. ASSUME Recv(w) PROVE Whole
  <2>1. Head(queue[w]) \in Tasks
    BY <1>3 DEF Recv, ChannelsOK
  <2> QED
    BY <1>3, <2>1 DEF Recv, Goto, WorkerOK, InFlightExact, InHand, Points
<1>4. ASSUME RecvNothing(w) PROVE Whole
  <2>1. PICK p \in {"top", "exiting"} : wpc' = [wpc EXCEPT ![w] = p]
    BY <1>4 DEF RecvNothing, Goto
  <2>2. wpc[w] = "receiving" /\ UNCHANGED <<wtask, wres, in_flight, alive, rx_open>>
    BY <1>4 DEF RecvNothing
  <2>3. WorkerOK'
    BY <2>1, <2>2 DEF WorkerOK, Points
  <2>4. InFlightExact'
    BY <2>1, <2>2 DEF WorkerOK, InFlightExact
  <2>5. InHand'
    BY <2>1, <2>2 DEF WorkerOK, InHand
  <2> QED
    BY <2>3, <2>4, <2>5
<1>5. ASSUME CountIn(w) PROVE Whole
  <2>0. in_flight[w] = 0
    BY <1>5 DEF CountIn, InFlightExact
  <2>1. in_flight[w] + 1 = 1
    BY <2>0
  <2>2. /\ wpc[w] = "received"
        /\ wpc' = [wpc EXCEPT ![w] = "looking up"]
        /\ in_flight' = [in_flight EXCEPT ![w] = 1]
        /\ UNCHANGED <<wtask, wres, alive, rx_open>>
    BY <1>5, <2>1 DEF CountIn, Goto
  <2>3. WorkerOK'
    BY <2>2 DEF WorkerOK, Points
  <2>4. InFlightExact'
    BY <2>2 DEF WorkerOK, InFlightExact
  <2>5. InHand'
    BY <2>2 DEF WorkerOK, InHand
  <2> QED
    BY <2>3, <2>4, <2>5
<1>6. ASSUME LookUp(w) PROVE Whole
  <2>1. wpc[w] = "looking up" /\ UNCHANGED <<wtask, in_flight, alive, rx_open>>
    BY <1>6 DEF LookUp
  <2>2. CASE Key(wtask[w]) \in DOMAIN cache
    <3>1. PICK r \in Results : wres' = [wres EXCEPT ![w] = r]
      BY <1>6, <2>2 DEF LookUp, CacheOK, Results
    <3>2. wpc' = [wpc EXCEPT ![w] = "executed"]
      BY <1>6, <2>2 DEF LookUp, Goto
    <3>3. WorkerOK'
      BY <2>1, <3>1, <3>2 DEF WorkerOK, Points
    <3>4. InFlightExact'
      BY <2>1, <3>2 DEF WorkerOK, InFlightExact
    <3>5. InHand'
      BY <2>1, <3>1, <3>2 DEF WorkerOK, InHand
    <3> QED
      BY <3>3, <3>4, <3>5
  <2>3. CASE Key(wtask[w]) \notin DOMAIN cache
    <3>1. wpc' = [wpc EXCEPT ![w] = "querying"] /\ UNCHANGED wres
      BY <1>6, <2>3 DEF LookUp, Goto
    <3>2. WorkerOK'
      BY <2>1, <3>1 DEF WorkerOK, Points
    <3>3. InFlightExact'
      BY <2>1, <3>1 DEF WorkerOK, InFlightExact
    <3>4. InHand'
      BY <2>1, <3>1 DEF WorkerOK, InHand
    <3> QED
      BY <3>2, <3>3, <3>4
  <2> QED
    BY <2>2, <2>3
<1>7. ASSUME Query(w) PROVE Whole
  <2>1. Rows(wtask[w]) \in Results /\ EngineError \in Results
    BY <1>7 DEF Query, InHand, Results
  <2>2. PICK r \in Results : wres' = [wres EXCEPT ![w] = r]
    BY <1>7, <2>1 DEF Query
  <2>3. /\ wpc[w] = "querying"
        /\ wpc' = [wpc EXCEPT ![w] = "executed"]
        /\ UNCHANGED <<wtask, in_flight, alive, rx_open>>
    BY <1>7 DEF Query, Goto
  <2>4. WorkerOK'
    BY <2>2, <2>3 DEF WorkerOK, Points
  <2>5. InFlightExact'
    BY <2>2, <2>3 DEF WorkerOK, InFlightExact
  <2>6. InHand'
    BY <2>2, <2>3 DEF WorkerOK, InHand
  <2> QED
    BY <2>4, <2>5, <2>6
<1>8. ASSUME QueryPanic(w) PROVE Whole
  <2>1. WorkerOK'
    BY <1>8 DEF QueryPanic, DropReceiver, Goto, WorkerOK, Points
  <2>2. InFlightExact'
    BY <1>8 DEF QueryPanic, Goto, WorkerOK, InFlightExact
  <2>3. InHand'
    BY <1>8 DEF QueryPanic, Goto, WorkerOK, InHand
  <2> QED
    BY <2>1, <2>2, <2>3
<1>9. ASSUME CountOut(w) PROVE Whole
  <2>1. in_flight[w] = 1
    BY <1>9 DEF CountOut, InFlightExact
  <2>2. /\ wpc[w] = "executed"
        /\ wpc' = [wpc EXCEPT ![w] = "storing"]
        /\ in_flight' = [in_flight EXCEPT ![w] = 0]
        /\ UNCHANGED <<wtask, wres, alive, rx_open>>
    BY <1>9, <2>1 DEF CountOut, Goto
  <2>3. WorkerOK'
    BY <2>2 DEF WorkerOK, Points
  <2>4. InFlightExact'
    BY <2>2 DEF WorkerOK, InFlightExact
  <2>5. InHand'
    BY <2>2 DEF WorkerOK, InHand
  <2> QED
    BY <2>3, <2>4, <2>5
<1>10. ASSUME StoreResult(w) PROVE Whole
  BY <1>10 DEF StoreResult, Goto, WorkerOK, InFlightExact, InHand, Points
<1>11. ASSUME Reply(w) PROVE Whole
  <2>1. NoResult \in Results
    BY DEF Results
  <2>2. WorkerOK'
    BY <1>11, <2>1 DEF Reply, Goto, WorkerOK, Points
  <2>3. InFlightExact'
    BY <1>11 DEF Reply, Goto, WorkerOK, InFlightExact
  <2>4. InHand'
    BY <1>11 DEF Reply, Goto, WorkerOK, InHand
  <2> QED
    BY <2>2, <2>3, <2>4
<1>12. ASSUME Drain(w) PROVE Whole
  <2>1. wpc' = wpc \/ (wpc[w] = "draining" /\ wpc' = [wpc EXCEPT ![w] = "exiting"])
    BY <1>12 DEF Drain, Goto
  <2>2. UNCHANGED <<wtask, wres, in_flight, alive, rx_open>>
    BY <1>12 DEF Drain
  <2> QED
    BY <2>1, <2>2 DEF WorkerOK, InFlightExact, InHand, Points
<1>13. ASSUME MarkDead(w) PROVE Whole
  <2>1. WorkerOK'
    BY <1>13 DEF MarkDead, Goto, WorkerOK, Points
  <2>2. InFlightExact' /\ InHand'
    BY <1>13 DEF MarkDead, Goto, WorkerOK, InFlightExact, InHand
  <2> QED
    BY <2>1, <2>2
<1>14. ASSUME Close(w) PROVE Whole
  BY <1>14 DEF Close, DropReceiver, Goto, WorkerOK, InFlightExact, InHand, Points
<1>15. Whole
  BY <1>1, <1>2, <1>3, <1>4, <1>5, <1>6, <1>7, <1>8, <1>9, <1>10, <1>11, <1>12, <1>13, <1>14
     DEF Worker
<1>16. ClientOK' /\ DrainOK' /\ config_valid' \in BOOLEAN /\ manager' \in BOOLEAN
  BY WorkerFrame DEF ClientOK, DrainOK, clientVars, drainVars
<1>17. panics' \in 0 .. MaxPanics
  <2>1. panics' = panics \/ (panics < MaxPanics /\ panics' = panics + 1)
    BY DEF Worker, StartEngine, CheckShutdown, Recv, RecvNothing, CountIn, LookUp, Query,
           CountOut, StoreResult, Reply, Drain, MarkDead, Close, QueryPanic
  <2> QED
    BY <2>1, PoolConstants
<1> QED
  BY <1>15, <1>16, <1>17, ChannelsWorker, CacheWorker

(* shutdown(), the loss of the manager and of cache entries.               *)
LEMMA CountedOthers ==
  ASSUME Counted,
         \/ BeginShutdown \/ ScanWorker \/ PollDone
         \/ \E x \in Tenants : RefreshContractBundle(x)
         \/ CacheForgets \/ DropManager
  PROVE  Counted'
<1> USE DEF Counted, TypeOK
<1>1. UNCHANGED <<config_valid, queue, reply, panics, clientVars, workerVars>>
  BY DEF BeginShutdown, ScanWorker, PollDone, RefreshContractBundle, CacheForgets, DropManager
<1>2. /\ ClientOK' /\ WorkerOK' /\ ChannelsOK' /\ InFlightExact' /\ InHand'
      /\ config_valid' \in BOOLEAN /\ panics' \in 0 .. MaxPanics
  BY <1>1 DEF ClientOK, WorkerOK, ChannelsOK, InFlightExact, InHand, clientVars, workerVars
<1>3. manager' \in BOOLEAN
  BY DEF BeginShutdown, ScanWorker, PollDone, RefreshContractBundle, CacheForgets, DropManager
<1>4. CacheOK'
  <2>1. PICK S \in SUBSET {Key(t) : t \in Tasks} : cache \in [S -> Tasks]
    BY DEF CacheOK
  <2>2. cache' = cache \/ \E R \in SUBSET DOMAIN cache : cache' = Restrict(cache, R)
    BY DEF BeginShutdown, ScanWorker, PollDone, RefreshContractBundle, CacheForgets, DropManager
  <2>3. ASSUME NEW R \in SUBSET DOMAIN cache, cache' = Restrict(cache, R) PROVE CacheOK'
    <3>1. R \in SUBSET {Key(t) : t \in Tasks} /\ cache' \in [R -> Tasks]
      BY <2>1, <2>3 DEF Restrict
    <3> QED
      BY <3>1 DEF CacheOK
  <2> QED
    BY <2>2, <2>3 DEF CacheOK
<1>5. DrainOK'
  <2>1. CASE BeginShutdown
    BY <2>1 DEF BeginShutdown, DrainOK
  <2>2. CASE ScanWorker
    <3>1. scan' \in 0 .. worker_count
      BY <2>2, PoolConstants DEF ScanWorker, DrainOK
    <3>2. busy' \in BOOLEAN /\ UNCHANGED <<shutdown, dpc, polls>>
      BY <2>2 DEF ScanWorker
    <3> QED
      BY <3>1, <3>2 DEF DrainOK
  <2>3. CASE PollDone
    <3>1. scan' \in 0 .. worker_count /\ polls' \in 0 .. DrainPolls
      BY <2>3, PoolConstants DEF PollDone, DrainOK
    <3>2. shutdown' = shutdown /\ busy' \in BOOLEAN
          /\ dpc' \in {"polling", "drained", "forced"}
      BY <2>3 DEF PollDone, DrainOK
    <3> QED
      BY <3>1, <3>2 DEF DrainOK
  <2>4. CASE UNCHANGED drainVars
    BY <2>4 DEF DrainOK, drainVars
  <2> QED
    BY <2>1, <2>2, <2>3, <2>4 DEF RefreshContractBundle, CacheForgets, DropManager
<1> QED
  BY <1>2, <1>3, <1>4, <1>5

LEMMA CountedStep == Counted /\ [Next]_vars => Counted'
<1> SUFFICES ASSUME Counted, [Next]_vars PROVE Counted'
  OBVIOUS
<1>1. ASSUME UNCHANGED vars PROVE Counted'
  BY <1>1 DEF vars, clientVars, workerVars, drainVars, Counted, TypeOK, ClientOK, CacheOK,
              WorkerOK, ChannelsOK, DrainOK, InFlightExact, InHand
<1> QED
  BY <1>1, CountedClient, CountedWorker, CountedOthers DEF Next

LEMMA CountedAlways == Spec => []Counted
BY CountedInit, CountedStep, PTL DEF Spec

(* Types hold for every pool: in particular a worker never counts more     *)
(* than one query, and what it answers with is a result.                   *)
THEOREM TypeCorrect == Spec => []TypeOK
<1>1. Counted => TypeOK
  BY DEF Counted
<1> QED
  BY <1>1, CountedAlways, PTL

(* in_flight counts exactly the query between fetch_add and fetch_sub, and *)
(* stays raised at a worker that panicked.                                 *)
THEOREM CounterExact == Spec => []InFlightExact
<1>1. Counted => InFlightExact
  BY DEF Counted
<1> QED
  BY <1>1, CountedAlways, PTL
-----------------------------------------------------------------------------
(* Channels.                                                               *)

(* No channel is overfull, and none keeps a task behind a receiver that is *)
(* gone: tokio's channels see to it.  OnePlace counts positions up to the  *)
(* depth of a channel, which is where it needs this.                       *)
QueuesReachable ==
  \A w \in Workers : /\ Len(queue[w]) <= queue_depth
                     /\ ~ rx_open[w] => queue[w] = <<>>

LEMMA ReachableQueues == Spec => []QueuesReachable
<1>1. Init => QueuesReachable
  BY PoolConstants DEF Init, QueuesReachable
<1>2. Counted /\ QueuesReachable /\ [Next]_vars => QueuesReachable'
  <2> SUFFICES ASSUME Counted, QueuesReachable, [Next]_vars PROVE QueuesReachable'
    OBVIOUS
  <2> USE DEF Counted, TypeOK
  <2>1. ASSUME UNCHANGED <<queue, rx_open>> PROVE QueuesReachable'
    BY <2>1 DEF QueuesReachable
  <2>2. ASSUME NEW t \in Tasks, TrySend(t) PROVE QueuesReachable'
    <3>1. target[t] \in Workers /\ queue[target[t]] \in Seq(Tasks)
      BY DEF ClientOK, ChannelsOK
    <3>2. CASE rx_open[target[t]] /\ HasRoom(target[t])
      <4>1. queue' = [queue EXCEPT ![target[t]] = Append(@, t)] /\ rx_open' = rx_open
        BY <2>2, <3>2 DEF TrySend, workerVars
      <4>2. Len(Append(queue[target[t]], t)) <= queue_depth
        BY <3>1, <3>2, PoolConstants DEF HasRoom
      <4> QED
        BY <3>1, <3>2, <4>1, <4>2 DEF QueuesReachable, ChannelsOK
    <3>3. CASE ~ (rx_open[target[t]] /\ HasRoom(target[t]))
      BY <2>1, <2>2, <3>3 DEF TrySend, workerVars
    <3> QED
      BY <3>2, <3>3
  <2>3. ASSUME NEW w \in Workers, queue[w] # <<>>,
               queue' = [queue EXCEPT ![w] = Tail(@)], rx_open' = rx_open
        PROVE  QueuesReachable'
    <3>1. Len(Tail(queue[w])) <= queue_depth
      <4>1. queue[w] \in Seq(Tasks) /\ Len(queue[w]) <= queue_depth
        BY DEF ChannelsOK, QueuesReachable
      <4>2. Len(Tail(queue[w])) = Len(queue[w]) - 1
        BY <2>3, <4>1
      <4> QED
        BY <4>1, <4>2, PoolConstants
    <3> QED
      BY <2>3, <3>1 DEF QueuesReachable, ChannelsOK
  <2>4. ASSUME NEW w \in Workers, NEW H, DropReceiver(w, H) PROVE QueuesReachable'
    <3>1. Len(<<>>) <= queue_depth
      BY PoolConstants
    <3> QED
      BY <2>4, <3>1 DEF DropReceiver, QueuesReachable, ChannelsOK, WorkerOK
  <2>5. ASSUME NEW t \in Tasks, Client(t) PROVE QueuesReachable'
    BY <2>1, <2>2, <2>5 DEF Client, Submit, ReadAffinity, CheckCapacity, PickWorker, Pin, workerVars
  <2>6. ASSUME NEW w \in Workers, Worker(w) \/ QueryPanic(w) PROVE QueuesReachable'
    <3>1. CASE Recv(w) \/ Drain(w)
      BY <2>1, <2>3, <3>1 DEF Recv, Drain
    <3>2. CASE QueryPanic(w) \/ Close(w)
      BY <2>4, <3>2 DEF QueryPanic, Close
    <3> QED
      BY <2>1, <2>6, <3>1, <3>2
         DEF Worker, StartEngine, CheckShutdown, RecvNothing, CountIn, LookUp, Query,
             CountOut, StoreResult, Reply, MarkDead
  <2> QED
    BY <2>1, <2>5, <2>6
       DEF Next, vars, BeginShutdown, ScanWorker, PollDone, RefreshContractBundle,
           CacheForgets, DropManager, workerVars
<1> QED
  BY <1>1, <1>2, CountedAlways, PTL DEF Spec

-----------------------------------------------------------------------------
(* Rows.                                                                   *)

(* Whatever holds rows holds rows of its own key: a cache entry, a         *)
(* worker's result, an answer.                                             *)
Own ==
  /\ \A k \in DOMAIN cache : Key(cache[k]) = k
  /\ \A w \in Workers : wres[w].kind = "rows" => Key(wres[w].by) = Key(wtask[w])
  /\ \A t \in Tasks : reply[t].kind = "rows" => Key(reply[t].by) = Key(t)

LEMMA OwnStep == Counted /\ Own /\ [Next]_vars => Own'
<1> SUFFICES ASSUME Counted, Own, [Next]_vars PROVE Own'
  OBVIOUS
<1> USE DEF Counted, TypeOK
<1>1. ASSUME UNCHANGED <<wres, wtask, reply>>,
             cache' = cache \/ \E R \in SUBSET DOMAIN cache : cache' = Restrict(cache, R)
      PROVE  Own'
  <2>1. \A k \in DOMAIN cache' : k \in DOMAIN cache /\ cache'[k] = cache[k]
    BY <1>1 DEF Restrict
  <2> QED
    BY <1>1, <2>1 DEF Own, Key
<1>2. ASSUME NEW w \in Workers, NEW H, DropReceiver(w, H), wpc[w] \in {"querying", "closing"},
             UNCHANGED <<cache, wres>>,
             \A v \in Workers : v # w => wtask'[v] = wtask[v]
      PROVE  Own'
  <2>1. wres[w].kind # "rows"
    BY <1>2, ResultKinds DEF InHand
  <2>2. \A t \in Tasks : reply'[t] = reply[t] \/ reply'[t].kind # "rows"
    BY <1>2, ResultKinds DEF DropReceiver
  <2> QED
    BY <1>2, <2>1, <2>2 DEF Own, Key
<1>3. ASSUME NEW w \in Workers, Recv(w) PROVE Own'
  <2>1. wres[w].kind # "rows"
    BY <1>3, ResultKinds DEF Recv, InHand
  <2>2. \A v \in Workers : v # w => wtask'[v] = wtask[v]
    BY <1>3 DEF Recv, WorkerOK
  <2> QED
    BY <1>3, <2>1, <2>2 DEF Recv, Own, Key
<1>4. ASSUME NEW w \in Workers, LookUp(w) PROVE Own'
  <2>1. CASE Key(wtask[w]) \in DOMAIN cache
    <3>1. Key(Rows(cache[Key(wtask[w])]).by) = Key(wtask[w])
      BY <2>1, ResultKinds DEF Own
    <3> QED
      BY <1>4, <2>1, <3>1 DEF LookUp, Own, WorkerOK, Key
  <2>2. CASE Key(wtask[w]) \notin DOMAIN cache
    BY <1>1, <1>4, <2>2 DEF LookUp
  <2> QED
    BY <2>1, <2>2
<1>5. ASSUME NEW w \in Workers, Query(w) PROVE Own'
  <2>1. PICK r \in {Rows(wtask[w]), EngineError} : wres' = [wres EXCEPT ![w] = r]
    BY <1>5 DEF Query
  <2>2. r.kind = "rows" => Key(r.by) = Key(wtask[w])
    BY <2>1, ResultKinds
  <2> QED
    BY <1>5, <2>1, <2>2 DEF Query, Own, WorkerOK, Key
<1>6. ASSUME NEW w \in Workers, StoreResult(w) PROVE Own'
  BY <1>6 DEF StoreResult, Own, Key
<1>7. ASSUME NEW w \in Workers, Reply(w) PROVE Own'
  <2>1. wtask[w] \in Tasks /\ NoResult.kind # "rows"
    BY <1>7, ResultKinds DEF Reply, InHand
  <2>2. /\ reply' = [reply EXCEPT ![wtask[w]] = wres[w]]
        /\ wtask' = [wtask EXCEPT ![w] = NoTask]
        /\ wres' = [wres EXCEPT ![w] = NoResult]
        /\ cache' = cache
    BY <1>7 DEF Reply
  <2>3. \A t \in Tasks : reply'[t] = IF t = wtask[w] THEN wres[w] ELSE reply[t]
    BY <2>2 DEF ChannelsOK
  <2>4. /\ wres'[w] = NoResult
        /\ \A v \in Workers : v # w => wres'[v] = wres[v] /\ wtask'[v] = wtask[v]
    BY <2>2 DEF WorkerOK
  <2> QED
    BY <2>1, <2>2, <2>3, <2>4 DEF Own, Key
<1>8. ASSUME NEW w \in Workers, Drain(w) PROVE Own'
  <2>1. \A t \in Tasks : reply'[t] = reply[t] \/ reply'[t].kind # "rows"
    BY <1>8, ResultKinds DEF Drain, ChannelsOK
  <2> QED
    BY <1>8, <2>1 DEF Drain, Own, Key
<1>9. ASSUME NEW t \in Tasks, Client(t) PROVE Own'
  BY <1>1, <1>9 DEF Client, Submit, ReadAffinity, CheckCapacity, PickWorker, Pin, TrySend, workerVars
<1>10. ASSUME NEW w \in Workers, QueryPanic(w) \/ Close(w) PROVE Own'
  BY <1>2, <1>10 DEF QueryPanic, Close, WorkerOK
<1>11. ASSUME NEW w \in Workers, Worker(w) \/ QueryPanic(w) PROVE Own'
  BY <1>1, <1>3, <1>4, <1>5, <1>6, <1>7, <1>8, <1>10, <1>11
     DEF Worker, StartEngine, CheckShutdown, RecvNothing, CountIn, CountOut, MarkDead
<1>12. ASSUME UNCHANGED vars PROVE Own'
  BY <1>1, <1>12 DEF vars, workerVars
<1>13. ASSUME \/ BeginShutdown \/ ScanWorker \/ PollDone
              \/ \E x \in Tenants : RefreshContractBundle(x)
              \/ CacheForgets \/ DropManager
       PROVE  Own'
  BY <1>1, <1>13 DEF BeginShutdown, ScanWorker, PollDone, RefreshContractBundle,
                    CacheForgets, DropManager, workerVars
<1> QED
  BY <1>9, <1>11, <1>12, <1>13 DEF Next

(* A caller's rows were computed for its own tenant and SQL text, through  *)
(* whichever worker or cache entry they came.                              *)
THEOREM OwnRows == Spec => []RowsOfOwnKey
<1>1. Init => Own
  BY ResultKinds DEF Init, Own
<1>2. Own => RowsOfOwnKey
  BY DEF Own, RowsOfOwnKey, Key
<1> QED
  BY <1>1, <1>2, OwnStep, CountedAlways, PTL DEF Spec

-----------------------------------------------------------------------------
(* Dropped replies.                                                        *)

(* The tasks whose routing ended at worker w.                              *)
Mine(w) == {t \in Tasks : cpc[t] = "accepted" /\ target[t] = w}

Holding == {"received", "looking up", "querying", "executed", "storing", "replying"}

(* A task is only ever in the channel, and then in the hands, of the       *)
(* worker it was routed to, and its routing is over.                       *)
QueuedAt == \A w \in Workers : queue[w] \in Seq(Mine(w))
HeldAt == \A w \in Workers : wpc[w] \in Holding => wtask[w] \in Mine(w)
DroppedLate == \A t \in Tasks : reply[t] = Dropped => cpc[t] = "accepted"
Routed == QueuedAt /\ HeldAt /\ DroppedLate

(* Why a worker leaves its loop without a panic.  The last conjunct is     *)
(* what keeps an empty channel empty once the manager is gone.             *)
Leaving ==
  /\ \A w \in Workers : wpc[w] = "draining" => shutdown
  /\ \A w \in Workers : wpc[w] \in {"exiting", "closing"} =>
       shutdown \/ ~ config_valid \/ (~ manager /\ queue[w] = <<>>)
  /\ ~ manager => \A t \in Tasks : cpc[t] \in {"new", "refused", "accepted", "queue full"}

(* A client's step leaves every task alone whose routing is over.          *)
LEMMA ClientKeeps ==
  ASSUME Counted, NEW t \in Tasks, Client(t)
  PROVE  /\ \A u \in Tasks : cpc[u] = "accepted" => cpc'[u] = "accepted" /\ target'[u] = target[u]
         /\ UNCHANGED <<config_valid, manager, cache, reply, panics, workerVars, drainVars>>
<1> USE DEF Counted, TypeOK, ClientOK
<1>1. CASE Submit(t)
  BY <1>1 DEF Submit
<1>2. CASE ReadAffinity(t)
  BY <1>2 DEF ReadAffinity
<1>6. CASE CheckCapacity(t)
  BY <1>6 DEF CheckCapacity
<1>3. CASE PickWorker(t)
  BY <1>3 DEF PickWorker
<1>4. CASE Pin(t)
  BY <1>4 DEF Pin
<1>5. CASE TrySend(t)
  BY <1>5 DEF TrySend
<1> QED
  BY <1>1, <1>2, <1>3, <1>4, <1>5, <1>6 DEF Client

(* Panic is for ever, and the flags of the pool only go one way.           *)
LEMMA PanicStays ==
  ASSUME Counted, [Next]_vars
  PROVE  /\ \A w \in Workers : wpc[w] = "panicked" => wpc'[w] = "panicked"
         /\ shutdown => shutdown'
         /\ config_valid' = config_valid
<1> USE DEF Counted, TypeOK, WorkerOK
<1>1. ASSUME NEW t \in Tasks, Client(t)
      PROVE  UNCHANGED <<wpc, shutdown, config_valid>>
  BY <1>1, ClientKeeps DEF workerVars, drainVars
<1>2. ASSUME NEW w \in Workers, Worker(w) \/ QueryPanic(w)
      PROVE  UNCHANGED <<shutdown, config_valid>>
  BY <1>2, WorkerFrame DEF drainVars
<1>3. ASSUME NEW w \in Workers, Worker(w) \/ QueryPanic(w)
      PROVE  wpc[w] # "panicked" /\ \A v \in Workers : v # w => wpc'[v] = wpc[v]
  BY <1>3 DEF Worker, StartEngine, CheckShutdown, Recv, RecvNothing, CountIn, LookUp, Query,
              CountOut, StoreResult, Reply, Drain, MarkDead, Close, QueryPanic, Goto
<1>4. ASSUME \/ BeginShutdown \/ ScanWorker \/ PollDone
             \/ \E x \in Tenants : RefreshContractBundle(x)
             \/ CacheForgets \/ DropManager
      PROVE  wpc' = wpc /\ (shutdown => shutdown') /\ config_valid' = config_valid
  <2>1. UNCHANGED <<wpc, config_valid>>
    BY <1>4 DEF BeginShutdown, ScanWorker, PollDone, RefreshContractBundle, CacheForgets,
                DropManager, workerVars
  <2>2. shutdown' = TRUE \/ shutdown' = shutdown
    BY <1>4 DEF BeginShutdown, ScanWorker, PollDone, RefreshContractBundle, CacheForgets,
                DropManager, drainVars
  <2> QED
    BY <2>1, <2>2
<1>5. CASE UNCHANGED vars
  BY <1>5 DEF vars, workerVars, drainVars
<1> QED
  BY <1>1, <1>2, <1>3, <1>4, <1>5 DEF Next

(* Whose a task is only ever becomes known.                                *)
LEMMA MineGrows ==
  ASSUME Counted, [Next]_vars
  PROVE  \A w \in Workers : Mine(w) \subseteq Mine(w)'
<1>1. ASSUME UNCHANGED <<cpc, target>> PROVE \A w \in Workers : Mine(w) \subseteq Mine(w)'
  BY <1>1 DEF Mine
<1>2. ASSUME NEW t \in Tasks, Client(t) PROVE \A w \in Workers : Mine(w) \subseteq Mine(w)'
  BY <1>2, ClientKeeps DEF Mine
<1>3. ASSUME NEW w \in Workers, Worker(w) \/ QueryPanic(w) PROVE UNCHANGED <<cpc, target>>
  BY <1>3, WorkerFrame DEF clientVars
<1>4. ASSUME \/ BeginShutdown \/ ScanWorker \/ PollDone
             \/ \E x \in Tenants : RefreshContractBundle(x)
             \/ CacheForgets \/ DropManager \/ UNCHANGED vars
      PROVE  UNCHANGED <<cpc, target>>
  BY <1>4 DEF BeginShutdown, ScanWorker, PollDone, RefreshContractBundle,
              CacheForgets, DropManager, clientVars, vars
<1> QED
  BY <1>1, <1>2, <1>3, <1>4 DEF Next

(* How the step of a worker or of a client changes the channels.           *)
LEMMA QueueSteps ==
  ASSUME Counted, [Next]_vars
  PROVE  \/ queue' = queue
         \/ \E t \in Tasks, w \in Workers :
              queue' = [queue EXCEPT ![w] = Append(@, t)] /\ t \in Mine(w)'
         \/ \E w \in Workers : queue[w] # <<>> /\ queue' = [queue EXCEPT ![w] = Tail(@)]
         \/ \E w \in Workers : queue' = [queue EXCEPT ![w] = <<>>]
<1> DEFINE Sent == \E t \in Tasks, w \in Workers :
                     queue' = [queue EXCEPT ![w] = Append(@, t)] /\ t \in Mine(w)'
<1>1. ASSUME NEW t \in Tasks, TrySend(t) PROVE queue' = queue \/ Sent
  <2>1. CASE rx_open[target[t]] /\ HasRoom(target[t])
    <3>1. /\ queue' = [queue EXCEPT ![target[t]] = Append(@, t)]
          /\ cpc' = [cpc EXCEPT ![t] = "accepted"] /\ target' = target
      BY <1>1, <2>1 DEF TrySend
    <3>2. target[t] \in Workers /\ cpc'[t] = "accepted"
      BY <3>1 DEF Counted, TypeOK, ClientOK
    <3>3. PICK w \in Workers : w = target[t]
      BY <3>2
    <3>4. queue' = [queue EXCEPT ![w] = Append(@, t)] /\ t \in Mine(w)'
      BY <3>1, <3>2, <3>3 DEF Mine
    <3> QED
      BY <3>4
  <2>2. CASE ~ (rx_open[target[t]] /\ HasRoom(target[t]))
    BY <1>1, <2>2 DEF TrySend
  <2> QED
    BY <2>1, <2>2
<1>2. ASSUME NEW t \in Tasks, Client(t) PROVE queue' = queue \/ Sent
  BY <1>1, <1>2 DEF Client, Submit, ReadAffinity, CheckCapacity, PickWorker, Pin
<1>3. ASSUME NEW w \in Workers, Worker(w) \/ QueryPanic(w)
      PROVE  \/ queue' = queue
             \/ queue[w] # <<>> /\ queue' = [queue EXCEPT ![w] = Tail(@)]
             \/ queue' = [queue EXCEPT ![w] = <<>>]
  BY <1>3 DEF Worker, StartEngine, CheckShutdown, Recv, RecvNothing, CountIn, LookUp, Query,
              CountOut, StoreResult, Reply, Drain, MarkDead, Close, QueryPanic, DropReceiver
<1>4. ASSUME \/ BeginShutdown \/ ScanWorker \/ PollDone
             \/ \E x \in Tenants : RefreshContractBundle(x)
             \/ CacheForgets \/ DropManager \/ UNCHANGED vars
      PROVE  queue' = queue
  BY <1>4 DEF BeginShutdown, ScanWorker, PollDone, RefreshContractBundle,
              CacheForgets, DropManager, vars
<1> QED
  BY <1>2, <1>3, <1>4 DEF Next

LEMMA QueuedStep == Counted /\ QueuedAt /\ [Next]_vars => QueuedAt'
<1> SUFFICES ASSUME Counted, QueuedAt, [Next]_vars, NEW v \in Workers
             PROVE  queue'[v] \in Seq(Mine(v)')
  BY DEF QueuedAt
<1>1. queue[v] \in Seq(Mine(v)')
  <2>1. queue[v] \in Seq(Mine(v)) /\ Mine(v) \subseteq Mine(v)'
    BY MineGrows DEF QueuedAt
  <2> HIDE DEF Mine
  <2> QED
    BY <2>1
<1>2. queue \in [Workers -> Seq(Tasks)]
  BY DEF Counted, TypeOK, ChannelsOK
<1>3. CASE queue' = queue
  BY <1>1, <1>3
<1>4. ASSUME NEW t \in Tasks, NEW w \in Workers, t \in Mine(w)',
             queue' = [queue EXCEPT ![w] = Append(@, t)]
      PROVE  queue'[v] \in Seq(Mine(v)')
  <2>1. CASE v = w
    <3>1. queue'[v] = Append(queue[v], t) /\ t \in Mine(v)'
      BY <1>2, <1>4, <2>1
    <3> QED
      BY <1>1, <3>1
  <2>2. CASE v # w
    BY <1>1, <1>2, <1>4, <2>2
  <2> QED
    BY <2>1, <2>2
<1>5. ASSUME NEW w \in Workers, queue[w] # <<>>, queue' = [queue EXCEPT ![w] = Tail(@)]
      PROVE  queue'[v] \in Seq(Mine(v)')
  <2>1. CASE v = w
    <3>1. queue'[v] = Tail(queue[v]) /\ queue[v] # <<>>
      BY <1>2, <1>5, <2>1
    <3> QED
      BY <1>1, <3>1
  <2>2. CASE v # w
    BY <1>1, <1>2, <1>5, <2>2
  <2> QED
    BY <2>1, <2>2
<1>6. ASSUME NEW w \in Workers, queue' = [queue EXCEPT ![w] = <<>>]
      PROVE  queue'[v] \in Seq(Mine(v)')
  BY <1>1, <1>2, <1>6
<1> QED
  BY <1>3, <1>4, <1>5, <1>6, QueueSteps

LEMMA HeldStep == Counted /\ QueuedAt /\ HeldAt /\ [Next]_vars => HeldAt'
<1> SUFFICES ASSUME Counted, QueuedAt, HeldAt, [Next]_vars, NEW v \in Workers,
                    wpc'[v] \in Holding
             PROVE  wtask'[v] \in Mine(v)'
  BY DEF HeldAt
<1>1. Mine(v) \subseteq Mine(v)'
  BY MineGrows
<1>2. CASE wpc'[v] = wpc[v] /\ wtask'[v] = wtask[v]
  BY <1>1, <1>2 DEF HeldAt
<1>3. CASE Recv(v)
  <2>1. wtask'[v] = Head(queue[v]) /\ queue[v] # <<>> /\ queue[v] \in Seq(Mine(v))
    BY <1>3 DEF Recv, QueuedAt, Counted, TypeOK, WorkerOK
  <2>2. Head(queue[v]) \in Mine(v)
    BY <2>1
  <2> QED
    BY <1>1, <2>1, <2>2
<1>4. CASE CountIn(v) \/ LookUp(v) \/ Query(v) \/ CountOut(v) \/ StoreResult(v)
  <2>1. wpc[v] \in Holding /\ wtask' = wtask
    BY <1>4 DEF CountIn, LookUp, Query, CountOut, StoreResult, Holding
  <2> QED
    BY <1>1, <2>1 DEF HeldAt
<1>5. CASE \/ StartEngine(v) \/ CheckShutdown(v) \/ RecvNothing(v) \/ Reply(v)
           \/ MarkDead(v) \/ Close(v) \/ QueryPanic(v)
  <2>1. wpc'[v] \in {"top", "closing", "draining", "receiving", "exiting", "stopped", "panicked"}
    BY <1>5 DEF StartEngine, CheckShutdown, RecvNothing, Reply, MarkDead, Close, QueryPanic,
                Goto, Counted, TypeOK, WorkerOK
  <2> QED
    BY <2>1 DEF Holding
<1>6. CASE Drain(v)
  <2>1. wpc'[v] \in {"draining", "exiting"}
    BY <1>6 DEF Drain, Goto, Counted, TypeOK, WorkerOK
  <2> QED
    BY <2>1 DEF Holding
<1>7. ASSUME NEW w \in Workers, Worker(w) \/ QueryPanic(w), w # v
      PROVE  wpc'[v] = wpc[v] /\ wtask'[v] = wtask[v]
  BY <1>7 DEF Worker, StartEngine, CheckShutdown, Recv, RecvNothing, CountIn, LookUp, Query,
              CountOut, StoreResult, Reply, Drain, MarkDead, Close, QueryPanic, Goto,
              Counted, TypeOK, WorkerOK
<1>8. ASSUME NEW t \in Tasks, Client(t) PROVE wpc' = wpc /\ wtask' = wtask
  BY <1>8, ClientKeeps DEF workerVars
<1>9. ASSUME \/ BeginShutdown \/ ScanWorker \/ PollDone
             \/ \E x \in Tenants : RefreshContractBundle(x)
             \/ CacheForgets \/ DropManager \/ UNCHANGED vars
      PROVE  wpc' = wpc /\ wtask' = wtask
  BY <1>9 DEF BeginShutdown, ScanWorker, PollDone, RefreshContractBundle,
              CacheForgets, DropManager, workerVars, vars
<1>10. ASSUME Worker(v) \/ QueryPanic(v) PROVE wtask'[v] \in Mine(v)'
  BY <1>3, <1>4, <1>5, <1>6, <1>10 DEF Worker
<1> QED
  BY <1>2, <1>7, <1>8, <1>9, <1>10 DEF Next

LEMMA DroppedStep == Counted /\ Routed /\ [Next]_vars => DroppedLate'
<1> SUFFICES ASSUME Counted, Routed, [Next]_vars, NEW t \in Tasks, reply'[t] = Dropped
             PROVE  cpc'[t] = "accepted"
  BY DEF DroppedLate
<1> USE DEF Counted, TypeOK
<1>1. ASSUME cpc[t] = "accepted" PROVE cpc'[t] = "accepted"
  <2>1. PICK w \in Workers : w = target[t]
    BY DEF ClientOK
  <2> QED
    BY <1>1, <2>1, MineGrows DEF Mine
<1>2. CASE reply'[t] = reply[t]
  BY <1>1, <1>2 DEF Routed, DroppedLate
<1>3. ASSUME NEW w \in Workers, t \in InQueue(w) PROVE cpc[t] = "accepted"
  <2>1. queue[w] \in Seq(Mine(w))
    BY DEF Routed, QueuedAt
  <2>2. PICK i \in DOMAIN queue[w] : t = queue[w][i]
    BY <1>3 DEF InQueue
  <2>3. t \in Mine(w)
    BY <2>1, <2>2
  <2> QED
    BY <2>3 DEF Mine
<1>4. ASSUME NEW w \in Workers, QueryPanic(w) PROVE cpc'[t] = "accepted"
  <2>1. wtask[w] \in Mine(w)
    BY <1>4 DEF QueryPanic, Routed, HeldAt, Holding
  <2>2. reply'[t] = reply[t] \/ t \in InQueue(w) \/ t = wtask[w]
    BY <1>4 DEF QueryPanic, DropReceiver
  <2> QED
    BY <1>1, <1>2, <1>3, <2>1, <2>2 DEF Mine
<1>5. ASSUME NEW w \in Workers, Close(w) PROVE cpc'[t] = "accepted"
  <2>1. reply'[t] = reply[t] \/ t \in InQueue(w)
    BY <1>5 DEF Close, DropReceiver
  <2> QED
    BY <1>1, <1>2, <1>3, <2>1
<1>6. ASSUME NEW w \in Workers, Reply(w) \/ Drain(w) PROVE reply'[t] = reply[t]
  <2>1. CASE Reply(w)
    BY <2>1, ResultKinds DEF Reply, ChannelsOK, WorkerOK
  <2>2. CASE Drain(w)
    BY <2>2, ResultKinds DEF Drain, ChannelsOK
  <2> QED
    BY <1>6, <2>1, <2>2
<1>7. ASSUME NEW w \in Workers, Worker(w) \/ QueryPanic(w) PROVE cpc'[t] = "accepted"
  BY <1>2, <1>4, <1>5, <1>6, <1>7
     DEF Worker, StartEngine, CheckShutdown, Recv, RecvNothing, CountIn, LookUp, Query,
         CountOut, StoreResult, MarkDead
<1>8. ASSUME NEW u \in Tasks, Client(u) PROVE reply' = reply
  BY <1>8, ClientKeeps
<1>9. ASSUME \/ BeginShutdown \/ ScanWorker \/ PollDone
             \/ \E x \in Tenants : RefreshContractBundle(x)
             \/ CacheForgets \/ DropManager \/ UNCHANGED vars
      PROVE  reply' = reply
  BY <1>9 DEF BeginShutdown, ScanWorker, PollDone, RefreshContractBundle,
              CacheForgets, DropManager, vars
<1> QED
  BY <1>2, <1>7, <1>8, <1>9 DEF Next

LEMMA LeavingStep == Counted /\ Leaving /\ [Next]_vars => Leaving'
<1> SUFFICES ASSUME Counted, Leaving, [Next]_vars PROVE Leaving'
  OBVIOUS
<1> USE DEF Counted, TypeOK
<1> DEFINE Settled == {"new", "refused", "accepted", "queue full"}
<1>1. ASSUME UNCHANGED <<wpc, queue, cpc, config_valid, manager>>, shutdown => shutdown'
      PROVE  Leaving'
  BY <1>1 DEF Leaving
<1>2. ASSUME NEW t \in Tasks, Client(t) PROVE Leaving'
  <2>1. UNCHANGED <<wpc, shutdown, config_valid, manager>>
    BY <1>2, ClientKeeps DEF workerVars, drainVars
  <2>2. manager
    BY <1>2 DEF Leaving, Client, Submit, ReadAffinity, CheckCapacity, PickWorker, Pin, TrySend
  <2>3. manager' = TRUE
    BY <2>1, <2>2
  <2>4. \A w \in Workers : wpc[w] \in {"exiting", "closing"} => shutdown \/ ~ config_valid
    BY <2>2 DEF Leaving
  <2>5. \A w \in Workers : wpc'[w] \in {"exiting", "closing"} => shutdown' \/ ~ config_valid'
    BY <2>1, <2>4
  <2>6. \A w \in Workers : wpc'[w] = "draining" => shutdown'
    BY <2>1 DEF Leaving
  <2>7. \A w \in Workers : wpc'[w] \in {"exiting", "closing"} =>
          shutdown' \/ ~ config_valid' \/ (~ manager' /\ queue'[w] = <<>>)
    BY <2>5, Zenon
  <2>8. ~ manager' => \A u \in Tasks : cpc'[u] \in {"new", "refused", "accepted", "queue full"}
    BY <2>3
  <2> QED
    BY <2>6, <2>7, <2>8, Zenon DEF Leaving
<1>3. ASSUME NEW w \in Workers, Worker(w) \/ QueryPanic(w) PROVE Leaving'
  <2>1. UNCHANGED <<shutdown, config_valid, manager, cpc>>
    BY <1>3, WorkerFrame DEF clientVars, drainVars
  <2>2. /\ \A v \in Workers : v # w => wpc'[v] = wpc[v]
        /\ \A v \in Workers : queue[v] = <<>> => queue'[v] = <<>>
    BY <1>3 DEF Worker, StartEngine, CheckShutdown, Recv, RecvNothing, CountIn, LookUp, Query,
                CountOut, StoreResult, Reply, Drain, MarkDead, Close, QueryPanic, DropReceiver,
                Goto, WorkerOK, ChannelsOK
  <2>3. wpc'[w] = "draining" => shutdown
    BY <1>3 DEF Worker, StartEngine, CheckShutdown, Recv, RecvNothing, CountIn, LookUp, Query,
                CountOut, StoreResult, Reply, Drain, MarkDead, Close, QueryPanic,
                Goto, WorkerOK, Leaving
  <2>4. wpc'[w] \in {"exiting", "closing"} =>
          shutdown \/ ~ config_valid \/ (~ manager /\ queue[w] = <<>>)
    <3>1. CASE StartEngine(w)
      <4>1. CASE config_valid
        <5>1. wpc'[w] = "top"
          BY <3>1, <4>1 DEF StartEngine, Goto, WorkerOK
        <5> QED
          BY <5>1
      <4> QED
        BY <4>1
    <3>2. CASE RecvNothing(w)
      <4>1. CASE manager
        <5>1. wpc'[w] = "top"
          BY <3>2, <4>1 DEF RecvNothing, Goto, WorkerOK
        <5> QED
          BY <5>1
      <4>2. CASE ~ manager
        BY <3>2, <4>2 DEF RecvNothing
      <4> QED
        BY <4>1, <4>2
    <3>3. CASE Drain(w)
      BY <3>3 DEF Drain, Leaving
    <3>4. CASE MarkDead(w)
      BY <3>4 DEF MarkDead, Leaving
    <3>5. CASE \/ CheckShutdown(w) \/ Recv(w) \/ CountIn(w) \/ LookUp(w) \/ Query(w)
               \/ CountOut(w) \/ StoreResult(w) \/ Reply(w) \/ Close(w) \/ QueryPanic(w)
      BY <3>5 DEF CheckShutdown, Recv, CountIn, LookUp, Query, CountOut, StoreResult, Reply,
                  Close, QueryPanic, Goto, WorkerOK
    <3> QED
      BY <1>3, <3>1, <3>2, <3>3, <3>4, <3>5 DEF Worker
  <2> QED
    BY <2>1, <2>2, <2>3, <2>4 DEF Leaving
<1>4. ASSUME DropManager PROVE Leaving'
  <2>1. UNCHANGED <<wpc, shutdown, config_valid, cpc, queue>> /\ manager
    BY <1>4 DEF DropManager, workerVars, drainVars, clientVars
  <2>2. \A t \in Tasks : cpc[t] \in Settled
    BY <1>4 DEF DropManager
  <2> QED
    BY <2>1, <2>2 DEF Leaving
<1>5. ASSUME \/ BeginShutdown \/ ScanWorker \/ PollDone
             \/ \E x \in Tenants : RefreshContractBundle(x)
             \/ CacheForgets \/ UNCHANGED vars
      PROVE  Leaving'
  <2>1. UNCHANGED <<wpc, queue, cpc, config_valid, manager>>
    BY <1>5 DEF BeginShutdown, ScanWorker, PollDone, RefreshContractBundle,
                CacheForgets, workerVars, clientVars, vars
  <2> QED
    BY <1>1, <2>1, PanicStays
<1> QED
  BY <1>2, <1>3, <1>4, <1>5 DEF Next

(* A reply channel is closed unanswered only by shutdown, by engines that  *)
(* could not be built, or by the panic of the very worker the task was     *)
(* routed to: no worker's end costs another worker's tasks.                *)
THEOREM OnlyDeadWorkersDrop == Spec => []DroppedOnlyByDeadWorker
<1>1. Init => Routed /\ Leaving /\ DroppedOnlyByDeadWorker
  <2> SUFFICES ASSUME Init PROVE Routed /\ Leaving /\ DroppedOnlyByDeadWorker
    OBVIOUS
  <2>1. None # Dropped
    BY ResultKinds
  <2>2. QueuedAt /\ HeldAt /\ DroppedLate /\ DroppedOnlyByDeadWorker
    BY <2>1 DEF Init, QueuedAt, HeldAt, DroppedLate, DroppedOnlyByDeadWorker, Holding
  <2>3. Leaving
    BY DEF Init, Leaving
  <2> QED
    BY <2>2, <2>3 DEF Routed
<1>2. Counted /\ Routed /\ [Next]_vars => Routed'
  BY QueuedStep, HeldStep, DroppedStep DEF Routed
<1>3. Counted /\ Routed /\ Leaving /\ DroppedOnlyByDeadWorker /\ [Next]_vars
        => DroppedOnlyByDeadWorker'
  <2> SUFFICES ASSUME Counted, Routed, Leaving, DroppedOnlyByDeadWorker, [Next]_vars,
                      NEW t \in Tasks, reply'[t] = Dropped
               PROVE  shutdown' \/ ~ config_valid' \/ wpc'[target'[t]] = "panicked"
    BY DEF DroppedOnlyByDeadWorker
  <2> USE DEF Counted, TypeOK
  <2>1. CASE reply[t] = Dropped
    <3>1. cpc[t] = "accepted" /\ target[t] \in Workers
      BY <2>1 DEF Routed, DroppedLate, ClientOK
    <3>2. PICK w \in Workers : w = target[t]
      BY <3>1
    <3>3. t \in Mine(w)'
      BY <3>1, <3>2, MineGrows DEF Mine
    <3>4. target'[t] = w
      BY <3>3 DEF Mine
    <3> QED
      BY <2>1, <3>2, <3>4, PanicStays DEF DroppedOnlyByDeadWorker
  <2>2. CASE reply[t] # Dropped
    <3>1. ASSUME NEW w \in Workers, t \in InQueue(w) PROVE t \in Mine(w) /\ queue[w] # <<>>
      <4>1. queue[w] \in Seq(Mine(w))
        BY DEF Routed, QueuedAt
      <4>2. PICK i \in DOMAIN queue[w] : t = queue[w][i]
        BY <3>1 DEF InQueue
      <4> QED
        BY <4>1, <4>2
    <3>2. ASSUME NEW w \in Workers, QueryPanic(w)
          PROVE  wpc'[target'[t]] = "panicked"
      <4>1. wtask[w] \in Mine(w)
        BY <3>2 DEF QueryPanic, Routed, HeldAt, Holding
      <4>2. t \in InQueue(w) \/ t = wtask[w]
        BY <2>2, <3>2 DEF QueryPanic, DropReceiver
      <4>3. t \in Mine(w)'
        BY <3>1, <4>1, <4>2, MineGrows
      <4>4. target'[t] = w
        BY <4>3 DEF Mine
      <4> QED
        BY <3>2, <4>4 DEF QueryPanic, Goto, WorkerOK
    <3>3. ASSUME NEW w \in Workers, Close(w) PROVE shutdown' \/ ~ config_valid'
      <4>1. t \in InQueue(w)
        BY <2>2, <3>3 DEF Close, DropReceiver
      <4>2. shutdown \/ ~ config_valid
        BY <3>1, <3>3, <4>1 DEF Close, Leaving
      <4> QED
        BY <4>2, PanicStays
    <3>4. ASSUME NEW w \in Workers, Worker(w) \/ QueryPanic(w)
          PROVE  QueryPanic(w) \/ Close(w)
      <4>1. CASE Reply(w)
        BY <2>2, <4>1, ResultKinds DEF Reply, ChannelsOK, WorkerOK
      <4>2. CASE Drain(w)
        BY <2>2, <4>2, ResultKinds DEF Drain, ChannelsOK
      <4> QED
        BY <2>2, <3>4, <4>1, <4>2
           DEF Worker, StartEngine, CheckShutdown, Recv, RecvNothing, CountIn, LookUp, Query,
               CountOut, StoreResult, MarkDead
    <3>5. ASSUME NEW u \in Tasks, Client(u) PROVE FALSE
      BY <2>2, <3>5, ClientKeeps
    <3>6. ASSUME \/ BeginShutdown \/ ScanWorker \/ PollDone
                 \/ \E x \in Tenants : RefreshContractBundle(x)
                 \/ CacheForgets \/ DropManager \/ UNCHANGED vars
          PROVE  FALSE
      BY <2>2, <3>6 DEF BeginShutdown, ScanWorker, PollDone, RefreshContractBundle,
                        CacheForgets, DropManager, vars
    <3> QED
      BY <3>2, <3>3, <3>4, <3>5, <3>6 DEF Next
  <2> QED
    BY <2>1, <2>2
<1> QED
  BY <1>1, <1>2, <1>3, LeavingStep, CountedAlways, PTL DEF Spec

-----------------------------------------------------------------------------
(* Places.                                                                 *)

(* The tasks worker w still owes an answer.                                *)
Owed(w) == {t \in Tasks : cpc[t] = "accepted" /\ target[t] = w /\ reply[t] = None}

(* The channel q and the hand h hold each task of O once and nothing else. *)
Holds(q, h, O) ==
  /\ q \in Seq(O)
  /\ h \in O \cup {NoTask}
  /\ \A i, j \in 1 .. Len(q) : q[i] = q[j] => i = j
  /\ \A i \in 1 .. Len(q) : q[i] # h
  /\ \A t \in O : h = t \/ \E i \in 1 .. Len(q) : q[i] = t

(* Every worker holds what it owes.  The two conjuncts on control points   *)
(* are what makes this inductive: recv() finds an empty hand, and an       *)
(* answer is never the absence of one.                                     *)
Placed ==
  /\ \A w \in Workers : Holds(queue[w], wtask[w], Owed(w))
  /\ \A w \in Workers : wpc[w] \in Holding <=> wtask[w] # NoTask
  /\ \A w \in Workers : wpc[w] \in {"executed", "storing", "replying"} => wres[w] # NoResult
  /\ \A t \in Tasks : reply[t] # None => cpc[t] = "accepted"

(* A task comes to the end of the channel, goes from its front into the    *)
(* hand, leaves the hand, or leaves from the front.                        *)
LEMMA HoldsSent ==
  ASSUME NEW q, NEW h, NEW O, NEW t, Holds(q, h, O), t \notin O, t # NoTask
  PROVE  Holds(Append(q, t), h, O \cup {t})
<1> DEFINE r == Append(q, t)
<1>1. q \in Seq(O) /\ q \in Seq(O \cup {t})
  BY DEF Holds
<1>2. r \in Seq(O \cup {t}) /\ Len(r) = Len(q) + 1 /\ Len(q) \in Nat
  BY <1>1
<1>3. r[Len(q) + 1] = t /\ \A i \in 1 .. Len(q) : r[i] = q[i] /\ q[i] \in O
  BY <1>1
<1>4. \A i \in 1 .. Len(r) : i \in 1 .. Len(q) \/ i = Len(q) + 1
  BY <1>2
<1> HIDE DEF r
<1>5. h # t /\ h \in (O \cup {t}) \cup {NoTask}
  BY DEF Holds
<1>6. ASSUME NEW i \in 1 .. Len(r), NEW j \in 1 .. Len(r), r[i] = r[j] PROVE i = j
  BY <1>3, <1>4, <1>6 DEF Holds
<1>7. ASSUME NEW i \in 1 .. Len(r) PROVE r[i] # h
  BY <1>3, <1>4, <1>5 DEF Holds
<1>8. ASSUME NEW u \in O \cup {t} PROVE h = u \/ \E i \in 1 .. Len(r) : r[i] = u
  <2>1. CASE u = t
    <3>1. Len(q) + 1 \in 1 .. Len(r)
      BY <1>2
    <3> QED
      BY <1>3, <2>1, <3>1
  <2>2. CASE u \in O /\ h # u
    <3>1. PICK i \in 1 .. Len(q) : q[i] = u
      BY <2>2 DEF Holds
    <3>2. i \in 1 .. Len(r)
      BY <1>2
    <3> QED
      BY <1>3, <3>1, <3>2
  <2> QED
    BY <2>1, <2>2
<1>9. Holds(r, h, O \cup {t})
  BY <1>2, <1>5, <1>6, <1>7, <1>8 DEF Holds
<1> QED
  BY <1>9 DEF r

LEMMA HoldsFront ==
  ASSUME NEW q, NEW O, Holds(q, NoTask, O), q # <<>>, NoTask \notin O
  PROVE  /\ Head(q) \in O
         /\ Holds(Tail(q), Head(q), O)
         /\ Holds(Tail(q), NoTask, O \ {Head(q)})
<1> DEFINE r == Tail(q)
           x == Head(q)
<1>1. q \in Seq(O)
  BY DEF Holds
<1>2. /\ r \in Seq(O) /\ x \in O /\ x = q[1] /\ Len(q) \in Nat /\ Len(q) >= 1
      /\ Len(r) = Len(q) - 1
  BY <1>1
<1>3. \A i \in 1 .. Len(r) : r[i] = q[i + 1]
  BY <1>1
<1> HIDE DEF r, x
<1>4. /\ \A i \in 1 .. Len(r) : i + 1 \in 1 .. Len(q) /\ i + 1 # 1
      /\ 1 \in 1 .. Len(q)
  BY <1>2
<1>5. \A i \in 1 .. Len(r) : r[i] # x /\ r[i] # NoTask
  BY <1>2, <1>3, <1>4 DEF Holds
<1>6. \A i, j \in 1 .. Len(r) : r[i] = r[j] => i = j
  <2> SUFFICES ASSUME NEW i \in 1 .. Len(r), NEW j \in 1 .. Len(r), r[i] = r[j]
               PROVE  i = j
    OBVIOUS
  <2>1. i + 1 = j + 1
    BY <1>3, <1>4 DEF Holds
  <2> QED
    BY <2>1
<1>7. ASSUME NEW u \in O, u # x PROVE \E i \in 1 .. Len(r) : r[i] = u
  <2>1. PICK k \in 1 .. Len(q) : q[k] = u
    BY DEF Holds
  <2>2. k - 1 \in 1 .. Len(r) /\ (k - 1) + 1 = k
    BY <1>2, <1>7, <2>1
  <2> QED
    BY <1>3, <2>1, <2>2
<1>8. r \in Seq(O \ {x})
  <2>1. \A i \in 1 .. Len(r) : r[i] \in O \ {x}
    BY <1>2, <1>5
  <2> QED
    BY <1>2, <2>1
<1>9. Holds(r, x, O) /\ Holds(r, NoTask, O \ {x})
  BY <1>2, <1>5, <1>6, <1>7, <1>8 DEF Holds
<1> QED
  BY <1>2, <1>9 DEF r, x

LEMMA HoldsAnswered ==
  ASSUME NEW q, NEW h, NEW O, Holds(q, h, O), NoTask \notin O
  PROVE  Holds(q, NoTask, O \ {h})
<1>1. q \in Seq(O) /\ Len(q) \in Nat /\ \A i \in 1 .. Len(q) : q[i] \in O \ {h}
  BY DEF Holds
<1>2. q \in Seq(O \ {h})
  BY <1>1
<1>3. \A i \in 1 .. Len(q) : q[i] # NoTask
  BY <1>1
<1> QED
  BY <1>2, <1>3 DEF Holds

(* Nothing is owed once the channel and the hand are dropped.              *)
LEMMA HoldsDropped ==
  ASSUME NEW q, NEW h, NEW O, Holds(q, h, O),
         NEW R, R = {t \in O : t # h /\ \A i \in 1 .. Len(q) : q[i] # t}
  PROVE  Holds(<<>>, NoTask, R)
<1>1. R = {}
  BY DEF Holds
<1>2. <<>> \in Seq({}) /\ Len(<<>>) = 0 /\ 1 .. 0 = {}
  OBVIOUS
<1> QED
  BY <1>1, <1>2 DEF Holds

(* What a worker owes once it, and nobody else, has answered the tasks of  *)
(* `gone`.                                                                 *)
LEMMA PlacedLocal ==
  ASSUME Counted, Placed, NEW w \in Workers, UNCHANGED <<cpc, target>>,
         \A v \in Workers : v # w =>
           /\ queue'[v] = queue[v] /\ wtask'[v] = wtask[v]
           /\ wpc'[v] = wpc[v] /\ wres'[v] = wres[v],
         NEW gone \in SUBSET Owed(w),
         \A t \in Tasks : IF t \in gone THEN reply'[t] # None ELSE reply'[t] = reply[t],
         Holds(queue'[w], wtask'[w], Owed(w) \ gone),
         wpc'[w] \in Holding <=> wtask'[w] # NoTask,
         wpc'[w] \in {"executed", "storing", "replying"} => wres'[w] # NoResult
  PROVE  Placed'
<1>1. Owed(w)' = Owed(w) \ gone
  BY DEF Owed
<1>2. \A v \in Workers : v # w => Owed(v)' = Owed(v)
  BY DEF Owed
<1>3. \A v \in Workers : Holds(queue'[v], wtask'[v], Owed(v)')
  BY <1>1, <1>2 DEF Placed
<1>4. \A v \in Workers : wpc'[v] \in Holding <=> wtask'[v] # NoTask
  BY DEF Placed
<1>5. \A v \in Workers :
        wpc'[v] \in {"executed", "storing", "replying"} => wres'[v] # NoResult
  BY DEF Placed
<1>6. \A t \in Tasks : reply'[t] # None => cpc'[t] = "accepted"
  BY DEF Placed, Owed
<1> QED
  BY <1>3, <1>4, <1>5, <1>6 DEF Placed

LEMMA PlacedWorker ==
  ASSUME Counted, Placed, NEW w \in Workers, Worker(w) \/ QueryPanic(w)
  PROVE  Placed'
<1> DEFINE O == Owed(w)
<1> USE DEF Counted, TypeOK
<1>1. UNCHANGED <<cpc, target>>
  BY WorkerFrame DEF clientVars
<1>2. /\ Holds(queue[w], wtask[w], O)
      /\ wpc[w] \in Holding <=> wtask[w] # NoTask
      /\ wpc[w] \in {"executed", "storing", "replying"} => wres[w] # NoResult
      /\ NoTask \notin O /\ O \subseteq Tasks /\ \A t \in O : reply[t] = None
      /\ wtask[w] \in O \cup {NoTask}
  BY PoolConstants DEF Placed, Owed, Holds
<1>3. \A v \in Workers : v # w =>
        /\ queue'[v] = queue[v] /\ wtask'[v] = wtask[v]
        /\ wpc'[v] = wpc[v] /\ wres'[v] = wres[v]
  BY DEF Worker, StartEngine, CheckShutdown, Recv, RecvNothing, CountIn, LookUp, Query,
         CountOut, StoreResult, Reply, Drain, MarkDead, Close, QueryPanic, DropReceiver, Goto,
         WorkerOK, ChannelsOK
<1>4. ASSUME UNCHANGED <<reply, queue, wtask>>,
             wpc[w] \in Holding <=> wpc'[w] \in Holding,
             wpc'[w] \in {"executed", "storing", "replying"} => wres'[w] # NoResult
      PROVE  Placed'
  <2>1. {} \in SUBSET O /\ O \ {} = O
    OBVIOUS
  <2> QED
    BY <1>1, <1>2, <1>3, <1>4, <2>1, PlacedLocal
<1>5. ASSUME Recv(w) PROVE Placed'
  <2>1. /\ wtask[w] = NoTask /\ queue[w] # <<>> /\ reply' = reply
        /\ queue'[w] = Tail(queue[w]) /\ wtask'[w] = Head(queue[w]) /\ wpc'[w] = "received"
    BY <1>2, <1>5 DEF Recv, Goto, Holding, WorkerOK, ChannelsOK
  <2>2. Head(queue[w]) \in O /\ Holds(Tail(queue[w]), Head(queue[w]), O)
    BY <1>2, <2>1, HoldsFront
  <2>3. /\ wpc'[w] \in Holding /\ wtask'[w] # NoTask
        /\ wpc'[w] \notin {"executed", "storing", "replying"}
    BY <1>2, <2>1, <2>2 DEF Holding
  <2>4. {} \in SUBSET O /\ O \ {} = O
    OBVIOUS
  <2> QED
    BY <1>1, <1>3, <2>1, <2>2, <2>3, <2>4, PlacedLocal
<1>6. ASSUME Reply(w) PROVE Placed'
  <2>1. /\ wpc[w] = "replying" /\ wtask[w] \in O /\ wres[w] # NoResult
    BY <1>2, <1>6 DEF Reply, Holding
  <2>2. PICK t \in O : t = wtask[w]
    BY <2>1
  <2>3. /\ queue'[w] = queue[w] /\ wtask'[w] = NoTask /\ wpc'[w] = "top"
        /\ reply' = [reply EXCEPT ![t] = wres[w]]
    BY <1>6, <2>2 DEF Reply, Goto, WorkerOK
  <2>4. {t} \in SUBSET O /\ \A u \in Tasks :
          IF u \in {t} THEN reply'[u] # None ELSE reply'[u] = reply[u]
    BY <1>2, <2>1, <2>3 DEF ChannelsOK, None, NoResult
  <2>5. Holds(queue'[w], wtask'[w], O \ {t})
    BY <1>2, <2>2, <2>3, HoldsAnswered
  <2>6. wpc'[w] \notin Holding /\ wpc'[w] \notin {"executed", "storing", "replying"}
    BY <2>3 DEF Holding
  <2> QED
    BY <1>1, <1>3, <2>3, <2>4, <2>5, <2>6, PlacedLocal
<1>7. ASSUME Drain(w), queue[w] # <<>> PROVE Placed'
  <2>1. wpc[w] = "draining" /\ wtask[w] = NoTask
    BY <1>2, <1>7 DEF Drain, Holding
  <2>2. Head(queue[w]) \in O /\ Holds(Tail(queue[w]), NoTask, O \ {Head(queue[w])})
    BY <1>2, <1>7, <2>1, HoldsFront
  <2>3. PICK t \in O : t = Head(queue[w])
    BY <2>2
  <2>4. /\ queue'[w] = Tail(queue[w]) /\ wtask'[w] = NoTask /\ wpc'[w] = "draining"
        /\ reply' = [reply EXCEPT ![t] = ShutdownError]
    BY <1>7, <2>1, <2>3 DEF Drain, ChannelsOK
  <2>5. ShutdownError # None
    BY DEF ShutdownError, None
  <2>6. {t} \in SUBSET O /\ \A u \in Tasks :
          IF u \in {t} THEN reply'[u] # None ELSE reply'[u] = reply[u]
    BY <1>2, <2>4, <2>5 DEF ChannelsOK
  <2>7. wpc'[w] \notin Holding /\ wpc'[w] \notin {"executed", "storing", "replying"}
    BY <2>4 DEF Holding
  <2> QED
    BY <1>1, <1>3, <2>2, <2>3, <2>4, <2>6, <2>7, PlacedLocal
<1>8. ASSUME NEW H, DropReceiver(w, H), wtask[w] \in O => H = {wtask[w]},
             wtask[w] \notin O => H = {},
             wtask'[w] = NoTask, wpc'[w] \in {"panicked", "stopped"}
      PROVE  Placed'
  <2>1. PICK gone : gone = InQueue(w) \cup H
    OBVIOUS
  <2>2. queue[w] \in Seq(O) /\ DOMAIN queue[w] = 1 .. Len(queue[w])
    BY <1>2 DEF Holds
  <2>3. gone \in SUBSET O
    BY <1>8, <2>1, <2>2 DEF InQueue
  <2>4. Dropped # None
    BY DEF Dropped, None
  <2>5. \A u \in Tasks : IF u \in gone THEN reply'[u] # None ELSE reply'[u] = reply[u]
    BY <1>8, <2>1, <2>4 DEF DropReceiver
  <2>6. O \ gone = {t \in O : t # wtask[w] /\ \A i \in 1 .. Len(queue[w]) : queue[w][i] # t}
    BY <1>2, <1>8, <2>1, <2>2 DEF InQueue
  <2>7. Holds(<<>>, NoTask, O \ gone)
    BY <1>2, <2>6, HoldsDropped
  <2>8. queue'[w] = <<>>
    BY <1>8 DEF DropReceiver, ChannelsOK
  <2>9. wpc'[w] \notin Holding /\ wpc'[w] \notin {"executed", "storing", "replying"}
    BY <1>8 DEF Holding
  <2> QED
    BY <1>1, <1>3, <1>8, <2>3, <2>5, <2>7, <2>8, <2>9, PlacedLocal
<1>9. ASSUME QueryPanic(w) PROVE Placed'
  <2>1. wtask[w] \in O
    BY <1>2, <1>9 DEF QueryPanic, Holding
  <2>2. /\ DropReceiver(w, {wtask[w]}) /\ wtask'[w] = NoTask /\ wpc'[w] = "panicked"
    BY <1>9 DEF QueryPanic, Goto, WorkerOK
  <2> QED
    BY <1>8, <2>1, <2>2
<1>10. ASSUME Close(w) PROVE Placed'
  <2>1. wtask[w] = NoTask
    BY <1>2, <1>10 DEF Close, Holding
  <2>2. /\ DropReceiver(w, {}) /\ wtask'[w] = NoTask /\ wpc'[w] = "stopped"
    BY <1>10, <2>1 DEF Close, Goto, WorkerOK
  <2> QED
    BY <1>2, <1>8, <2>1, <2>2
<1>11. ASSUME LookUp(w) PROVE Placed'
  <2>1. /\ UNCHANGED <<reply, queue, wtask>>
        /\ wpc[w] = "looking up" /\ wpc'[w] \in {"executed", "querying"}
    BY <1>11 DEF LookUp, Goto, WorkerOK
  <2>2. wpc'[w] = "executed" => wres'[w] # NoResult
    <3>1. ASSUME wpc'[w] = "executed" PROVE \E c : wres'[w] = Rows(c)
      BY <1>11, <3>1 DEF LookUp, Goto, WorkerOK
    <3> QED
      BY <3>1, ResultKinds
  <2> QED
    BY <1>4, <2>1, <2>2 DEF Holding
<1>12. ASSUME Query(w) PROVE Placed'
  <2>1. /\ UNCHANGED <<reply, queue, wtask>>
        /\ wpc[w] = "querying" /\ wpc'[w] = "executed"
        /\ wres'[w] \in {Rows(wtask[w]), EngineError}
    BY <1>12 DEF Query, Goto, WorkerOK
  <2>2. wres'[w] # NoResult
    <3>1. Rows(wtask[w]) # NoResult
      BY ResultKinds
    <3>2. EngineError # NoResult
      BY DEF EngineError, NoResult
    <3> QED
      BY <2>1, <3>1, <3>2
  <2> QED
    BY <1>4, <2>1, <2>2 DEF Holding
<1>13. ASSUME CountOut(w) \/ StoreResult(w) PROVE Placed'
  <2>1. /\ UNCHANGED <<reply, queue, wtask, wres>>
        /\ wpc[w] \in {"executed", "storing"} /\ wpc'[w] \in {"storing", "replying"}
    BY <1>13 DEF CountOut, StoreResult, Goto, WorkerOK
  <2> QED
    BY <1>2, <1>4, <2>1 DEF Holding
<1>14. ASSUME \/ StartEngine(w) \/ CheckShutdown(w) \/ RecvNothing(w) \/ CountIn(w)
              \/ (Drain(w) /\ queue[w] = <<>>) \/ MarkDead(w)
       PROVE  Placed'
  <2>1. UNCHANGED <<reply, queue, wtask>>
    BY <1>14 DEF StartEngine, CheckShutdown, RecvNothing, CountIn, Drain, MarkDead
  <2>2. \/ wpc[w] = "received" /\ wpc'[w] = "looking up"
        \/ /\ wpc[w] \in {"init", "top", "receiving", "draining", "exiting"}
           /\ wpc'[w] \in {"top", "closing", "draining", "receiving", "exiting"}
    BY <1>14 DEF StartEngine, CheckShutdown, RecvNothing, CountIn, Drain, MarkDead, Goto, WorkerOK
  <2>3. wpc[w] \in Holding <=> wpc'[w] \in Holding
    BY <2>2 DEF Holding
  <2>4. wpc'[w] \notin {"executed", "storing", "replying"}
    BY <2>2
  <2> QED
    BY <1>4, <2>1, <2>3, <2>4
<1> QED
  BY <1>5, <1>6, <1>7, <1>9, <1>10, <1>11, <1>12, <1>13, <1>14 DEF Worker

(* A client's step: one more task is owed by the worker it is sent to, or  *)
(* nothing changes hands.                                                  *)
LEMMA PlacedClient ==
  ASSUME Counted, Placed, NEW t \in Tasks, Client(t)
  PROVE  Placed'
<1> USE DEF Counted, TypeOK
<1>1. UNCHANGED <<reply, wpc, wtask, wres>>
  BY ClientKeeps DEF workerVars
<1>2. /\ \A v \in Workers : wpc'[v] \in Holding <=> wtask'[v] # NoTask
      /\ \A v \in Workers : wpc'[v] \in {"executed", "storing", "replying"} => wres'[v] # NoResult
  BY <1>1 DEF Placed
<1>3. \A u \in Tasks : reply'[u] # None => cpc'[u] = "accepted"
  BY <1>1, ClientKeeps DEF Placed
<1>4. ASSUME queue' = queue,
             \A u \in Tasks : cpc'[u] = "accepted" <=> cpc[u] = "accepted",
             \A u \in Tasks : cpc[u] = "accepted" => target'[u] = target[u]
      PROVE  \A v \in Workers : Holds(queue'[v], wtask'[v], Owed(v)')
  <2>1. \A v \in Workers : Owed(v)' = Owed(v)
    BY <1>1, <1>4 DEF Owed
  <2> QED
    BY <1>1, <1>4, <2>1 DEF Placed
<1>5. ASSUME TrySend(t), rx_open[target[t]], HasRoom(target[t])
      PROVE  \A v \in Workers : Holds(queue'[v], wtask'[v], Owed(v)')
  <2>1. PICK w \in Workers : w = target[t]
    BY DEF ClientOK
  <2>2. /\ queue' = [queue EXCEPT ![w] = Append(@, t)]
        /\ cpc' = [cpc EXCEPT ![t] = "accepted"] /\ target' = target /\ cpc[t] = "sending"
    BY <1>5, <2>1 DEF TrySend
  <2>3. reply[t] = None /\ t # NoTask /\ t \notin Owed(w)
    BY <2>2, PoolConstants DEF Placed, Owed
  <2>4. Owed(w)' = Owed(w) \cup {t} /\ \A v \in Workers : v # w => Owed(v)' = Owed(v)
    BY <1>1, <2>1, <2>2, <2>3 DEF Owed, ClientOK
  <2>5. Holds(Append(queue[w], t), wtask[w], Owed(w) \cup {t})
    BY <2>3, HoldsSent DEF Placed
  <2>6. queue'[w] = Append(queue[w], t) /\ \A v \in Workers : v # w => queue'[v] = queue[v]
    BY <2>2 DEF ChannelsOK
  <2> QED
    BY <1>1, <2>4, <2>5, <2>6 DEF Placed
<1>6. CASE TrySend(t) /\ ~ (rx_open[target[t]] /\ HasRoom(target[t]))
  BY <1>2, <1>3, <1>4, <1>6 DEF Placed, TrySend, ClientOK
<1>7. CASE Submit(t)
  BY <1>2, <1>3, <1>4, <1>7 DEF Placed, Submit, ClientOK
<1>8. CASE ReadAffinity(t)
  BY <1>2, <1>3, <1>4, <1>8 DEF Placed, ReadAffinity, ClientOK
<1>12. CASE CheckCapacity(t)
  BY <1>2, <1>3, <1>4, <1>12 DEF Placed, CheckCapacity, ClientOK
<1>9. CASE PickWorker(t)
  BY <1>2, <1>3, <1>4, <1>9 DEF Placed, PickWorker, ClientOK
<1>10. CASE Pin(t)
  BY <1>2, <1>3, <1>4, <1>10 DEF Placed, Pin, ClientOK
<1>11. CASE TrySend(t) /\ rx_open[target[t]] /\ HasRoom(target[t])
  BY <1>2, <1>3, <1>5, <1>11 DEF Placed
<1> QED
  BY <1>6, <1>7, <1>8, <1>9, <1>10, <1>11, <1>12 DEF Client

LEMMA PlacedStep == Counted /\ Placed /\ [Next]_vars => Placed'
<1> SUFFICES ASSUME Counted, Placed, [Next]_vars PROVE Placed'
  OBVIOUS
<1>1. ASSUME UNCHANGED <<queue, reply, wpc, wtask, wres, cpc, target>> PROVE Placed'
  <2>1. \A v \in Workers : Owed(v)' = Owed(v)
    BY <1>1 DEF Owed
  <2> QED
    BY <1>1, <2>1 DEF Placed
<1>2. ASSUME \/ BeginShutdown \/ ScanWorker \/ PollDone
             \/ \E x \in Tenants : RefreshContractBundle(x)
             \/ CacheForgets \/ DropManager \/ UNCHANGED vars
      PROVE  UNCHANGED <<queue, reply, wpc, wtask, wres, cpc, target>>
  BY <1>2 DEF BeginShutdown, ScanWorker, PollDone, RefreshContractBundle, CacheForgets,
              DropManager, workerVars, clientVars, vars
<1> QED
  BY <1>1, <1>2, PlacedClient, PlacedWorker DEF Next

(* A task has a place at worker w exactly when w owes it an answer, and    *)
(* then no second one.                                                     *)
LEMMA PlacedOnce ==
  ASSUME Counted, Placed, QueuesReachable, NEW t \in Tasks
  PROVE  Cardinality(Places(t)) =
           IF cpc[t] = "accepted" /\ reply[t] = None THEN 1 ELSE 0
<1> DEFINE In == {x \in Workers \X (1 .. queue_depth) :
                    x[2] <= Len(queue[x[1]]) /\ queue[x[1]][x[2]] = t}
           At == {<<w, 0>> : w \in {v \in Workers : wtask[v] = t}}
<1>1. Places(t) = In \cup At
  BY DEF Places
<1>2. ASSUME NEW w \in Workers
      PROVE  /\ Holds(queue[w], wtask[w], Owed(w))
             /\ queue[w] \in Seq(Owed(w)) /\ Len(queue[w]) \in Nat /\ Len(queue[w]) <= queue_depth
  BY DEF Placed, Holds, QueuesReachable
<1>3. ASSUME NEW x \in In
      PROVE  \E w \in Workers : \E i \in 1 .. Len(queue[w]) :
               x = <<w, i>> /\ queue[w][i] = t /\ t \in Owed(w)
  <2>1. PICK w \in Workers, i \in 1 .. queue_depth : x = <<w, i>>
    OBVIOUS
  <2>2. i <= Len(queue[w]) /\ queue[w][i] = t
    BY <2>1
  <2>3. i \in 1 .. Len(queue[w])
    BY <1>2, <2>2, PoolConstants
  <2>4. t \in Owed(w)
    BY <1>2, <2>2, <2>3
  <2> QED
    BY <2>1, <2>2, <2>3, <2>4
<1>4. ASSUME NEW x \in At
      PROVE  \E w \in Workers : x = <<w, 0>> /\ wtask[w] = t /\ t \in Owed(w)
  <2>1. PICK w \in Workers : x = <<w, 0>> /\ wtask[w] = t
    OBVIOUS
  <2>2. t # NoTask
    BY PoolConstants
  <2> QED
    BY <1>2, <2>1, <2>2 DEF Holds
<1>5. CASE ~ (cpc[t] = "accepted" /\ reply[t] = None)
  <2>1. \A w \in Workers : t \notin Owed(w)
    BY <1>5 DEF Owed
  <2>2. Places(t) = {}
    BY <1>1, <1>3, <1>4, <2>1
  <2> QED
    BY <1>5, <2>2, FS_EmptySet
<1>6. CASE cpc[t] = "accepted" /\ reply[t] = None
  <2>1. PICK w \in Workers : w = target[t]
    BY DEF Counted, TypeOK, ClientOK
  <2>2. t \in Owed(w) /\ \A v \in Workers : t \in Owed(v) => v = w
    BY <1>6, <2>1 DEF Owed
  <2>3. CASE wtask[w] = t
    <3>1. <<w, 0>> \in At
      BY <2>3
    <3>2. \A i \in 1 .. Len(queue[w]) : queue[w][i] # t
      BY <1>2, <2>3 DEF Holds
    <3>3. \A x \in Places(t) : x = <<w, 0>>
      BY <1>1, <1>3, <1>4, <2>2, <3>2
    <3>4. Places(t) = {<<w, 0>>}
      BY <1>1, <3>1, <3>3
    <3> QED
      BY <1>6, <3>4, FS_Singleton
  <2>4. CASE wtask[w] # t
    <3>1. PICK i \in 1 .. Len(queue[w]) : queue[w][i] = t
      BY <1>2, <2>2, <2>4 DEF Holds
    <3>2. i \in 1 .. queue_depth /\ i <= Len(queue[w])
      BY <1>2, PoolConstants
    <3>3. <<w, i>> \in In
      BY <3>1, <3>2
    <3>4. \A j \in 1 .. Len(queue[w]) : queue[w][j] = t => j = i
      BY <1>2, <3>1 DEF Holds
    <3>5. \A x \in Places(t) : x = <<w, i>>
      BY <1>1, <1>3, <1>4, <2>2, <2>4, <3>4
    <3>6. Places(t) = {<<w, i>>}
      BY <1>1, <3>3, <3>5
    <3> QED
      BY <1>6, <3>6, FS_Singleton
  <2> QED
    BY <2>3, <2>4
<1> QED
  BY <1>5, <1>6

(* No task is lost or duplicated by any pool: an accepted task without an  *)
(* answer is in one channel position or in one worker's hands, every other *)
(* task nowhere, through routing, panic, drain and shutdown.               *)
THEOREM TasksInOnePlace == Spec => []OnePlace
<1>1. Init => Placed
  <2> SUFFICES ASSUME Init PROVE Placed
    OBVIOUS
  <2>1. \A w \in Workers : Owed(w) = {} /\ queue[w] = <<>> /\ wtask[w] = NoTask
    BY DEF Init, Owed
  <2>2. Holds(<<>>, NoTask, {})
    BY DEF Holds
  <2>3. \A w \in Workers : Holds(queue[w], wtask[w], Owed(w))
    BY <2>1, <2>2
  <2> QED
    BY <2>3 DEF Init, Placed, Holding
<1>2. Counted /\ Placed /\ QueuesReachable => OnePlace
  BY PlacedOnce DEF OnePlace
<1> QED
  BY <1>1, <1>2, PlacedStep, CountedAlways, ReachableQueues, PTL DEF Spec
=============================================================================
