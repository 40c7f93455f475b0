----------------------------- MODULE Controller -----------------------------
(***************************************************************************)
(* The agent's resource-watch controller (src/pkg/agent/controller.go):    *)
(* an informer mirrors a cluster resource collection into an indexer and   *)
(* turns every notification into an Event{key, eventType} added to a       *)
(* rate-limited work queue; Run waits for the informer's initial list,     *)
(* starts the workers and shuts the queue down when the stop channel is    *)
(* closed; each worker repeats processNextItem: Get an event, look the key *)
(* up in the indexer, drop "create" events of objects older than the      *)
(* controller (the startup-skew filter), call the event handler and apply  *)
(* the retry policy of handleErr.                                          *)
(*                                                                         *)
(* Time is counted in ticks, TicksPerSecond to a second: serverStartTime   *)
(* is read from the local clock at full precision while the API server     *)
(* hands out creationTimestamps truncated to whole seconds.               *)
(*                                                                         *)
(* With Dynamic = TRUE the module models NewDynamicController, whose       *)
(* controller indexer is a fresh cache.NewIndexer that the informer never  *)
(* writes to.                                                              *)
(***************************************************************************)
EXTENDS Integers, FiniteSets, FiniteSetsExt, WorkQueue

CONSTANTS
    Keys,            \* namespace/name keys of the watched resources
    Workers,         \* the worker goroutines (threadiness)
    MaxRetries,      \* the bound of handleErr: NumRequeues(key) < 5
    TicksPerSecond,  \* clock resolution of serverStartTime per second
    MaxTick,         \* bound on the clock
    MaxChanges,      \* bound on cluster changes after Run
    MaxRelists,      \* bound on watch errors, each followed by a relist
    Dynamic,         \* TRUE: NewDynamicController, FALSE: NewController
    ObjTypeKnown,    \* NewController's objType is one of the kinds
                     \* getObjectMetaData switches on
    None             \* no object / no item

ASSUME /\ MaxRetries \in Nat
       /\ TicksPerSecond \in Nat \ {0}
       /\ MaxTick \in Nat \ {0}
       /\ Dynamic \in BOOLEAN /\ ObjTypeKnown \in BOOLEAN

VARIABLES
    cluster,          \* the objects in the API server, by key
    store,            \* the informer's own cache of the watched objects
    indexer,          \* c.indexer, read by processNextItem
    now,              \* the clock, in ticks
    serverStartTime,  \* the package variable set by Run
    phase,            \* where Run is: init, syncing, running, returned
    stop,             \* stopCh has been closed
    synced,           \* the informer has delivered its initial list
    worker,           \* each worker goroutine and the event it processes
    wq,               \* the rate-limiting work queue
    changes,          \* cluster changes made after Run (bounded)
    unseen,           \* events added by the informer and not yet taken by Get
    dropped,          \* events handleErr dropped with no newer notification
    skipped,          \* objects whose create event the startup filter dropped
    seen,             \* each key's object as the last processNextItem looked it up
    watching,         \* the informer's watch is open (FALSE after a watch error)
    relists           \* watch errors so far

vars == <<cluster, store, indexer, now, serverStartTime, phase, stop, synced,
          worker, wq, changes, unseen, dropped, skipped, seen, watching, relists>>

EventTypes == {"create", "update", "delete"}

\* Event{key, eventType}, the queue item: equality is on both fields.
Events == [key : Keys, eventType : EventTypes]

\* An object: its creationTimestamp as the API server reports it (whole
\* seconds) and, for the properties only, the tick it was really created.
Objects == [ts : 0..MaxTick, created : 0..MaxTick]

CreatedAt(t) == [ts |-> t - (t % TicksPerSecond), created |-> t]

WorkerStates == {"off", "spawned", "idle", "busy", "exited"}

-----------------------------------------------------------------------------
(* Informer notifications: the cache is written first, then the handler    *)
(* adds the event (NewController's AddFunc/UpdateFunc/DeleteFunc; the      *)
(* dynamic informer's handlers are the same).  Nothing is delivered before *)
(* the initial list, after stopCh is closed, nor while the watch is broken *)
(* (a watch error): the reflector then relists and the informer replays    *)
(* the difference to the handlers.                                         *)

\* The indexer processNextItem reads after the informer cache became s:
\* NewController reads the informer's own indexer, NewDynamicController a
\* separate cache.NewIndexer nobody writes to.
ControllerIndexer(s) == IF Dynamic THEN indexer ELSE s

\* Mutant: DeleteFunc keyed with MetaNamespaceKeyFunc, whose error on a
\* deleted object's tombstone skips queue.Add.
NotifyDroppingDeletes(k, type, obj) ==
    LET e == [key |-> k, eventType |-> type]
    IN  IF synced /\ ~stop /\ watching
        THEN /\ store' = [store EXCEPT ![k] = obj]
             /\ indexer' = ControllerIndexer(store')
             /\ wq' = IF type = "delete" THEN wq ELSE Add(wq, e)
             /\ unseen' = IF type = "delete" THEN unseen ELSE unseen \cup {e}
             /\ dropped' = dropped \ {e}
        ELSE UNCHANGED <<store, indexer, wq, unseen, dropped>>

Notify(k, type, obj) ==
    LET e == [key |-> k, eventType |-> type]
    IN  IF synced /\ ~stop /\ watching
        THEN /\ store' = [store EXCEPT ![k] = obj]
             /\ indexer' = ControllerIndexer(store')
             /\ wq' = Add(wq, e)
             /\ unseen' = unseen \cup {e}
             /\ dropped' = dropped \ {e}
        ELSE UNCHANGED <<store, indexer, wq, unseen, dropped>>

ClusterChange ==
    /\ phase # "init"
    /\ changes < MaxChanges
    /\ changes' = changes + 1

ObjCreate(k) ==
    /\ ClusterChange
    /\ cluster[k] = None
    /\ cluster' = [cluster EXCEPT ![k] = CreatedAt(now)]
    /\ Notify(k, "create", cluster'[k])
    /\ UNCHANGED <<now, serverStartTime, phase, stop, synced, worker, skipped, seen, watching, relists>>

ObjUpdate(k) ==
    /\ ClusterChange
    /\ cluster[k] # None
    /\ Notify(k, "update", cluster[k])
    /\ UNCHANGED <<cluster, now, serverStartTime, phase, stop, synced, worker,
                   skipped, seen, watching, relists>>

ObjDelete(k) ==
    /\ ClusterChange
    /\ cluster[k] # None
    /\ cluster' = [cluster EXCEPT ![k] = None]
    /\ Notify(k, "delete", None)
    /\ UNCHANGED <<now, serverStartTime, phase, stop, synced, worker, skipped, seen, watching, relists>>

Tick ==
    /\ now < MaxTick
    /\ now' = now + 1
    /\ UNCHANGED <<cluster, store, indexer, serverStartTime, phase, stop,
                   synced, worker, wq, changes, unseen, dropped, skipped, seen, watching, relists>>

\* The caller closes stopCh.
Stop ==
    /\ ~stop
    /\ stop' = TRUE
    /\ UNCHANGED <<cluster, store, indexer, now, serverStartTime, phase,
                   synced, worker, wq, changes, unseen, dropped, skipped, seen, watching, relists>>

\* The watch fails (a dropped connection, an expired resourceVersion): the
\* changes made until the relist are never notified one by one.
WatchError ==
    /\ synced /\ watching /\ ~stop
    /\ relists < MaxRelists
    /\ watching' = FALSE
    /\ relists' = relists + 1
    /\ UNCHANGED <<cluster, store, indexer, now, serverStartTime, phase, stop,
                   synced, worker, wq, changes, unseen, dropped, skipped, seen>>

\* The event a relist hands to the handlers for key k: AddFunc for a key
\* the cache lacks, UpdateFunc for one it holds (whatever happened in
\* between), DeleteFunc with a DeletedFinalStateUnknown tombstone for one
\* that is gone, whose key DeletionHandlingMetaNamespaceKeyFunc unwraps.
RelistEvents(k) ==
    LET e(type) == {[key |-> k, eventType |-> type]}
    IN  CASE store[k] = None /\ cluster[k] # None -> e("create")
          [] store[k] # None /\ cluster[k] # None -> e("update")
          [] store[k] # None /\ cluster[k] = None -> e("delete")
          [] OTHER -> {}

\* The reflector lists again and the informer replaces its cache with the
\* list, calling the handlers for every key (controller.go:78-100).
Relist ==
    LET events == UNION {RelistEvents(k) : k \in Keys}
    IN  /\ ~watching /\ ~stop
        /\ watching' = TRUE
        /\ store' = cluster
        /\ indexer' = ControllerIndexer(cluster)
        /\ wq' = FoldSet(LAMBDA e, q : Add(q, e), wq, events)
        /\ unseen' = unseen \cup events
        /\ dropped' = dropped \ events
        /\ UNCHANGED <<cluster, now, serverStartTime, phase, stop, synced,
                       worker, changes, skipped, seen, relists>>

-----------------------------------------------------------------------------
(* Run (controller.go:219-241).                                             *)

\* Run records serverStartTime and starts the informer.
RunStart ==
    /\ phase = "init"
    /\ phase' = "syncing"
    /\ serverStartTime' = now
    /\ UNCHANGED <<cluster, store, indexer, now, stop, synced, worker, wq,
                   changes, unseen, dropped, skipped, seen, watching, relists>>

\* The informer lists the collection: every object is cached and its key is
\* added as a "create" event; then HasSynced holds.
ListAndSync ==
    LET present == {k \in Keys : cluster[k] # None}
        creates == {[key |-> k, eventType |-> "create"] : k \in present}
    IN  /\ phase = "syncing"
        /\ ~synced /\ ~stop
        /\ synced' = TRUE
        /\ store' = cluster
        /\ indexer' = ControllerIndexer(cluster)
        /\ wq' = FoldSet(LAMBDA e, q : Add(q, e), wq, creates)
        /\ unseen' = unseen \cup creates
        /\ UNCHANGED <<cluster, now, serverStartTime, phase, stop, worker,
                       changes, dropped, skipped, seen, watching, relists>>

\* WaitForCacheSync returns false once stopCh is closed, whether or not
\* its last poll saw the cache synced; the deferred ShutDown runs as Run
\* returns.
RunSyncTimeout ==
    /\ phase = "syncing"
    /\ stop
    /\ phase' = "returned"
    /\ wq' = ShutDown(wq)
    /\ UNCHANGED <<cluster, store, indexer, now, serverStartTime, stop, synced,
                   worker, changes, unseen, dropped, skipped, seen, watching, relists>>

\* After the sync barrier Run spawns threadiness workers with wait.Until.
RunStartWorkers ==
    /\ phase = "syncing"
    /\ synced
    /\ phase' = "running"
    /\ worker' = [w \in Workers |-> [st |-> "spawned", item |-> None, obj |-> None]]
    /\ UNCHANGED <<cluster, store, indexer, now, serverStartTime, stop, synced,
                   wq, changes, unseen, dropped, skipped, seen, watching, relists>>

\* Mutant: Run without its deferred c.queue.ShutDown().
RunReturnWithoutShutDown ==
    /\ phase = "running"
    /\ stop
    /\ phase' = "returned"
    /\ UNCHANGED <<cluster, store, indexer, now, serverStartTime, stop, synced,
                   worker, wq, changes, unseen, dropped, skipped, seen, watching, relists>>

\* Run returns once stopCh is closed; its deferred ShutDown stops the queue.
RunReturn ==
    /\ phase = "running"
    /\ stop
    /\ phase' = "returned"
    /\ wq' = ShutDown(wq)
    /\ UNCHANGED <<cluster, store, indexer, now, serverStartTime, stop, synced,
                   worker, changes, unseen, dropped, skipped, seen, watching, relists>>

-----------------------------------------------------------------------------
(* The workers: wait.Until(c.runWorker, ...) and processNextItem.          *)

\* wait.Until checks stopCh before it first calls runWorker.
WorkerBegin(w) ==
    /\ worker[w].st = "spawned"
    /\ worker' = [worker EXCEPT ![w].st = IF stop THEN "exited" ELSE "idle"]
    /\ UNCHANGED <<cluster, store, indexer, now, serverStartTime, phase, stop,
                   synced, wq, changes, unseen, dropped, skipped, seen, watching, relists>>

\* Get reports quit: processNextItem returns false, runWorker returns and
\* wait.Until, finding stopCh closed, exits.
WorkerQuit(w) ==
    /\ worker[w].st = "idle"
    /\ GetQuits(wq)
    /\ worker' = [worker EXCEPT ![w].st = "exited"]
    /\ UNCHANGED <<cluster, store, indexer, now, serverStartTime, phase, stop,
                   synced, wq, changes, unseen, dropped, skipped, seen, watching, relists>>

\* getObjectMetaData(obj).CreationTimestamp: the zero time (before any
\* tick) for the nil object GetByKey returns for a missing key, and for
\* an object of a kind outside the type switch: a typed controller of
\* another objType, or the dynamic controller, whose objects are
\* *unstructured.Unstructured.
CreationTs(obj) ==
    IF obj = None \/ Dynamic \/ ~ObjTypeKnown THEN -1 ELSE obj.ts

\* The startup-skew filter of processNextItem.
SkipsEvent(e, obj) ==
    e.eventType = "create" /\ CreationTs(obj) - serverStartTime < 0

\* processNextItem up to the handler call: Get, GetByKey, the startup
\* filter.  A filtered event is Done at once; otherwise the handler runs
\* with the object read from the indexer.
WorkerGet(w) ==
    LET e   == Head(wq.queue)
        obj == indexer[e.key]
        q   == Get(wq)
    IN  /\ worker[w].st = "idle"
        /\ CanGet(wq)
        /\ unseen' = unseen \ {e}
        /\ seen' = [seen EXCEPT ![e.key] = obj]
        /\ IF SkipsEvent(e, obj)
           THEN /\ wq' = Done(q, e)
                /\ skipped' = IF store[e.key] = None THEN skipped
                              ELSE skipped \cup {store[e.key]}
                /\ UNCHANGED worker
           ELSE /\ wq' = q
                /\ worker' = [worker EXCEPT ![w] = [st |-> "busy", item |-> e, obj |-> obj]]
                /\ UNCHANGED skipped
        /\ UNCHANGED <<cluster, store, indexer, now, serverStartTime, phase,
                       stop, synced, changes, dropped, watching, relists>>

\* Mutant: handleErr retrying while NumRequeues <= MaxRetries.
HandleErrOffByOne(q, e, ok) ==
    IF ok THEN Forget(q, e)
    ELSE IF NumRequeues(q, e) <= MaxRetries THEN AddRateLimited(q, e)
    ELSE Forget(q, e)

\* handleErr: Forget on success; on failure AddRateLimited while
\* NumRequeues < MaxRetries, otherwise Forget and drop.
HandleErr(q, e, ok) ==
    IF ok THEN Forget(q, e)
    ELSE IF NumRequeues(q, e) < MaxRetries THEN AddRateLimited(q, e)
    ELSE Forget(q, e)

Drops(q, e, ok) == ~ok /\ NumRequeues(q, e) >= MaxRetries

\* The handler returns ok or an error; handleErr, then the deferred Done.
WorkerFinish(w, ok) ==
    LET e == worker[w].item
    IN  /\ worker[w].st = "busy"
        /\ wq' = Done(HandleErr(wq, e, ok), e)
        /\ worker' = [worker EXCEPT ![w] = [st |-> "idle", item |-> None, obj |-> None]]
        /\ dropped' = IF Drops(wq, e, ok) /\ e \notin wq.dirty
                      THEN dropped \cup {e} ELSE dropped
        /\ UNCHANGED <<cluster, store, indexer, now, serverStartTime, phase,
                       stop, synced, changes, unseen, skipped, seen, watching, relists>>

\* The rate limiter's delay for a waiting event elapses.
RetryFires(e) ==
    /\ e \in wq.waiting
    /\ wq' = FireWaiting(wq, e)
    /\ UNCHANGED <<cluster, store, indexer, now, serverStartTime, phase, stop,
                   synced, worker, changes, unseen, dropped, skipped, seen, watching, relists>>

\* Run has returned and every worker has exited or never started.
Terminated ==
    phase = "returned" /\ \A w \in Workers : worker[w].st \in {"off", "exited"}

-----------------------------------------------------------------------------

\* The collection may already hold objects, all created before Run.
Init ==
    /\ cluster \in [Keys -> {None, CreatedAt(0)}]
    /\ store = [k \in Keys |-> None]
    /\ indexer = [k \in Keys |-> None]
    /\ now = 1
    /\ serverStartTime = 0
    /\ phase = "init"
    /\ stop = FALSE
    /\ synced = FALSE
    /\ worker = [w \in Workers |-> [st |-> "off", item |-> None, obj |-> None]]
    /\ wq = NewQueue(Events)
    /\ changes = 0
    /\ unseen = {}
    /\ dropped = {}
    /\ skipped = {}
    /\ seen = [k \in Keys |-> None]
    /\ watching = TRUE
    /\ relists = 0

\* The process is over: nothing of the controller moves any more.
Finished ==
    /\ Terminated
    /\ UNCHANGED vars

Next ==
    \/ \E k \in Keys : ObjCreate(k) \/ ObjUpdate(k) \/ ObjDelete(k)
    \/ Tick
    \/ Stop
    \/ WatchError \/ Relist
    \/ RunStart \/ ListAndSync \/ RunSyncTimeout \/ RunStartWorkers \/ RunReturn
    \/ \E w \in Workers :
          \/ WorkerBegin(w) \/ WorkerQuit(w) \/ WorkerGet(w)
          \/ \E ok \in BOOLEAN : WorkerFinish(w, ok)
    \/ \E e \in Events : RetryFires(e)
    \/ Finished

\* Goroutines are scheduled fairly, the caller eventually calls Run, the
\* informer eventually lists, timers eventually fire and the handler
\* eventually returns.  The environment (cluster changes, the clock, the
\* stop channel) gets no fairness.
Fairness ==
    /\ WF_vars(RunStart) /\ WF_vars(ListAndSync) /\ WF_vars(RunSyncTimeout)
    /\ WF_vars(RunStartWorkers) /\ WF_vars(RunReturn) /\ WF_vars(Relist)
    /\ \A w \in Workers :
          /\ WF_vars(WorkerBegin(w)) /\ WF_vars(WorkerQuit(w))
          /\ WF_vars(WorkerGet(w))
          /\ WF_vars(\E ok \in BOOLEAN : WorkerFinish(w, ok))
    /\ \A e \in Events : WF_vars(RetryFires(e))

Spec == Init /\ [][Next]_vars /\ Fairness

-----------------------------------------------------------------------------
(* Properties.                                                              *)

TypeOK ==
    /\ cluster \in [Keys -> Objects \cup {None}]
    /\ store \in [Keys -> Objects \cup {None}]
    /\ indexer \in [Keys -> Objects \cup {None}]
    /\ now \in 0..MaxTick /\ serverStartTime \in 0..MaxTick
    /\ phase \in {"init", "syncing", "running", "returned"}
    /\ stop \in BOOLEAN /\ synced \in BOOLEAN
    /\ worker \in [Workers -> [st : WorkerStates, item : Events \cup {None},
                            obj : Objects \cup {None}]]
    /\ wq.queue \in Seq(Events)
    /\ wq.dirty \subseteq Events /\ wq.processing \subseteq Events
    /\ wq.waiting \subseteq Events
    /\ wq.failures \in [Events -> 0..MaxRetries]
    /\ changes \in 0..MaxChanges
    /\ unseen \subseteq Events /\ dropped \subseteq Events
    /\ skipped \subseteq Objects
    /\ seen \in [Keys -> Objects \cup {None}]
    /\ watching \in BOOLEAN /\ relists \in 0..MaxRelists

\* The queue hands one Event{key, eventType} to at most one worker at a
\* time: an Add while the event is processed is held back until Done
\* (the claim of the comment at controller.go:165-167, for queue items).
NoEventProcessedConcurrently ==
    \A w1, w2 \in Workers :
        (w1 # w2 /\ worker[w1].st = "busy" /\ worker[w2].st = "busy")
            => worker[w1].item # worker[w2].item

\* Spec section 3 and 8, and the comment at controller.go:166-167: two
\* workers never run the handler for the same key at the same time.
SequentialPerKey ==
    \A w1, w2 \in Workers :
        (w1 # w2 /\ worker[w1].st = "busy" /\ worker[w2].st = "busy")
            => worker[w1].item.key # worker[w2].item.key

\* Spec section 8: the filter drops the create event only of an object
\* that predates serverStartTime; an object created after Run reaches the
\* handler.
FilterSkipsOnlyPreexisting ==
    \A o \in skipped : o.created < serverStartTime

\* Spec sections 4.4 and 8: once handleErr drops an event after its retry
\* budget, no automatic retry of it is scheduled until a new notification
\* adds it again.
NoRetryAfterDrop ==
    \A e \in dropped : e \notin wq.waiting \cup Ready(wq)

\* Every event the informer adds is eventually taken by a worker, even one
\* added while an equal event is being processed, unless stopCh closes.
NotificationsReachWorkers ==
    \A e \in Events : e \in unseen ~> (e \notin unseen \/ stop)

\* The comment at controller.go:76-77 and spec section 5: the handler may
\* see a newer object than the notification's, but every change re-adds an
\* event, so each state the indexer settles on for a key is eventually the
\* one a processNextItem looks up, through dedup, events re-added while
\* processed, retries and the startup filter, unless stopCh closes.
EveryCachedStateProcessed ==
    \A k \in Keys : seen[k] # indexer[k] ~> (seen[k] = indexer[k] \/ stop)

\* Spec section 4.3: Run returns only after the stop signal fires and all
\* workers have drained their current item.  (Run returns right after
\* <-stopCh, line 239, without waiting for the wait.Until goroutines.)
RunReturnsAfterDrain ==
    phase = "returned" => \A w \in Workers : worker[w].st # "busy"

\* Closing stopCh makes Run return and every worker exit.
StopTerminates == stop ~> Terminated

=============================================================================
