--------------------------- MODULE SharedStartTime ---------------------------
(***************************************************************************)
(* Two controllers of one agent process (say, one for pods and one for     *)
(* deployments), each a Controller with its own informer, indexer, queue  *)
(* and workers, but one package variable serverStartTime                   *)
(* (controller.go:61) that every Run overwrites (line 225) and every       *)
(* worker's startup filter reads (lines 180-181), and one clock.  Each     *)
(* step is a step of one controller, the other's variables unchanged.      *)
(* A history variable records the time each controller's Run started.      *)
(***************************************************************************)
EXTENDS Naturals

CONSTANTS Keys, Workers, MaxRetries, TicksPerSecond, MaxTick, MaxChanges,
          MaxRelists, Dynamic, ObjTypeKnown, None

VARIABLES
    now, serverStartTime,
    aCluster, aStore, aIndexer, aPhase, aStop, aSynced, aWorker, aWq,
    aChanges, aUnseen, aDropped, aSkipped, aSeen, aWatching, aRelists,
    bCluster, bStore, bIndexer, bPhase, bStop, bSynced, bWorker, bWq,
    bChanges, bUnseen, bDropped, bSkipped, bSeen, bWatching, bRelists,
    runAt   \* runAt[c]: the tick at which controller c's Run started

aVars == <<aCluster, aStore, aIndexer, aPhase, aStop, aSynced, aWorker, aWq,
           aChanges, aUnseen, aDropped, aSkipped, aSeen, aWatching, aRelists>>
bVars == <<bCluster, bStore, bIndexer, bPhase, bStop, bSynced, bWorker, bWq,
           bChanges, bUnseen, bDropped, bSkipped, bSeen, bWatching, bRelists>>
vars == <<now, serverStartTime, aVars, bVars, runAt>>

A == INSTANCE Controller WITH
        cluster <- aCluster, store <- aStore, indexer <- aIndexer,
        phase <- aPhase, stop <- aStop, synced <- aSynced, worker <- aWorker,
        wq <- aWq, changes <- aChanges, unseen <- aUnseen,
        dropped <- aDropped, skipped <- aSkipped, seen <- aSeen,
        watching <- aWatching, relists <- aRelists

B == INSTANCE Controller WITH
        cluster <- bCluster, store <- bStore, indexer <- bIndexer,
        phase <- bPhase, stop <- bStop, synced <- bSynced, worker <- bWorker,
        wq <- bWq, changes <- bChanges, unseen <- bUnseen,
        dropped <- bDropped, skipped <- bSkipped, seen <- bSeen,
        watching <- bWatching, relists <- bRelists

\* Run of controller c started in this step: record the time it read.
RecordRun(c, phase) ==
    runAt' = IF phase = "init" /\ phase' = "syncing"
             THEN [runAt EXCEPT ![c] = now] ELSE runAt

Init == A!Init /\ B!Init /\ runAt = [c \in {"a", "b"} |-> 0]

\* Both controllers' Run read the one clock and write the one
\* serverStartTime; a Tick of either is the clock advancing.
Next ==
    \/ A!Next /\ UNCHANGED bVars /\ RecordRun("a", aPhase)
    \/ B!Next /\ UNCHANGED aVars /\ RecordRun("b", bPhase)

Spec == Init /\ [][Next]_vars

-----------------------------------------------------------------------------

\* Spec section 4.3 (and 8): each controller's startup filter drops the
\* create event only of an object that predates that controller's Run;
\* an object created after it reaches the handler, whatever another
\* controller's Run does to the package variable serverStartTime.
FilterSkipsOnlyOwnPreexisting ==
    /\ \A o \in aSkipped : o.created < runAt["a"]
    /\ \A o \in bSkipped : o.created < runAt["b"]

=============================================================================
