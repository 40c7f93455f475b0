----------------------------- MODULE WorkQueue -----------------------------
(***************************************************************************)
(* The rate-limited, deduplicating work queue the controller is built on   *)
(* (workqueue.NewRateLimitingQueue, src/pkg/agent/controller.go:70).  The  *)
(* queue library is not part of this repository: its operations are       *)
(* modelled from the spec (sections 4.2 and 9) as pure operators on one    *)
(* record, so that a controller step can apply several of them in the     *)
(* order its handler calls them.                                           *)
(*                                                                         *)
(*   queue        the ready FIFO handed out by Get                         *)
(*   dirty        items that need processing (queued or re-added while     *)
(*                being processed)                                         *)
(*   processing   items handed out by Get and not yet Done                 *)
(*   waiting      items scheduled by AddRateLimited, not yet re-added      *)
(*   failures     the per-item failure counter read by NumRequeues         *)
(*   shuttingDown set by ShutDown                                          *)
(***************************************************************************)
EXTENDS Naturals, Sequences, SequencesExt

\* The empty queue over the item set Items.
NewQueue(Items) ==
    [queue        |-> <<>>,
     dirty        |-> {},
     processing   |-> {},
     waiting      |-> {},
     failures     |-> [e \in Items |-> 0],
     shuttingDown |-> FALSE]

\* Mutant: Add that queues an item being processed instead of deferring it.
AddIgnoringProcessing(q, e) ==
    IF q.shuttingDown \/ e \in q.dirty THEN q
    ELSE [q EXCEPT !.dirty = @ \cup {e}, !.queue = Append(@, e)]

\* Add: a no-op after ShutDown or for an item already dirty; an item that is
\* being processed is only marked dirty and is queued again by Done.
Add(q, e) ==
    IF q.shuttingDown \/ e \in q.dirty THEN q
    ELSE IF e \in q.processing THEN [q EXCEPT !.dirty = @ \cup {e}]
    ELSE [q EXCEPT !.dirty = @ \cup {e}, !.queue = Append(@, e)]

\* Get returns an item only when the ready queue is non-empty; after
\* ShutDown an empty queue makes Get report quit instead.
CanGet(q) == q.queue # <<>>
GetQuits(q) == q.queue = <<>> /\ q.shuttingDown

\* Get: the head item moves from the ready queue to processing.
Get(q) ==
    LET e == Head(q.queue)
    IN  [q EXCEPT !.queue = Tail(@),
                  !.processing = @ \cup {e},
                  !.dirty = @ \ {e}]

\* Mutant: Done that forgets an item re-added while it was processed.
DoneDroppingDirty(q, e) == [q EXCEPT !.processing = @ \ {e}]

\* Done: the item leaves processing and is queued again if it was re-added
\* meanwhile.
Done(q, e) ==
    IF e \in q.dirty
    THEN [q EXCEPT !.processing = @ \ {e}, !.queue = Append(@, e)]
    ELSE [q EXCEPT !.processing = @ \ {e}]

\* NumRequeues and Forget of the per-item exponential rate limiter.
NumRequeues(q, e) == q.failures[e]
Forget(q, e) == [q EXCEPT !.failures[e] = 0]

\* AddRateLimited: When() counts the failure, then AddAfter schedules the
\* item with a positive delay unless the queue is shutting down.  A second
\* AddAfter of an already waiting item keeps the single waiting entry.
AddRateLimited(q, e) ==
    [q EXCEPT !.failures[e] = @ + 1,
              !.waiting = IF q.shuttingDown THEN @ ELSE @ \cup {e}]

\* The delay of a waiting item elapses: the waiting loop Adds it.
FireWaiting(q, e) == Add([q EXCEPT !.waiting = @ \ {e}], e)

\* ShutDown: Get stops blocking and the waiting loop stops, dropping the
\* items still waiting.
ShutDown(q) == [q EXCEPT !.shuttingDown = TRUE, !.waiting = {}]

\* The items Get will still hand out.
Ready(q) == ToSet(q.queue)

=============================================================================
