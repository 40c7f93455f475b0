------------------------------ MODULE Uploader ------------------------------
(***************************************************************************)
(* The state uploader of the agent (src/pkg/agent/controller.go:279-336):  *)
(* sendUpdate posts a state update, sendEvents a batch of events, both     *)
(* from the event handlers that the controller's workers run.  Each call   *)
(* marshals its payload, builds the request, sends it and reads the        *)
(* status; a marshal or request error and a non-200 status are logged and  *)
(* the call returns, but an error from client.Do (no response at all)     *)
(* panics.  The panic is not recovered in the worker goroutine             *)
(* (wait.Until's HandleCrash re-panics), so it ends the agent process with *)
(* every push and event in flight; the pod is then restarted.              *)
(***************************************************************************)
EXTENDS Naturals

CONSTANTS
    Workers,      \* worker goroutines whose handlers push
    MaxPushes,    \* bound on the pushes started
    MaxRestarts   \* bound on the process restarts

VARIABLES
    proc,      \* "up" or "down": the agent process
    pc,        \* each worker: "idle", "marshal", "request", "do", "status"
    kind,      \* the call a worker is in: "update" (sendUpdate) or "events"
    pushes,    \* pushes started so far
    restarts,  \* restarts so far
    accepted   \* pushes the dashboard answered with 200

vars == <<proc, pc, kind, pushes, restarts, accepted>>

Idle == [w \in Workers |-> "idle"]

Init ==
    /\ proc = "up"
    /\ pc = Idle
    /\ kind = [w \in Workers |-> "update"]
    /\ pushes = 0 /\ restarts = 0 /\ accepted = 0

\* A handler calls sendUpdate or sendEvents.
Push(w, k) ==
    /\ proc = "up" /\ pc[w] = "idle"
    /\ pushes < MaxPushes
    /\ pushes' = pushes + 1
    /\ kind' = [kind EXCEPT ![w] = k]
    /\ pc' = [pc EXCEPT ![w] = "marshal"]
    /\ UNCHANGED <<proc, restarts, accepted>>

\* json.Marshal, then http.NewRequest: an error is logged and the call
\* returns.
Step(w, from, to) ==
    /\ proc = "up" /\ pc[w] = from
    /\ \E ok \in BOOLEAN : pc' = [pc EXCEPT ![w] = IF ok THEN to ELSE "idle"]
    /\ UNCHANGED <<proc, kind, pushes, restarts, accepted>>

Marshal(w) == Step(w, "marshal", "request")
NewRequest(w) == Step(w, "request", "do")

\* client.Do: a response, or an error and panic(err), which ends the
\* process and every call in flight.
Do(w) ==
    /\ proc = "up" /\ pc[w] = "do"
    /\ \/ /\ pc' = [pc EXCEPT ![w] = "status"]
          /\ UNCHANGED proc
       \/ /\ proc' = "down"
          /\ pc' = Idle
    /\ UNCHANGED <<kind, pushes, restarts, accepted>>

\* The status check: 200 returns, anything else is logged and returns.
Status(w) ==
    /\ proc = "up" /\ pc[w] = "status"
    /\ \E ok \in BOOLEAN : accepted' = IF ok THEN accepted + 1 ELSE accepted
    /\ pc' = [pc EXCEPT ![w] = "idle"]
    /\ UNCHANGED <<proc, kind, pushes, restarts>>

\* Kubernetes restarts the crashed agent.
Restart ==
    /\ proc = "down"
    /\ restarts < MaxRestarts
    /\ proc' = "up"
    /\ restarts' = restarts + 1
    /\ UNCHANGED <<pc, kind, pushes, accepted>>

Finished ==
    /\ pushes = MaxPushes \/ (proc = "down" /\ restarts = MaxRestarts)
    /\ \A w \in Workers : pc[w] = "idle"
    /\ UNCHANGED vars

Next ==
    \/ \E w \in Workers :
          \/ \E k \in {"update", "events"} : Push(w, k)
          \/ Marshal(w) \/ NewRequest(w) \/ Do(w) \/ Status(w)
    \/ Restart
    \/ Finished

Spec == Init /\ [][Next]_vars

-----------------------------------------------------------------------------

\* Spec sections 4.5 and 7: a failed push is logged and dropped; the
\* controller never terminates the process on a transient error.
PushFailureKeepsAgentUp == [][proc = "up" => proc' = "up"]_proc

=============================================================================
