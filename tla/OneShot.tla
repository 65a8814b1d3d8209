------------------------------- MODULE OneShot -------------------------------
(***************************************************************************)
(* Calls that a page hands to a OneShotWorker, or to a thread like it.  A  *)
(* page keeps such a worker in an attribute of its own, called a slot      *)
(* here, refuses the next call while the slot is taken, and frees it when  *)
(* the thread's "finished" arrives, which is after the outcome has.  Both  *)
(* signals are queued, so the page runs other handlers in between.         *)
(***************************************************************************)
EXTENDS TLC

CONSTANTS
    Slot,       \* the attributes
    Nobody      \* a slot without a worker; what no call has answered

VARIABLE
    worker      \* worker[s]: the stage of the slot's worker and its call

(* The stages: running, succeeded or failed (the outcome is emitted and not yet
   handled), told (it was handled, and finished was not). *)
OneShotInit == worker = [s \in Slot |-> Nobody]

Free(s) == worker[s] = Nobody
SlotStage(s) == IF Free(s) THEN "free" ELSE worker[s].stage

\* start(): the call is what the page captured of its state, or what it left
\* for the thread to read.
StartCall(s, call) ==
    /\ Free(s)
    /\ worker' = [worker EXCEPT ![s] = [stage |-> "running", call |-> call]]

\* run(): every exception is caught and becomes the failed outcome.
CallEnds(s, outcome) ==
    /\ SlotStage(s) = "running"
    /\ worker' = [worker EXCEPT ![s].stage = outcome]

\* The page's slot of succeeded or failed runs.
OutcomeHandled(s, outcome) ==
    /\ SlotStage(s) = outcome
    /\ worker' = [worker EXCEPT ![s].stage = "told"]

\* Bug: the slot of finished does not free the attribute.
FinishedKept(s) ==
    /\ SlotStage(s) = "told"
    /\ UNCHANGED worker

\* The page's slot of finished runs; it looks at the attribute, not at the
\* worker it was connected to.
FinishedHandled(s) ==
    /\ SlotStage(s) = "told"
    /\ worker' = [worker EXCEPT ![s] = Nobody]

=============================================================================
