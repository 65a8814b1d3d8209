-------------------------- MODULE NetworkScanProofs --------------------------
(***************************************************************************)
(* The network page never loses a worker or a signal, and what it shows is *)
(* settled, for any number of scans, hosts and pool threads.               *)
(***************************************************************************)
EXTENDS NetworkScan, SequenceTheorems, TLAPS

-----------------------------------------------------------------------------
(* The fan-out keeps the promise of Sweep, whatever the order of its checks and
   the moment of a cancellation. *)

\* The fields of a well-typed call.
LEMMA CallFacts ==
    ASSUME FanTypeOK, NEW c \in Call
    PROVE  /\ fan[c].stage \in Stage /\ fan[c].results \subseteq Item
           /\ fan[c].cancelled \in BOOLEAN /\ fan[c].raised \in BOOLEAN
           /\ token[c] \in BOOLEAN
           /\ \A i \in Item : future[c][i] \in FutureState
  BY DEF FanTypeOK

LEMMA FanTypeStep == FanTypeOK /\ [FanNext]_fanVars => FanTypeOK'
  <1> SUFFICES ASSUME FanTypeOK, [FanNext]_fanVars PROVE FanTypeOK'
    OBVIOUS
  <1> USE DEF FanTypeOK, Stage, FutureState
  <1>1. CASE UNCHANGED fanVars
    BY <1>1 DEF fanVars
  <1>2. ASSUME NEW c \in Call, CancelFan(c) PROVE FanTypeOK'
    BY <1>2 DEF CancelFan, CancelCall
  <1>3. ASSUME NEW c \in Call, BeginFan(c) PROVE FanTypeOK'
    BY <1>3 DEF BeginFan
  <1>4. ASSUME NEW c \in Call, Collect(c) PROVE FanTypeOK'
    <2>1. ASSUME NEW i \in Item, CollectResult(c, i) PROVE FanTypeOK'
      BY <2>1 DEF CollectResult
    <2>2. ASSUME NEW i \in Item, CollectCancelled(c, i) PROVE FanTypeOK'
      BY <2>2 DEF CollectCancelled
    <2>3. ASSUME NEW i \in Item, CollectRaised(c, i) PROVE FanTypeOK'
      BY <2>3 DEF CollectRaised
    <2>4. CASE CollectedAll(c)
      BY <2>4 DEF CollectedAll
    <2>5. QED
      BY <1>4, <2>1, <2>2, <2>3, <2>4 DEF Collect
  <1>5. ASSUME NEW c \in Call, ShutdownPool(c) PROVE FanTypeOK'
    BY <1>5 DEF ShutdownPool
  <1>6. ASSUME NEW c \in Call, ReturnFan(c) PROVE FanTypeOK'
    BY <1>6 DEF ReturnFan
  <1>7. ASSUME NEW c \in Call, PoolStep(c) PROVE FanTypeOK'
    <2>1. ASSUME NEW i \in Item, StartCheck(c, i) PROVE FanTypeOK'
      BY <2>1 DEF StartCheck
    <2>2. ASSUME NEW i \in Item, FinishCheck(c, i) PROVE FanTypeOK'
      <3>1. PICK s \in {"done", "raised"} :
              future' = [future EXCEPT ![c] = [@ EXCEPT ![i] = s]]
        BY <2>2 DEF FinishCheck
      <3>2. QED
        BY <2>2, <3>1 DEF FinishCheck
    <2>3. QED
      BY <1>7, <2>1, <2>2 DEF PoolStep
  <1>8. QED
    BY <1>1, <1>2, <1>3, <1>4, <1>5, <1>6, <1>7 DEF FanNext, FanStep

-----------------------------------------------------------------------------
(* The invariant, one call at a time *)

\* What FanInv says of one call.
CallInv(c) ==
    /\ fan[c].results \subseteq In(c, "done")
    /\ fan[c].cancelled => token[c]
    /\ fan[c].raised => In(c, "raised") # {}
    /\ fan[c].stage \in {"closing", "waiting", "returned"}
         => fan[c].cancelled \/ fan[c].raised \/ fan[c].results = Item
    /\ fan[c].stage = "idle" => In(c, "none") = Item
    /\ fan[c].stage \in {"waiting", "returned"} => In(c, "pending") = {}
    /\ fan[c].stage = "returned" => In(c, "running") = {}
    /\ fan[c].stage \in {"idle", "collecting"} => ~ (fan[c].cancelled \/ fan[c].raised)
    /\ ~ (fan[c].cancelled /\ fan[c].raised)

LEMMA FanInvByCall == FanInv <=> FanTypeOK /\ \A c \in Call : CallInv(c)
  BY DEF FanInv, CallInv, ResultsAreDone, CancelledByToken, RaisedByCheck,
         CompleteOrStopped, PoolEmptied, FlagsEndLoop

\* A step that leaves a call's future, flags and stage alone and does not clear
\* its token keeps the call's invariant.
LEMMA OtherCall ==
    ASSUME NEW c \in Call, CallInv(c), fan'[c] = fan[c], future'[c] = future[c],
           token[c] => token'[c]
    PROVE  CallInv(c)'
  BY DEF CallInv, In

LEMMA CollectKeeps ==
    ASSUME FanTypeOK, NEW c \in Call, CallInv(c), Collect(c)
    PROVE  CallInv(c)'
  <1> USE DEF FanTypeOK, Stage, FutureState, CallInv, In
  <1>1. ASSUME NEW i \in Item, CollectResult(c, i) PROVE CallInv(c)'
    BY <1>1 DEF CollectResult, Yields
  <1>2. ASSUME NEW i \in Item, CollectCancelled(c, i) PROVE CallInv(c)'
    BY <1>2 DEF CollectCancelled, Yields
  <1>3. ASSUME NEW i \in Item, CollectRaised(c, i) PROVE CallInv(c)'
    BY <1>3 DEF CollectRaised, Yields
  <1>4. ASSUME CollectedAll(c) PROVE CallInv(c)'
    BY <1>4 DEF CollectedAll
  <1>5. QED
    BY <1>1, <1>2, <1>3, <1>4 DEF Collect

LEMMA CloseKeeps ==
    ASSUME FanTypeOK, NEW c \in Call, CallInv(c), ShutdownPool(c) \/ ReturnFan(c)
    PROVE  CallInv(c)'
  <1> USE DEF FanTypeOK, Stage, FutureState, CallInv, In
  <1>1. CASE ShutdownPool(c)
    BY <1>1 DEF ShutdownPool
  <1>2. CASE ReturnFan(c)
    BY <1>2 DEF ReturnFan
  <1>3. QED
    BY <1>1, <1>2

LEMMA PoolKeeps ==
    ASSUME FanTypeOK, NEW c \in Call, CallInv(c), PoolStep(c)
    PROVE  CallInv(c)'
  <1> USE DEF FanTypeOK, Stage, FutureState, CallInv, In
  <1>1. ASSUME NEW i \in Item, StartCheck(c, i) PROVE CallInv(c)'
    BY <1>1 DEF StartCheck
  <1>2. ASSUME NEW i \in Item, FinishCheck(c, i) PROVE CallInv(c)'
    BY <1>2 DEF FinishCheck
  <1>3. QED
    BY <1>1, <1>2 DEF PoolStep

LEMMA FanInvInit == FanInit => FanInv
  <1> SUFFICES ASSUME FanInit PROVE FanTypeOK /\ \A c \in Call : CallInv(c)
    BY FanInvByCall
  <1>1. FanTypeOK
    BY DEF FanInit, TokenInit, FanTypeOK, Stage, FutureState
  <1>2. \A c \in Call : CallInv(c)
    BY DEF FanInit, TokenInit, CallInv, In
  <1>3. QED
    BY <1>1, <1>2

LEMMA FanInvStep == FanInv /\ [FanNext]_fanVars => FanInv'
  <1> SUFFICES ASSUME FanInv, [FanNext]_fanVars PROVE FanInv'
    OBVIOUS
  <1>1. FanTypeOK /\ FanTypeOK'
    BY FanTypeStep DEF FanInv
  <1>2. ASSUME NEW d \in Call PROVE CallInv(d)'
    <2>1. CallInv(d)
      BY FanInvByCall
    <2>2. CASE UNCHANGED fanVars
      BY <2>1, <2>2, OtherCall DEF fanVars
    <2>3. ASSUME NEW c \in Call, CancelFan(c) PROVE CallInv(d)'
      BY <1>1, <2>1, <2>3, OtherCall DEF CancelFan, CancelCall, FanTypeOK
    <2>4. ASSUME NEW c \in Call, BeginFan(c) PROVE CallInv(d)'
      <3>1. CASE c = d
        BY <1>1, <2>1, <2>4, <3>1 DEF BeginFan, CallInv, In, FanTypeOK
      <3>2. CASE c # d
        BY <1>1, <2>1, <2>4, <3>2, OtherCall DEF BeginFan, FanTypeOK
      <3>3. QED
        BY <3>1, <3>2
    <2>5. ASSUME NEW c \in Call, Collect(c) PROVE CallInv(d)'
      <3>1. CASE c = d
        BY <1>1, <2>1, <2>5, <3>1, CollectKeeps
      <3>2. CASE c # d
        BY <1>1, <2>1, <2>5, <3>2, OtherCall
           DEF Collect, CollectResult, CollectCancelled, CollectRaised,
               CollectedAll, FanTypeOK
      <3>3. QED
        BY <3>1, <3>2
    <2>6. ASSUME NEW c \in Call, ShutdownPool(c) \/ ReturnFan(c) PROVE CallInv(d)'
      <3>1. CASE c = d
        BY <1>1, <2>1, <2>6, <3>1, CloseKeeps
      <3>2. CASE c # d
        BY <1>1, <2>1, <2>6, <3>2, OtherCall DEF ShutdownPool, ReturnFan, FanTypeOK
      <3>3. QED
        BY <3>1, <3>2
    <2>7. ASSUME NEW c \in Call, PoolStep(c) PROVE CallInv(d)'
      <3>1. CASE c = d
        BY <1>1, <2>1, <2>7, <3>1, PoolKeeps
      <3>2. CASE c # d
        BY <1>1, <2>1, <2>7, <3>2, OtherCall
           DEF PoolStep, StartCheck, FinishCheck, FanTypeOK
      <3>3. QED
        BY <3>1, <3>2
    <2>8. QED
      BY <2>2, <2>3, <2>4, <2>5, <2>6, <2>7 DEF FanNext, FanStep
  <1>3. QED
    <2>1. FanInv' <=> FanTypeOK' /\ \A c \in Call : CallInv(c)'
      BY DEF FanInv, CallInv, ResultsAreDone, CancelledByToken, RaisedByCheck,
             CompleteOrStopped, PoolEmptied, FlagsEndLoop
    <2>2. QED
      BY <1>1, <1>2, <2>1

\* In every reachable state, for any number of calls, items and threads: results
\* are of checks that returned, a call that was neither cancelled nor broken has
\* all of them, and no check of a call that has returned runs or waits.
THEOREM FanOutInvariant == FanSpec => []FanInv
  <1>1. FanInv /\ [FanNext]_fanVars => FanInv'
    BY FanInvStep
  <1>2. QED
    BY <1>1, FanInvInit, PTL DEF FanSpec

-----------------------------------------------------------------------------
(* The refinement *)

checkedOf == [c \in Call |-> In(c, "done")]
brokenOf == [c \in Call |-> In(c, "raised")]
answers == [c \in Call |-> AnswerOf(c)]

\* A step that changes neither what was checked nor an answer does not show.
LEMMA Unseen ==
    ASSUME FanTypeOK, FanTypeOK', token' = token,
           \A c \in Call : /\ In(c, "done")' = In(c, "done")
                           /\ In(c, "raised")' = In(c, "raised")
                           /\ AnswerOf(c)' = AnswerOf(c)
    PROVE  UNCHANGED <<token, checkedOf, brokenOf, answers>>
  BY DEF checkedOf, brokenOf, answers

\* Returning is one of the three answers of the promise.
LEMMA ReturnAnswers ==
    ASSUME FanInv, NEW c \in Call, ReturnFan(c)
    PROVE  Promise!AnswerAll(c) \/ Promise!AnswerPart(c) \/ Promise!Fail(c)
  <1> DEFINE late == fan[c].cancelled \/ (token[c] /\ ~ fan[c].raised)
  <1>1. FanTypeOK /\ CallInv(c)
    BY FanInvByCall
  <1>2. /\ UNCHANGED <<token, future, checkedOf, brokenOf>>
        /\ fan[c].stage = "waiting"
        /\ fan'[c] = [fan[c] EXCEPT !.stage = "returned", !.cancelled = late]
        /\ \A d \in Call : d # c => fan'[d] = fan[d]
    BY <1>1 DEF ReturnFan, FanTypeOK, checkedOf, brokenOf, In
  <1>3. /\ fan'[c].stage = "returned" /\ fan'[c].cancelled = late
        /\ fan'[c].raised = fan[c].raised /\ fan'[c].results = fan[c].results
    BY <1>1, <1>2 DEF FanTypeOK
  <1>4. answers' = [answers EXCEPT ![c] = AnswerOf(c)']
    BY <1>2 DEF answers, AnswerOf
  <1>5. answers[c] = Promise!NoAnswer
    BY <1>2 DEF answers, AnswerOf, Promise!NoAnswer
  <1>6. CASE fan[c].raised
    <2>1. AnswerOf(c)' = Promise!Failure
      BY <1>3, <1>6 DEF AnswerOf, Promise!Failure
    <2>2. brokenOf[c] # {}
      BY <1>1, <1>6 DEF CallInv, brokenOf
    <2>3. QED
      BY <1>2, <1>4, <1>5, <2>1, <2>2 DEF Promise!Fail, checkedOf, brokenOf, answers
  <1>7. CASE ~ fan[c].raised /\ late
    <2>1. AnswerOf(c)' = [kind |-> "cancelled", of |-> fan[c].results]
      BY <1>3, <1>7 DEF AnswerOf
    <2>2. token[c] /\ fan[c].results \in SUBSET checkedOf[c]
      BY <1>1, <1>7 DEF CallInv, checkedOf
    <2>3. QED
      BY <1>2, <1>4, <1>5, <2>1, <2>2
         DEF Promise!AnswerPart, checkedOf, brokenOf, answers
  <1>8. CASE ~ fan[c].raised /\ ~ late
    <2>1. fan[c].results = Item /\ checkedOf[c] = Item
      BY <1>1, <1>2, <1>8 DEF CallInv, checkedOf, In
    <2>2. AnswerOf(c)' = [kind |-> "complete", of |-> Item]
      BY <1>3, <1>8, <2>1 DEF AnswerOf
    <2>3. QED
      BY <1>2, <1>4, <1>5, <2>1, <2>2
         DEF Promise!AnswerAll, checkedOf, brokenOf, answers
  <1>9. QED
    BY <1>6, <1>7, <1>8

\* A check that ends was neither checked nor broken before, and its call has
\* not been answered.
LEMMA FinishChecks ==
    ASSUME FanInv, FanTypeOK', NEW c \in Call, NEW i \in Item, FinishCheck(c, i)
    PROVE  Promise!CheckItem(c, i)
  <1>1. FanTypeOK /\ CallInv(c)
    BY FanInvByCall
  <1>2. PICK s \in {"done", "raised"} :
          future' = [future EXCEPT ![c] = [@ EXCEPT ![i] = s]]
    BY DEF FinishCheck
  <1>3. /\ UNCHANGED <<token, fan>> /\ future[c][i] = "running"
        /\ future'[c][i] = s
        /\ \A j \in Item : j # i => future'[c][j] = future[c][j]
        /\ \A d \in Call : d # c => future'[d] = future[d]
    BY <1>1, <1>2 DEF FinishCheck, FanTypeOK
  <1>4. UNCHANGED <<token, answers>>
    BY <1>3 DEF answers, AnswerOf
  <1>5. answers[c] = Promise!NoAnswer
    BY <1>1, <1>3 DEF answers, AnswerOf, CallInv, In, Promise!NoAnswer
  <1>6. i \notin checkedOf[c] \cup brokenOf[c]
    BY <1>3 DEF checkedOf, brokenOf, In
  <1>7. CASE s = "done"
    <2>1. checkedOf' = [checkedOf EXCEPT ![c] = @ \cup {i}]
      BY <1>3, <1>7 DEF checkedOf, In
    <2>2. brokenOf' = brokenOf
      BY <1>3, <1>7 DEF brokenOf, In
    <2>3. QED
      BY <1>4, <1>5, <1>6, <2>1, <2>2
         DEF Promise!CheckItem, checkedOf, brokenOf, answers
  <1>8. CASE s = "raised"
    <2>1. brokenOf' = [brokenOf EXCEPT ![c] = @ \cup {i}]
      BY <1>3, <1>8 DEF brokenOf, In
    <2>2. checkedOf' = checkedOf
      BY <1>3, <1>8 DEF checkedOf, In
    <2>3. QED
      BY <1>4, <1>5, <1>6, <2>1, <2>2
         DEF Promise!CheckItem, checkedOf, brokenOf, answers
  <1>9. QED
    BY <1>7, <1>8

\* Steps of the call that neither check nor answer.
LEMMA InternalStep ==
    ASSUME FanInv, FanTypeOK', NEW c \in Call,
           \/ BeginFan(c) \/ Collect(c) \/ ShutdownPool(c)
           \/ \E i \in Item : StartCheck(c, i)
    PROVE  UNCHANGED <<token, checkedOf, brokenOf, answers>>
  <1> DEFINE Same(d) == /\ In(d, "done")' = In(d, "done")
                        /\ In(d, "raised")' = In(d, "raised")
                        /\ AnswerOf(d)' = AnswerOf(d)
  <1>1. FanTypeOK /\ CallInv(c)
    BY FanInvByCall
  <1>2. CASE BeginFan(c)
    <2>1. \A d \in Call : Same(d)
      BY <1>1, <1>2 DEF BeginFan, FanTypeOK, CallInv, In, AnswerOf
    <2>2. QED
      BY <1>1, <1>2, <2>1, Unseen DEF BeginFan
  <1>3. CASE Collect(c)
    <2>1. token' = token /\ future' = future
      BY <1>3 DEF Collect, CollectResult, CollectCancelled, CollectRaised, CollectedAll
    <2>2. /\ fan[c].stage # "returned" /\ fan'[c].stage # "returned"
          /\ \A d \in Call : d # c => fan'[d] = fan[d]
      BY <1>1, <1>3 DEF Collect, CollectResult, CollectCancelled, CollectRaised,
                        CollectedAll, Yields, FanTypeOK
    <2>3. \A d \in Call : Same(d)
      BY <2>1, <2>2 DEF In, AnswerOf
    <2>4. QED
      BY <1>1, <2>1, <2>3, Unseen
  <1>4. CASE ShutdownPool(c)
    <2>1. \A d \in Call : Same(d)
      BY <1>1, <1>4 DEF ShutdownPool, FanTypeOK, In, AnswerOf
    <2>2. QED
      BY <1>1, <1>4, <2>1, Unseen DEF ShutdownPool
  <1>5. ASSUME NEW i \in Item, StartCheck(c, i)
        PROVE  UNCHANGED <<token, checkedOf, brokenOf, answers>>
    <2>1. \A d \in Call : Same(d)
      BY <1>1, <1>5 DEF StartCheck, FanTypeOK, In, AnswerOf
    <2>2. QED
      BY <1>1, <1>5, <2>1, Unseen DEF StartCheck
  <1>6. QED
    BY <1>2, <1>3, <1>4, <1>5

LEMMA SweepStep ==
    ASSUME FanInv, FanInv', [FanNext]_fanVars
    PROVE  [Promise!SweepNext]_<<token, checkedOf, brokenOf, answers>>
  <1> DEFINE Goal == [Promise!SweepNext]_<<token, checkedOf, brokenOf, answers>>
  <1> SUFFICES Goal
    OBVIOUS
  <1>1. FanTypeOK /\ FanTypeOK'
    BY DEF FanInv
  <1>2. CASE UNCHANGED fanVars
    BY <1>2 DEF fanVars, checkedOf, brokenOf, answers, In, AnswerOf
  <1>3. ASSUME NEW c \in Call, CancelFan(c) PROVE Goal
    <2>1. Promise!Ask(c)
      BY <1>3 DEF CancelFan, CancelCall, Promise!Ask, In, AnswerOf
    <2>2. QED
      BY <2>1 DEF Promise!SweepNext
  <1>4. ASSUME NEW c \in Call,
               \/ BeginFan(c) \/ Collect(c) \/ ShutdownPool(c)
               \/ \E i \in Item : StartCheck(c, i)
        PROVE  Goal
    BY <1>1, <1>4, InternalStep
  <1>5. ASSUME NEW c \in Call, ReturnFan(c) PROVE Goal
    BY <1>5, ReturnAnswers DEF Promise!SweepNext
  <1>6. ASSUME NEW c \in Call, NEW i \in Item, FinishCheck(c, i) PROVE Goal
    BY <1>1, <1>6, FinishChecks DEF Promise!SweepNext
  <1>7. QED
    BY <1>2, <1>3, <1>4, <1>5, <1>6 DEF FanNext, FanStep, PoolStep

\* A scan or a round answers with checks that were done: all of them unless its
\* token was cancelled, a failure only if a check raised, and no check goes on
\* after the answer.
THEOREM FanOutImplementsSweep == FanSpec => ImplementsSweep
  <1>1. FanInit => Promise!SweepInit
    BY DEF FanInit, TokenInit, Promise!SweepInit, Promise!NoAnswer, In, AnswerOf
  <1>2. FanInv /\ FanInv' /\ [FanNext]_fanVars
          => [Promise!SweepNext]_<<token, checkedOf, brokenOf, answers>>
    BY SweepStep
  <1>3. FanInv /\ FanInv' /\ [FanNext]_fanVars
          => [Promise!SweepNext]_(Promise!sweepVars)
    BY <1>2 DEF Promise!sweepVars, checkedOf, brokenOf, answers
  <1>4. QED
    BY <1>1, <1>3, FanOutInvariant, PTL
       DEF FanSpec, ImplementsSweep, Promise!SweepSpec

-----------------------------------------------------------------------------
(* The page is a client of FanOut *)

LEMMA ScanStepIsFanStep ==
    ScanTypeOK /\ [ScanNext]_scanVars => [FanNext]_fanVars
  <1> SUFFICES ASSUME ScanTypeOK, [ScanNext]_scanVars PROVE [FanNext]_fanVars
    OBVIOUS
  <1> USE DEF fanVars, poolVars
  <1>1. CASE UNCHANGED scanVars
    BY <1>1 DEF scanVars, pageVars
  <1>2. CASE ClickScan
    BY <1>2 DEF ClickScan, ClickRun, StartWorker
  <1>3. CASE CancelScan
    <2>1. page.worker \in Call
      BY <1>3 DEF CancelScan, ClickCancel, ScanTypeOK, PageTypeOK
    <2>2. CancelFan(page.worker)
      BY <1>3 DEF CancelScan, ClickCancel, CancelFan
    <2>3. QED
      BY <2>1, <2>2 DEF FanNext
  <1>4. CASE ClosePage
    <2>1. CASE page.worker # None /\ thread[page.worker] # "ended"
      <3>1. page.worker \in Call
        BY <2>1 DEF ScanTypeOK, PageTypeOK
      <3>2. CancelFan(page.worker)
        BY <1>4, <2>1 DEF ClosePage, Close, CancelFan
      <3>3. QED
        BY <3>1, <3>2 DEF FanNext
    <2>2. CASE ~ (page.worker # None /\ thread[page.worker] # "ended")
      BY <1>4, <2>2 DEF ClosePage, Close
    <2>3. QED
      BY <2>1, <2>2
  <1>5. CASE PageStep
    BY <1>5 DEF PageStep, OnScanDone, OnScanFailed, OnFinished, WaitReturns,
                OutcomeArrives, WorkerDone, Delivered
  <1>6. ASSUME NEW n \in Call, WorkerStep(n) PROVE [FanNext]_fanVars
    <2>1. CASE ScanBegins(n)
      BY <2>1 DEF ScanBegins, FanNext
    <2>2. CASE FanningOut(n)
      BY <2>2 DEF FanningOut, FanNext
    <2>3. CASE \/ ScanRefused(n) \/ ScanCancelledEarly(n)
               \/ ScanSucceeds(n) \/ ScanRaises(n) \/ ThreadEnds(n)
      BY <2>3 DEF ScanRefused, ScanCancelledEarly, ScanSucceeds, ScanRaises,
                  ThreadEnds, Answer, EndThread
    <2>4. QED
      BY <1>6, <2>1, <2>2, <2>3 DEF WorkerStep
  <1>7. ASSUME NEW n \in Call, CheckStep(n) PROVE [FanNext]_fanVars
    BY <1>7 DEF CheckStep, FanNext
  <1>8. QED
    BY <1>1, <1>2, <1>3, <1>4, <1>5, <1>6, <1>7 DEF ScanNext, User

-----------------------------------------------------------------------------
(* Types *)

LEMMA AppendSignal ==
    ASSUME PageTypeOK, NEW n \in Call, NEW k \in Outcome \cup {"finished"}
    PROVE  Append(signals, [kind |-> k, run |-> n]) \in Seq(Signal)
  BY DEF PageTypeOK, Signal

LEMMA DeliverTypes ==
    ASSUME PageTypeOK, signals # << >>
    PROVE  Tail(signals) \in Seq(Signal) /\ Head(signals) \in Signal
  BY DEF PageTypeOK

\* The operations of a page keep its types.
LEMMA PageTypes ==
    ASSUME PageTypeOK
    PROVE  /\ ClickRun => PageTypeOK'
           /\ ClickCancel => PageTypeOK'
           /\ Close => PageTypeOK'
           /\ WaitReturns => PageTypeOK'
           /\ \A n \in Call : \A kinds : OutcomeArrives(n, kinds) => PageTypeOK'
           /\ \A n \in Call : WorkerDone(n) => PageTypeOK'
           /\ \A n \in Call, from \in ThreadStage, k \in Outcome :
                Answer(n, from, k) => PageTypeOK'
           /\ \A n \in Call : EndThread(n) => PageTypeOK'
  <1> DEFINE Page == [worker : Call \cup {None}, canRun : BOOLEAN,
                      canCancel : BOOLEAN, window : {"open", "closing", "closed"}]
  <1>1. /\ token \in [Call -> BOOLEAN] /\ thread \in [Call -> ThreadStage]
        /\ signals \in Seq(Signal) /\ page \in Page /\ runs \in Nat
    BY DEF PageTypeOK
  <1>2. PageTypeOK' <=>
          /\ token' \in [Call -> BOOLEAN] /\ thread' \in [Call -> ThreadStage]
          /\ signals' \in Seq(Signal) /\ page' \in Page /\ runs' \in Nat
    BY DEF PageTypeOK
  <1>3. ASSUME ClickRun PROVE PageTypeOK'
    <2>1. page' \in Page
      BY <1>1, <1>3 DEF ClickRun, StartWorker
    <2>2. thread' \in [Call -> ThreadStage]
      BY <1>1, <1>3 DEF ClickRun, StartWorker, ThreadStage
    <2>3. QED
      BY <1>1, <1>2, <1>3, <2>1, <2>2 DEF ClickRun, StartWorker
  <1>4. ASSUME ClickCancel PROVE PageTypeOK'
    BY <1>1, <1>2, <1>4 DEF ClickCancel, CancelCall
  <1>5. ASSUME Close PROVE PageTypeOK'
    <2>1. page' \in Page
      BY <1>1, <1>5 DEF Close
    <2>2. token' \in [Call -> BOOLEAN]
      BY <1>1, <1>5 DEF Close, CancelCall
    <2>3. QED
      BY <1>1, <1>2, <1>5, <2>1, <2>2 DEF Close
  <1>6. ASSUME WaitReturns PROVE PageTypeOK'
    BY <1>1, <1>2, <1>6 DEF WaitReturns
  <1>7. ASSUME NEW n \in Call, NEW kinds, OutcomeArrives(n, kinds) PROVE PageTypeOK'
    <2>1. page' \in Page
      BY <1>1, <1>7 DEF OutcomeArrives
    <2>2. QED
      BY <1>1, <1>2, <1>7, <2>1, DeliverTypes DEF OutcomeArrives, Delivered
  <1>8. ASSUME NEW n \in Call, WorkerDone(n) PROVE PageTypeOK'
    <2>1. page' \in Page
      BY <1>1, <1>8 DEF WorkerDone
    <2>2. QED
      BY <1>1, <1>2, <1>8, <2>1, DeliverTypes DEF WorkerDone, Delivered
  <1>9. ASSUME NEW n \in Call, NEW from \in ThreadStage, NEW k \in Outcome,
               Answer(n, from, k)
        PROVE  PageTypeOK'
    BY <1>1, <1>2, <1>9, AppendSignal DEF Answer, ThreadStage
  <1>10. ASSUME NEW n \in Call, EndThread(n) PROVE PageTypeOK'
    BY <1>1, <1>2, <1>10, AppendSignal DEF EndThread, ThreadStage
  <1>11. QED
    BY <1>3, <1>4, <1>5, <1>6, <1>7, <1>8, <1>9, <1>10

LEMMA ScanTypeStep == ScanTypeOK /\ [ScanNext]_scanVars => ScanTypeOK'
  <1> SUFFICES ASSUME ScanTypeOK, [ScanNext]_scanVars PROVE ScanTypeOK'
    OBVIOUS
  <1> DEFINE Shown == [last : Call \cup {None}, shown : Call \cup {None}]
             Page == PageTypeOK' /\ result' \in Shown
  <1>1. FanTypeOK' /\ PageTypeOK /\ result \in Shown
    BY ScanStepIsFanStep, FanTypeStep DEF ScanTypeOK
  <1>2. CASE UNCHANGED scanVars
    BY <1>1, <1>2 DEF scanVars, pageVars, PageTypeOK, ScanTypeOK
  <1>3. ASSUME ClickScan PROVE Page
    BY <1>1, <1>3, PageTypes DEF ClickScan
  <1>4. ASSUME CancelScan \/ ClosePage PROVE Page
    BY <1>1, <1>4, PageTypes DEF CancelScan, ClosePage
  <1>5. ASSUME PageStep PROVE Page
    BY <1>1, <1>5, PageTypes DEF PageStep, OnScanDone, OnScanFailed, OnFinished
  <1>6. ASSUME NEW n \in Call, WorkerStep(n) PROVE Page
    <2>1. CASE ScanBegins(n)
      BY <1>1, <2>1 DEF ScanBegins, BeginFan, PageTypeOK, ThreadStage
    <2>2. CASE FanningOut(n)
      BY <1>1, <2>2 DEF FanningOut, workerVars, PageTypeOK, FanTypeOK
    <2>3. CASE \/ ScanRefused(n) \/ ScanCancelledEarly(n)
               \/ ScanSucceeds(n) \/ ScanRaises(n) \/ ThreadEnds(n)
      BY <1>1, <2>3, PageTypes
         DEF ScanRefused, ScanCancelledEarly, ScanSucceeds, ScanRaises,
             ThreadEnds, Outcome, ThreadStage
    <2>4. QED
      BY <1>6, <2>1, <2>2, <2>3 DEF WorkerStep
  <1>7. ASSUME NEW n \in Call, CheckStep(n) PROVE Page
    BY <1>1, <1>7 DEF CheckStep, workerVars, PageTypeOK, FanTypeOK
  <1>8. QED
    BY <1>1, <1>2, <1>3, <1>4, <1>5, <1>6, <1>7 DEF ScanNext, User, ScanTypeOK

-----------------------------------------------------------------------------
(* The phases of a run *)

LEMMA ShortQueues ==
    ASSUME NEW a, NEW b
    PROVE  /\ Append(<<a>>, b) = <<a, b>>
           /\ Tail(<<a, b>>) = <<b>> /\ Tail(<<a>>) = << >>
  <1>1. <<a>> \in Seq({a, b}) /\ <<a, b>> \in Seq({a, b})
    OBVIOUS
  <1>2. Append(<<a>>, b) = <<a, b>>
    <2>1. /\ Append(<<a>>, b) \in Seq({a, b}) /\ Len(Append(<<a>>, b)) = 2
          /\ Append(<<a>>, b)[1] = a /\ Append(<<a>>, b)[2] = b
      BY <1>1
    <2>2. /\ Len(<<a, b>>) = 2 /\ <<a, b>>[1] = a /\ <<a, b>>[2] = b
      OBVIOUS
    <2>3. \A i \in 1 .. 2 : Append(<<a>>, b)[i] = <<a, b>>[i]
      <3>1. SUFFICES ASSUME NEW i \in 1 .. 2 PROVE Append(<<a>>, b)[i] = <<a, b>>[i]
        OBVIOUS
      <3>2. i = 1 \/ i = 2
        OBVIOUS
      <3>3. QED
        BY <2>1, <2>2, <3>2
    <2>4. QED
      BY <1>1, <2>1, <2>2, <2>3, SeqEqual
  <1>3. Tail(<<a>>) = << >>
    BY <1>1
  <1>4. Tail(<<a, b>>) = <<b>>
    <2>1. Len(Tail(<<a, b>>)) = 1 /\ Tail(<<a, b>>) \in Seq({a, b})
      BY <1>1
    <2>2. Tail(<<a, b>>)[1] = b
      BY <1>1
    <2>3. QED
      BY <2>1, <2>2
  <1>5. QED
    BY <1>2, <1>3, <1>4

\* A thread that runs is the one the page holds.
Held == \A n \in Call : Alive(n) => page.worker = n

\* The queue holds signals of the page's worker only.
LEMMA OneWorkerFollows ==
    ASSUME RunPhase', Held'
    PROVE  OneWorker'
  <1> SUFFICES ASSUME NEW n \in Call, (Alive(n) \/ Pending(n))'
               PROVE  page'.worker = n /\ n = runs'
    BY DEF OneWorker
  <1>1. CASE Resting'
    BY <1>1, PageAssumption DEF Resting, Pending, Held
  <1>2. ASSUME NEW m \in Call, page'.worker = m, m = runs',
               (Working(m) \/ Seen(m) \/ \E k \in Outcome : Answered(m, k))'
        PROVE  page'.worker = n /\ n = runs'
    <2>1. \A i \in DOMAIN signals' : signals'[i].run = m
      BY <1>2 DEF Working, Seen, Answered, Message
    <2>2. QED
      BY <1>2, <2>1 DEF Held, Pending
  <1>3. QED
    BY <1>1, <1>2 DEF RunPhase

\* The phases of the page's worker, and who it is.
LEMMA PhaseCases ==
    ASSUME RunPhase
    PROVE  /\ page.worker = None => Resting
           /\ page.worker # None =>
                /\ page.worker \in Call /\ page.worker = runs
                /\ \/ Working(runs) \/ Seen(runs)
                   \/ \E k \in Outcome : Answered(runs, k)
  BY PageAssumption DEF RunPhase, Resting

\* A step of the page's buttons or window that leaves the run button, the
\* worker, the signals, the threads and finished calls alone.
LEMMA PhaseKept ==
    ASSUME RunPhase, Held, UNCHANGED <<thread, signals, runs>>,
           page'.worker = page.worker, page'.canRun = page.canRun,
           page'.canCancel => page.canCancel,
           \A n \in Call : fan[n].stage = "returned" => fan'[n] = fan[n]
    PROVE  RunPhase' /\ Held'
  <1>1. Held'
    BY DEF Held, Alive
  <1>2. CASE Resting
    <2>1. Resting'
      BY <1>2 DEF Resting
    <2>2. QED
      BY <1>1, <2>1 DEF RunPhase
  <1>3. ASSUME NEW n \in Call, page.worker = n, n = runs,
               Working(n) \/ Seen(n) \/ \E k \in Outcome : Answered(n, k)
        PROVE  RunPhase'
    <2>1. CASE Working(n)
      <3>1. Working(n)'
        BY <2>1 DEF Working
      <3>2. QED
        BY <1>3, <3>1 DEF RunPhase
    <2>2. CASE Seen(n)
      <3>1. Seen(n)'
        BY <2>2 DEF Seen, Message
      <3>2. QED
        BY <1>3, <3>1 DEF RunPhase
    <2>3. ASSUME NEW k \in Outcome, Answered(n, k) PROVE RunPhase'
      <3>1. Answered(n, k)'
        BY <2>3 DEF Answered, Message
      <3>2. QED
        BY <1>3, <3>1 DEF RunPhase
    <2>4. QED
      BY <1>3, <2>1, <2>2, <2>3
  <1>4. QED
    BY <1>1, <1>2, <1>3 DEF RunPhase

LEMMA ClickPhase ==
    ASSUME PageTypeOK, RunPhase, Held, ClickRun
    PROVE  RunPhase' /\ Held'
  <1>1. Resting
    BY PhaseCases DEF ClickRun
  <1>0. PICK n \in Call : n = runs + 1
    BY DEF ClickRun
  <1>2. /\ runs' = n /\ signals' = signals
        /\ thread' = [thread EXCEPT ![n] = "starting"]
        /\ page'.worker = n /\ page'.canRun = FALSE
    BY <1>0 DEF ClickRun, StartWorker, PageTypeOK
  <1>3. thread'[n] = "starting" /\ \A m \in Call : m # n => thread'[m] = thread[m]
    BY <1>2 DEF PageTypeOK
  <1>4. Working(n)'
    BY <1>1, <1>2, <1>3 DEF Working, Resting
  <1>5. Held'
    BY <1>1, <1>2, <1>3, PageAssumption DEF Held, Alive, Resting
  <1>6. QED
    BY <1>2, <1>4, <1>5 DEF RunPhase

\* The head of the queue tells the phase.
LEMMA OutcomePhase ==
    ASSUME PageTypeOK, RunPhase, Held, NEW n \in Call, NEW kinds \in SUBSET Outcome,
           OutcomeArrives(n, kinds), fan' = fan
    PROVE  /\ RunPhase' /\ Held'
           /\ n = runs /\ page.worker = n
           /\ \E k \in kinds : Answered(n, k)
  <1>1. /\ signals # << >> /\ Head(signals).run = n /\ Head(signals).kind \in kinds
        /\ signals' = Tail(signals) /\ UNCHANGED <<token, thread, runs>>
        /\ page'.worker = page.worker /\ page'.canRun /\ ~ page'.canCancel
    BY DEF OutcomeArrives, Delivered, PageTypeOK
  <1>2. page.worker = runs /\ runs \in Call
    BY <1>1, PhaseCases DEF Resting
  <1>3. ~ Working(runs)
    BY <1>1 DEF Working
  <1>4. ~ Seen(runs)
    BY <1>1 DEF Seen, Message, Outcome
  <1>5. PICK k \in Outcome : Answered(runs, k)
    BY <1>2, <1>3, <1>4, PhaseCases, PageAssumption
  <1>6. Head(signals) = Message(runs, k)
    BY <1>5 DEF Answered
  <1>7. n = runs /\ k \in kinds
    BY <1>1, <1>6 DEF Message
  <1>8. Seen(runs)'
    BY <1>1, <1>5, ShortQueues DEF Seen, Answered, Message
  <1>9. Held'
    BY <1>1 DEF Held, Alive
  <1>10. QED
    BY <1>1, <1>2, <1>5, <1>7, <1>8, <1>9 DEF RunPhase

LEMMA DonePhase ==
    ASSUME PageTypeOK, RunPhase, Held, NEW n \in Call, WorkerDone(n)
    PROVE  RunPhase' /\ Held'
  <1>1. /\ signals # << >> /\ Head(signals).kind = "finished"
        /\ signals' = Tail(signals) /\ UNCHANGED <<token, thread, runs>>
        /\ page'.worker = None /\ page'.canRun = page.canRun
        /\ page'.canCancel = page.canCancel
    BY DEF WorkerDone, Delivered, PageTypeOK
  <1>2. page.worker = runs /\ runs \in Call
    BY <1>1, PhaseCases DEF Resting
  <1>3. ~ Working(runs)
    BY <1>1 DEF Working
  <1>4. \A k \in Outcome : ~ Answered(runs, k)
    BY <1>1 DEF Answered, Message, Outcome
  <1>5. Seen(runs)
    BY <1>2, <1>3, <1>4, PhaseCases, PageAssumption
  <1>6. thread[runs] = "ended" /\ signals' = << >>
    BY <1>1, <1>5, ShortQueues DEF Seen
  <1>7. Resting'
    BY <1>1, <1>5, <1>6 DEF Resting, Seen
  <1>8. Held'
    BY <1>1, <1>2, <1>6 DEF Held, Alive
  <1>9. QED
    BY <1>7, <1>8 DEF RunPhase

LEMMA AnswerPhase ==
    ASSUME PageTypeOK, RunPhase, Held, fan' = fan,
           NEW n \in Call, NEW k \in Outcome, NEW from \in {"starting", "busy"},
           Answer(n, from, k),
           k = "succeeded" => fan[n].stage = "returned" /\ ~ fan[n].raised
    PROVE  RunPhase' /\ Held'
  <1>1. /\ thread[n] = from /\ UNCHANGED <<token, page, runs>>
        /\ signals' = Append(signals, Message(n, k))
        /\ thread'[n] = "answered" /\ \A m \in Call : m # n => thread'[m] = thread[m]
    BY DEF Answer, Message, PageTypeOK
  <1>2. page.worker = n /\ n = runs
    BY <1>1, PhaseCases, PageAssumption DEF Held, Alive
  <1>3. Working(n)
    BY <1>1, <1>2, PhaseCases, PageAssumption DEF Seen, Answered
  <1>4. Answered(n, k)'
    BY <1>1, <1>3 DEF Answered, Working
  <1>5. Held'
    BY <1>1, <1>2 DEF Held, Alive
  <1>6. QED
    BY <1>1, <1>2, <1>4, <1>5 DEF RunPhase

LEMMA EndPhase ==
    ASSUME PageTypeOK, RunPhase, Held, fan' = fan, NEW n \in Call, EndThread(n)
    PROVE  RunPhase' /\ Held'
  <1>1. /\ thread[n] = "answered" /\ UNCHANGED <<token, page, runs>>
        /\ signals' = Append(signals, Message(n, "finished"))
        /\ thread'[n] = "ended" /\ \A m \in Call : m # n => thread'[m] = thread[m]
    BY DEF EndThread, Message, PageTypeOK
  <1>2. page.worker = n /\ n = runs
    BY <1>1, PhaseCases, PageAssumption DEF Held, Alive
  <1>3. Held'
    BY <1>1, <1>2 DEF Held, Alive
  <1>4. CASE Seen(n)
    <2>1. Seen(n)'
      BY <1>1, <1>4 DEF Seen
    <2>2. QED
      BY <1>1, <1>2, <1>3, <2>1 DEF RunPhase
  <1>5. ASSUME NEW k \in Outcome, Answered(n, k) PROVE RunPhase'
    <2>1. signals = <<Message(n, k)>> /\ ~ page.canRun
      BY <1>1, <1>5 DEF Answered
    <2>2. signals' = <<Message(n, k), Message(n, "finished")>>
      BY <1>1, <2>1, ShortQueues
    <2>3. Answered(n, k)'
      BY <1>1, <1>5, <2>1, <2>2 DEF Answered, Message
    <2>4. QED
      BY <1>1, <1>2, <2>3 DEF RunPhase
  <1>6. ~ Working(n)
    BY <1>1 DEF Working
  <1>7. QED
    BY <1>2, <1>3, <1>4, <1>5, <1>6, PhaseCases, PageAssumption

LEMMA RunPhaseStep ==
    ASSUME ScanInv, ScanTypeOK', [ScanNext]_scanVars
    PROVE  RunPhase' /\ Held'
  <1> DEFINE Goal == RunPhase' /\ Held'
  <1>1. PageTypeOK /\ FanTypeOK /\ RunPhase /\ Held
    BY DEF ScanInv, ScanTypeOK, OneWorker, Held
  <1>2. CASE UNCHANGED scanVars
    BY <1>1, <1>2, PhaseKept DEF scanVars, pageVars, poolVars
  <1>3. CASE ClickScan
    BY <1>1, <1>3, ClickPhase DEF ClickScan
  <1>4. CASE CancelScan
    <2>1. /\ UNCHANGED <<thread, signals, runs, fan>>
          /\ page'.worker = page.worker /\ page'.canRun = page.canRun
          /\ ~ page'.canCancel
      BY <1>1, <1>4 DEF CancelScan, ClickCancel, PageTypeOK, poolVars
    <2>2. QED
      BY <1>1, <2>1, PhaseKept
  <1>5. CASE ClosePage
    <2>1. /\ UNCHANGED <<thread, signals, runs, fan>>
          /\ page'.worker = page.worker /\ page'.canRun = page.canRun
          /\ page'.canCancel = page.canCancel
      BY <1>1, <1>5 DEF ClosePage, Close, PageTypeOK, poolVars
    <2>2. QED
      BY <1>1, <2>1, PhaseKept
  <1>6. CASE PageStep
    <2>1. ASSUME NEW n \in Call, OnScanDone(n) PROVE Goal
      BY <1>1, <2>1, OutcomePhase DEF OnScanDone, Outcome, poolVars
    <2>2. ASSUME NEW n \in Call, OnScanFailed(n) PROVE Goal
      BY <1>1, <2>2, OutcomePhase DEF OnScanFailed, Outcome, poolVars
    <2>3. ASSUME NEW n \in Call, OnFinished(n) PROVE Goal
      BY <1>1, <2>3, DonePhase DEF OnFinished
    <2>4. CASE WaitReturns /\ UNCHANGED <<poolVars, result>>
      <3>1. /\ UNCHANGED <<thread, signals, runs, fan>>
            /\ page'.worker = page.worker /\ page'.canRun = page.canRun
            /\ page'.canCancel = page.canCancel
        BY <1>1, <2>4 DEF WaitReturns, PageTypeOK, poolVars
      <3>2. QED
        BY <1>1, <3>1, PhaseKept
    <2>5. QED
      BY <1>6, <2>1, <2>2, <2>3, <2>4 DEF PageStep
  <1>7. ASSUME NEW n \in Call, WorkerStep(n) PROVE Goal
    <2>1. CASE ScanRefused(n)
      BY <1>1, <2>1, AnswerPhase DEF ScanRefused, poolVars, Outcome
    <2>2. CASE ScanCancelledEarly(n)
      BY <1>1, <2>2, AnswerPhase DEF ScanCancelledEarly, poolVars, Outcome
    <2>3. CASE ScanBegins(n)
      <3>1. /\ thread[n] = "starting" /\ UNCHANGED <<signals, page, runs>>
            /\ thread'[n] = "busy" /\ \A m \in Call : m # n => thread'[m] = thread[m]
        BY <1>1, <2>3 DEF ScanBegins, PageTypeOK
      <3>2. page.worker = n /\ n = runs
        BY <1>1, <3>1, PhaseCases, PageAssumption DEF Held, Alive
      <3>3. Working(n)
        BY <1>1, <3>1, <3>2, PhaseCases, PageAssumption DEF Seen, Answered
      <3>4. Working(n)'
        BY <3>1, <3>3 DEF Working
      <3>5. Held'
        BY <1>1, <3>1, <3>2 DEF Held, Alive
      <3>6. QED
        BY <3>1, <3>2, <3>4, <3>5 DEF RunPhase
    <2>4. CASE FanningOut(n)
      <3>1. \A m \in Call : fan[m].stage = "returned" => fan'[m] = fan[m]
        BY <1>1, <2>4
           DEF FanningOut, FanStep, Collect, CollectResult, CollectCancelled,
               CollectRaised, CollectedAll, Yields, ShutdownPool, ReturnFan,
               FanTypeOK
      <3>2. QED
        BY <1>1, <2>4, <3>1, PhaseKept DEF FanningOut, workerVars
    <2>5. CASE ScanSucceeds(n)
      BY <1>1, <2>5, AnswerPhase DEF ScanSucceeds, poolVars, Outcome
    <2>6. CASE ScanRaises(n)
      BY <1>1, <2>6, AnswerPhase DEF ScanRaises, poolVars, Outcome
    <2>7. CASE ThreadEnds(n)
      BY <1>1, <2>7, EndPhase DEF ThreadEnds, poolVars
    <2>8. QED
      BY <1>7, <2>1, <2>2, <2>3, <2>4, <2>5, <2>6, <2>7 DEF WorkerStep
  <1>8. ASSUME NEW n \in Call, CheckStep(n) PROVE Goal
    <2>1. fan' = fan
      BY <1>8 DEF CheckStep, PoolStep, StartCheck, FinishCheck
    <2>2. QED
      BY <1>1, <1>8, <2>1, PhaseKept DEF CheckStep, workerVars
  <1>9. QED
    BY <1>2, <1>3, <1>4, <1>5, <1>6, <1>7, <1>8 DEF ScanNext, User

-----------------------------------------------------------------------------
(* What the page shows *)

\* A call that has returned stays as it is, but for its token.
LEMMA ReturnedStays ==
    ASSUME FanInv, [FanNext]_fanVars, NEW c \in Call, fan[c].stage = "returned"
    PROVE  /\ fan'[c] = fan[c] /\ In(c, "running")' = In(c, "running")
           /\ token[c] => token'[c]
  <1>1. FanTypeOK /\ In(c, "pending") = {} /\ In(c, "running") = {}
    BY DEF FanInv, PoolEmptied
  <1>2. CASE UNCHANGED fanVars
    BY <1>2 DEF fanVars, In
  <1>3. ASSUME NEW d \in Call, CancelFan(d)
        PROVE  fan' = fan /\ future' = future /\ (token[c] => token'[c])
    BY <1>1, <1>3 DEF CancelFan, CancelCall, FanTypeOK
  <1>4. ASSUME NEW d \in Call, BeginFan(d) \/ FanStep(d)
        PROVE  fan'[c] = fan[c] /\ future'[c] = future[c] /\ token' = token
    BY <1>1, <1>4
       DEF BeginFan, FanStep, Collect, CollectResult, CollectCancelled,
           CollectRaised, CollectedAll, Yields, ShutdownPool, ReturnFan, FanTypeOK
  <1>5. ASSUME NEW d \in Call, PoolStep(d)
        PROVE  fan' = fan /\ future'[c] = future[c] /\ token' = token
    <2>1. d # c
      BY <1>1, <1>5 DEF PoolStep, StartCheck, FinishCheck, In
    <2>2. QED
      BY <1>1, <1>5, <2>1 DEF PoolStep, StartCheck, FinishCheck, FanTypeOK
  <1>6. QED
    BY <1>2, <1>3, <1>4, <1>5 DEF FanNext, In

LEMMA ShownStep ==
    ASSUME ScanInv, ScanTypeOK', [ScanNext]_scanVars
    PROVE  ShownIsSettled'
  <1>1. ScanTypeOK /\ PageTypeOK /\ FanTypeOK /\ FanInv /\ RunPhase /\ Held
    BY DEF ScanInv, ScanTypeOK, OneWorker, Held
  <1>2. [FanNext]_fanVars
    BY <1>1, ScanStepIsFanStep
  <1>3. CASE result' = result /\ runs' = runs
    <2>1. SUFFICES ASSUME result.shown # None PROVE ShownIsSettled'
      BY <1>3 DEF ShownIsSettled
    <2>2. result.shown = runs /\ runs \in Call
      BY <1>1, <2>1 DEF ScanInv, ShownIsSettled, ScanTypeOK
    <2>3. ShownIsSettled
      BY DEF ScanInv
    <2>4. /\ fan'[runs] = fan[runs] /\ In(runs, "running")' = In(runs, "running")
          /\ token[runs] => token'[runs]
      BY <1>1, <1>2, <1>3, <2>1, <2>2, <2>3, ReturnedStays DEF ShownIsSettled, In
    <2>5. QED
      BY <1>3, <2>1, <2>2, <2>3, <2>4 DEF ShownIsSettled
  <1>4. CASE ClickScan
    BY <1>1, <1>4 DEF ClickScan, ShownIsSettled, ScanTypeOK
  <1>5. ASSUME NEW n \in Call, OnScanDone(n) PROVE ShownIsSettled'
    <2>1. fan' = fan /\ future' = future /\ token' = token /\ runs' = runs
      BY <1>5 DEF OnScanDone, OutcomeArrives, Delivered, poolVars
    <2>2. n = runs /\ Answered(n, "succeeded")
      BY <1>1, <1>5, <2>1, OutcomePhase DEF OnScanDone, Outcome
    <2>3. fan[n].stage = "returned" /\ ~ fan[n].raised
      BY <2>2 DEF Answered
    <2>4. In(n, "running") = {} /\ (fan[n].results = Item \/ token[n])
      BY <1>1, <2>3 DEF FanInv, PoolEmptied, CompleteOrStopped, CancelledByToken
    <2>5. result'.shown = n /\ result'.last = n
      BY <1>5 DEF OnScanDone
    <2>6. QED
      BY <2>1, <2>2, <2>3, <2>4, <2>5 DEF ShownIsSettled, In
  <1>6. QED
    <2>1. \/ result' = result /\ runs' = runs
          \/ ClickScan
          \/ \E n \in Call : OnScanDone(n)
      BY DEF ScanNext, scanVars, pageVars, User, CancelScan, ClickCancel, ClosePage,
             Close, PageStep, OnScanFailed, OutcomeArrives, Delivered, OnFinished,
             WorkerDone, WaitReturns, WorkerStep, ScanRefused, ScanCancelledEarly,
             Answer, ScanBegins, FanningOut, ScanSucceeds, ScanRaises, ThreadEnds,
             EndThread, CheckStep
    <2>2. QED
      BY <1>3, <1>4, <1>5, <2>1

-----------------------------------------------------------------------------
(* The theorems *)

LEMMA ScanInvInit == ScanInit => ScanInv
  <1> SUFFICES ASSUME ScanInit PROVE ScanInv
    OBVIOUS
  <1>1. FanInv
    BY FanInvInit DEF ScanInit
  <1>2. ScanTypeOK
    BY <1>1 DEF ScanInit, PageInit, TokenInit, ScanTypeOK, PageTypeOK, FanInv,
                ThreadStage
  <1>3. RunPhase /\ OneWorker /\ ShownIsSettled
    BY DEF ScanInit, PageInit, RunPhase, Resting, OneWorker, Alive, Pending,
           ShownIsSettled
  <1>4. QED
    BY <1>1, <1>2, <1>3 DEF ScanInv

LEMMA ScanInvStep == ScanInv /\ [ScanNext]_scanVars => ScanInv'
  <1> SUFFICES ASSUME ScanInv, [ScanNext]_scanVars PROVE ScanInv'
    OBVIOUS
  <1>1. ScanTypeOK'
    BY ScanTypeStep DEF ScanInv
  <1>2. FanInv'
    BY ScanStepIsFanStep, FanInvStep DEF ScanInv
  <1>3. RunPhase' /\ Held'
    BY <1>1, RunPhaseStep
  <1>4. OneWorker'
    BY <1>3, OneWorkerFollows
  <1>5. ShownIsSettled'
    BY <1>1, ShownStep
  <1>6. QED
    BY <1>1, <1>2, <1>3, <1>4, <1>5 DEF ScanInv

\* In every reachable state the page holds the one worker that runs or has
\* signals queued, the run button is enabled exactly when an outcome says so, and
\* the table shows the newest scan, ended, with every host unless it was
\* cancelled.
THEOREM NetworkScanInvariant == ScanSpec => []ScanInv
  <1>1. ScanInv /\ [ScanNext]_scanVars => ScanInv'
    BY ScanInvStep
  <1>2. QED
    BY <1>1, ScanInvInit, PTL DEF ScanSpec

\* The scans of a page are calls of FanOut, so each keeps the promise of Sweep.
THEOREM NetworkScanImplementsSweep == ScanSpec => ImplementsSweep
  <1>1. ScanInit => FanInit
    BY DEF ScanInit
  <1>2. ScanInv /\ [ScanNext]_scanVars => [FanNext]_fanVars
    BY ScanStepIsFanStep DEF ScanInv
  <1>3. ScanSpec => FanSpec
    BY <1>1, <1>2, NetworkScanInvariant, PTL DEF ScanSpec, FanSpec
  <1>4. QED
    BY <1>3, FanOutImplementsSweep, PTL

=============================================================================
