----------------------- MODULE SchedulerServiceProofs -----------------------
(***************************************************************************)
(* The scheduler never has a second loop and leaves no due job waiting,    *)
(* for any schedule, periods and number of restarts, provided that no tick *)
(* outlives the timeout of the join in stop().                             *)
(***************************************************************************)
EXTENDS SchedulerService, TLAPS

\* What the types say of a loop thread, stage by stage.
LEMMA LoopFacts ==
    ASSUME SchedulerTypeOK, NEW l \in Loop
    PROVE  /\ loop[l] \in Loops
           /\ Alive(l) <=> loop[l].stage # "dead"
           /\ loop[l].stage = "list" =>
                loop[l] \in [stage : {"list"}, age : Age]
           /\ loop[l].stage \in {"look", "submit"} =>
                loop[l] \in [stage : {"look", "submit"}, age : Age,
                             todo : Seq(Job), listed : SUBSET Job]
           /\ loop[l].stage = "sleep" =>
                loop[l] \in [stage : {"sleep"}, left : 0 .. TickPeriod]
           /\ InTick(l) => loop[l].age \in Age
  BY DEF SchedulerTypeOK, Loops, Alive, Dead, InTick

LEMMA SchedulerTypeInit == SchedulerInit => SchedulerTypeOK
  <1> SUFFICES ASSUME SchedulerInit PROVE SchedulerTypeOK
    OBVIOUS
  <1> USE SchedulerAssumption DEF SchedulerInit
  <1>1. Dead \in Loops
    BY DEF Loops, Dead
  <1>2. rem \in [Job -> Int]
    BY DEF LongAgo
  <1>3. running \in [Job -> Nat] /\ late \in [Job -> Nat] /\ queue \in Seq(Job)
    OBVIOUS
  <1>4. joining \in -1 .. JoinTimeout /\ on \in SUBSET Job
    OBVIOUS
  <1>5. QED
    BY <1>1, <1>2, <1>3, <1>4 DEF SchedulerTypeOK

\* Moving one loop to a stage the types allow keeps the types.
LEMMA GotoKeepsTypes ==
    ASSUME SchedulerTypeOK, NEW l \in Loop, NEW c \in Loops, Goto(l, c),
           UNCHANGED <<controlVars, rem, on, poolVars>>,
           late' \in [Job -> Nat]
    PROVE  SchedulerTypeOK'
  BY DEF SchedulerTypeOK, Goto, controlVars, poolVars

LEMMA TailKeepsLoop ==
    ASSUME SchedulerTypeOK, NEW l \in Loop,
           loop[l].stage \in {"look", "submit"}, loop[l].todo # <<>>
    PROVE  /\ [loop[l] EXCEPT !.todo = Tail(@)] \in Loops
           /\ [loop[l] EXCEPT !.stage = "look", !.todo = Tail(@)] \in Loops
  <1> DEFINE c == loop[l]
  <1>1. /\ c \in [stage : {"look", "submit"}, age : Age,
                  todo : Seq(Job), listed : SUBSET Job]
        /\ c.todo \in Seq(Job)
    BY LoopFacts
  <1>2. Tail(c.todo) \in Seq(Job)
    BY <1>1
  <1>3. /\ [c EXCEPT !.todo = Tail(@)] = [c EXCEPT !.todo = Tail(c.todo)]
        /\ [c EXCEPT !.stage = "look", !.todo = Tail(@)]
             = [c EXCEPT !.stage = "look", !.todo = Tail(c.todo)]
    BY <1>1
  <1>4. QED
    BY <1>1, <1>2, <1>3 DEF Loops

LEMMA LoopStepKeepsTypes ==
    ASSUME SchedulerTypeOK, DueWhenSubmitted, NEW l \in Loop, LoopStep(l)
    PROVE  SchedulerTypeOK'
  <1> USE SchedulerAssumption
  <1>0. /\ late \in [Job -> Nat] /\ on \in SUBSET Job
        /\ 0 \in Age /\ Sleep \in Loops /\ Dead \in Loops
        /\ [stage |-> "test"] \in Loops
    BY DEF SchedulerTypeOK, Loops, Sleep, Dead, Age
  <1>1. CASE Test(l)
    <2>1. [stage |-> "list", age |-> 0] \in Loops
      BY <1>0 DEF Loops
    <2>2. QED
      BY <1>0, <1>1, <2>1, GotoKeepsTypes DEF Test
  <1>2. CASE List(l)
    <2>1. [stage |-> "look", age |-> loop[l].age, todo |-> Order, listed |-> on] \in Loops
      BY <1>0, <1>2, LoopFacts DEF List, Loops
    <2>2. QED
      BY <1>0, <1>2, <2>1, GotoKeepsTypes DEF List
  <1>3. CASE ListFails(l)
    BY <1>0, <1>3, GotoKeepsTypes DEF ListFails, NobodyLate
  <1>4. CASE Look(l)
    <2>1. [loop[l] EXCEPT !.stage = "submit"] \in Loops
      BY <1>4, LoopFacts DEF Look, Loops
    <2>2. [loop[l] EXCEPT !.todo = Tail(@)] \in Loops
      BY <1>4, TailKeepsLoop DEF Look
    <2>3. QED
      BY <1>0, <1>4, <2>1, <2>2, GotoKeepsTypes DEF Look
  <1>5. CASE Submit(l)
    <2>1. /\ loop[l].age \in Nat
          /\ loop[l].todo \in Seq(Job) /\ loop[l].todo # <<>>
      BY <1>5, LoopFacts DEF Submit, Age, DueWhenSubmitted
    <2>2. NextJob(l) \in Job
      BY <2>1 DEF NextJob
    <2>3. [loop[l] EXCEPT !.stage = "look", !.todo = Tail(@)] \in Loops
      BY <1>5, <2>1, TailKeepsLoop DEF Submit
    <2>4. Interval[NextJob(l)] - loop[l].age \in Int
      BY <2>1, <2>2
    <2>5. rem' \in [Job -> Int] /\ queue' \in Seq(Job) /\ late' \in [Job -> Nat]
      BY <1>5, <2>2, <2>4 DEF Submit, SchedulerTypeOK
    <2>6. QED
      BY <1>5, <2>3, <2>5 DEF Submit, SchedulerTypeOK, Goto, controlVars
  <1>6. CASE EndTick(l)
    BY <1>0, <1>6, GotoKeepsTypes DEF EndTick
  <1>7. CASE Wake(l)
    BY <1>0, <1>7, GotoKeepsTypes DEF Wake
  <1>8. QED
    BY <1>1, <1>2, <1>3, <1>4, <1>5, <1>6, <1>7 DEF LoopStep

-----------------------------------------------------------------------------
(* One step keeps the invariant *)

\* The loop that moves is the one the scheduler owns, and no other is alive.
LEMMA OnlyLoop ==
    ASSUME SchedulerTypeOK, LoopOwned, NEW l \in Loop, loop[l].stage # "dead"
    PROVE  /\ Alive(l) /\ thread = l
           /\ \A m \in Loop : m # l => loop[m] = Dead
  BY LoopFacts DEF LoopOwned, Alive

LEMMA LoopStepKeepsInv ==
    ASSUME SchedulerInv, NEW l \in Loop, LoopStep(l)
    PROVE  LoopOwned' /\ DueWhenSubmitted' /\ JoinOutlastsTick'
  <1> USE DEF SchedulerInv
  <1>1. PICK c : Goto(l, c)
    BY DEF LoopStep, Test, List, ListFails, Look, Submit, EndTick, Wake
  <1>2. loop[l].stage # "dead"
    BY DEF LoopStep, Test, List, ListFails, Look, Submit, EndTick, Wake
  <1>3. /\ thread = l /\ UNCHANGED controlVars
        /\ \A m \in Loop : m # l => loop[m] = Dead /\ loop'[m] = Dead
        /\ loop'[l] = c
    BY <1>1, <1>2, OnlyLoop
    DEF LoopStep, Test, List, ListFails, Look, Submit, EndTick, Wake, Goto, SchedulerTypeOK
  <1>4. LoopOwned'
    BY <1>3 DEF LoopOwned, Alive, controlVars
  <1>5. \A m \in Loop : loop'[m].stage = "submit" => m = l
    BY <1>3 DEF Dead
  <1>6. CASE Look(l)
    <2>1. rem' = rem /\ loop[l].stage = "look" /\ loop[l].todo # <<>>
      BY <1>6 DEF Look
    <2>2. loop[l] \in [stage : {"look", "submit"}, age : Age,
                       todo : Seq(Job), listed : SUBSET Job]
      BY <2>1, LoopFacts
    <2>3. CASE Due(l)
      <3>1. c = [loop[l] EXCEPT !.stage = "submit"]
        BY <1>3, <1>6, <2>3 DEF Look, Goto, SchedulerTypeOK
      <3>2. /\ c.stage = "submit" /\ c.age = loop[l].age
            /\ c.todo = loop[l].todo /\ c.listed = loop[l].listed
        BY <2>2, <3>1
      <3>3. Due(l)'
        BY <1>3, <2>1, <2>3, <3>2 DEF Due, NextJob
      <3>4. QED
        BY <1>3, <1>4, <1>5, <2>1, <3>2, <3>3
        DEF DueWhenSubmitted, JoinOutlastsTick, InTick, Alive, Dead, controlVars
    <2>4. CASE ~ Due(l)
      <3>1. c = [loop[l] EXCEPT !.todo = Tail(loop[l].todo)]
        BY <1>3, <1>6, <2>2, <2>4 DEF Look, Goto, SchedulerTypeOK
      <3>2. c.stage = "look" /\ c.age = loop[l].age
        BY <2>1, <2>2, <3>1
      <3>3. QED
        BY <1>3, <1>4, <1>5, <2>1, <3>2
        DEF DueWhenSubmitted, JoinOutlastsTick, InTick, Alive, Dead, controlVars
    <2>5. QED
      BY <2>3, <2>4
  <1>7. CASE Submit(l)
    <2>1. loop[l] \in [stage : {"look", "submit"}, age : Age,
                       todo : Seq(Job), listed : SUBSET Job]
      BY <1>7, LoopFacts DEF Submit
    <2>2. c = [loop[l] EXCEPT !.stage = "look", !.todo = Tail(loop[l].todo)]
      BY <1>3, <1>7, <2>1 DEF Submit, Goto, SchedulerTypeOK
    <2>3. c.stage = "look" /\ c.age = loop[l].age /\ loop[l].stage = "submit"
      BY <1>7, <2>1, <2>2 DEF Submit
    <2>4. QED
      BY <1>3, <1>4, <1>5, <2>3
      DEF DueWhenSubmitted, JoinOutlastsTick, InTick, Alive, Dead, controlVars
  <1>8. CASE List(l)
    <2>1. /\ loop[l].stage = "list"
          /\ c = [stage |-> "look", age |-> loop[l].age, todo |-> Order, listed |-> on]
      BY <1>3, <1>8 DEF List, Goto, SchedulerTypeOK
    <2>2. QED
      BY <1>3, <1>4, <1>5, <2>1
      DEF DueWhenSubmitted, JoinOutlastsTick, InTick, Alive, Dead, controlVars
  <1>9. CASE Test(l)
    <2>1. /\ loop[l].stage = "test"
          /\ c = IF stop THEN Dead ELSE [stage |-> "list", age |-> 0]
      BY <1>3, <1>9 DEF Test, Goto, SchedulerTypeOK
    <2>2. QED
      BY <1>3, <1>4, <1>5, <2>1
      DEF DueWhenSubmitted, JoinOutlastsTick, InTick, Alive, Dead, controlVars
  <1>10. CASE ListFails(l) \/ EndTick(l) \/ Wake(l)
    <2>1. c \in {Sleep, [stage |-> "test"]}
      BY <1>3, <1>10 DEF ListFails, EndTick, Wake, Goto, SchedulerTypeOK
    <2>2. QED
      BY <1>2, <1>3, <1>4, <1>5, <2>1, OnlyLoop
      DEF DueWhenSubmitted, JoinOutlastsTick, InTick, Alive, Dead, Sleep, controlVars
  <1>11. QED
    BY <1>6, <1>7, <1>8, <1>9, <1>10 DEF LoopStep

\* The join cannot time out while the thread is alive, so dropping the thread
\* drops a dead one.
LEMMA StopReturnsWhenDead ==
    ASSUME MaxTick < JoinTimeout, SchedulerInv, StopReturns
    PROVE  \A l \in Loop : ~ Alive(l)
  <1>1. thread \in Loop /\ joining \in -1 .. JoinTimeout
    BY DEF SchedulerInv, SchedulerTypeOK, JoinOutlastsTick, StopReturns
  <1>2. ~ Alive(thread)
    BY <1>1, SchedulerAssumption DEF SchedulerInv, JoinOutlastsTick, StopReturns
  <1>3. QED
    BY <1>2 DEF SchedulerInv, LoopOwned

\* While time passes every live loop sleeps undisturbed or is in a tick that
\* has not reached its longest; its stage stays and its age grows with time.
LEMMA PassingLoop ==
    ASSUME SchedulerTypeOK, TimePasses, NEW l \in Loop
    PROVE  /\ loop'[l] \in Loops
           /\ loop'[l].stage = loop[l].stage
           /\ loop[l].stage \in {"dead", "sleep", "list", "look", "submit"}
           /\ loop[l].stage = "dead" => loop'[l] = Dead
           /\ loop[l].stage = "sleep" => ~ stop
           /\ InTick(l) => loop'[l].age = loop[l].age + 1
           /\ loop[l].stage \in {"look", "submit"} =>
                loop'[l].todo = loop[l].todo /\ loop'[l].listed = loop[l].listed
  <1>1. MayPass(l) /\ loop'[l] = Elapsed(loop[l]) /\ loop[l] \in Loops
    BY DEF TimePasses, SchedulerTypeOK
  <1>2. CASE loop[l] = Dead
    BY <1>1, <1>2 DEF Dead, Elapsed, InTick
  <1>3. CASE loop[l].stage = "sleep"
    <2>1. loop[l] \in [stage : {"sleep"}, left : 0 .. TickPeriod] /\ loop[l].left > 0 /\ ~ stop
      BY <1>1, <1>3, LoopFacts DEF MayPass, Alive, InTick, Dead
    <2>2. loop'[l] = [loop[l] EXCEPT !.left = loop[l].left - 1]
      BY <1>1, <1>3, <2>1 DEF Elapsed
    <2>3. loop[l].left - 1 \in 0 .. TickPeriod
      BY <2>1, SchedulerAssumption
    <2>4. loop'[l] \in [stage : {"sleep"}, left : 0 .. TickPeriod]
      BY <2>1, <2>2, <2>3
    <2>5. QED
      BY <1>3, <2>1, <2>4 DEF Loops, InTick
  <1>4. CASE InTick(l)
    <2>1. loop[l].age \in Age /\ loop[l].age < MaxTick
      BY <1>1, <1>4, LoopFacts DEF MayPass, Alive, InTick, Dead
    <2>2. loop'[l] = [loop[l] EXCEPT !.age = loop[l].age + 1]
      BY <1>1, <1>4, LoopFacts DEF Elapsed, InTick
    <2>3. loop[l].age + 1 \in Age
      BY <2>1, SchedulerAssumption DEF Age
    <2>4. CASE loop[l].stage = "list"
      BY <2>2, <2>3, <2>4, LoopFacts DEF Loops, InTick
    <2>5. CASE loop[l].stage \in {"look", "submit"}
      BY <2>2, <2>3, <2>5, LoopFacts DEF Loops, InTick
    <2>6. QED
      BY <1>4, <2>4, <2>5 DEF InTick
  <1>5. QED
    BY <1>1, <1>2, <1>3, <1>4 DEF MayPass, Alive

LEMMA TimePassesKeepsInv ==
    ASSUME SchedulerInv, TimePasses
    PROVE  SchedulerInv'
  <1> USE SchedulerAssumption DEF SchedulerInv
  <1>1. SchedulerTypeOK'
    <2>1. loop' \in [Loop -> Loops]
      BY PassingLoop DEF TimePasses
    <2>2. joining' \in -1 .. JoinTimeout
      BY DEF TimePasses, SchedulerTypeOK
    <2>3. rem' \in [Job -> Int] /\ late' \in [Job -> Nat]
      BY DEF TimePasses, SchedulerTypeOK
    <2>4. QED
      BY <2>1, <2>2, <2>3 DEF TimePasses, SchedulerTypeOK, poolVars
  <1>2. LoopOwned'
    BY PassingLoop, LoopFacts DEF LoopOwned, Alive, Dead, TimePasses
  <1>3. DueWhenSubmitted'
    <2> SUFFICES ASSUME NEW l \in Loop, loop'[l].stage = "submit"
                 PROVE  loop'[l].todo # <<>> /\ Due(l)'
      BY DEF DueWhenSubmitted
    <2>1. loop[l].stage = "submit"
      BY PassingLoop
    <2>2. /\ loop[l].age \in Age /\ loop[l].todo \in Seq(Job)
          /\ loop[l].todo # <<>> /\ Due(l)
          /\ loop'[l].age = loop[l].age + 1 /\ loop'[l].age \in Age
          /\ loop'[l].todo = loop[l].todo /\ loop'[l].listed = loop[l].listed
      BY <1>1, <2>1, PassingLoop, LoopFacts DEF DueWhenSubmitted, InTick, Loops
    <2>3. NextJob(l) \in Job /\ NextJob(l)' = NextJob(l)
      BY <2>2 DEF NextJob
    <2>4. rem'[NextJob(l)] + loop'[l].age <= 0
      <3>1. PICK j \in Job : j = NextJob(l)
        BY <2>3
      <3>2. /\ rem[j] \in Int /\ loop[l].age \in 0 .. MaxTick
            /\ rem[j] + loop[l].age <= 0 /\ loop'[l].age \in 0 .. MaxTick
        BY <2>2, <3>1 DEF Due, SchedulerTypeOK, Age
      <3>3. rem'[j] = IF rem[j] > - MaxTick THEN rem[j] - 1 ELSE rem[j]
        BY DEF TimePasses, LongAgo
      <3>4. rem'[j] + loop'[l].age <= 0
        BY <2>2, <3>2, <3>3
      <3>5. QED
        BY <3>1, <3>4
    <2>5. QED
      BY <2>2, <2>3, <2>4 DEF Due
  <1>4. JoinOutlastsTick'
    <2> SUFFICES ASSUME joining' # -1
                 PROVE  /\ thread # NoLoop /\ stop
                        /\ InTick(thread)' => JoinTimeout <= joining' + loop'[thread].age
                        /\ Alive(thread)' => JoinTimeout <= joining' + MaxTick
      BY DEF JoinOutlastsTick, TimePasses
    <2>1. /\ joining # -1 /\ joining' = joining - 1 /\ joining \in Nat
          /\ thread \in Loop /\ stop /\ Alive(thread)
      BY DEF TimePasses, JoinOutlastsTick, SchedulerTypeOK
    <2>2. InTick(thread) /\ loop'[thread].age = loop[thread].age + 1
      BY <2>1, PassingLoop, LoopFacts DEF InTick
    <2>3. loop[thread].age \in Age /\ loop'[thread].age \in Age
      BY <1>1, <2>1, <2>2, PassingLoop, LoopFacts DEF InTick, Loops
    <2>4. JoinTimeout <= joining' + loop'[thread].age
      BY <2>1, <2>2, <2>3 DEF JoinOutlastsTick, Age
    <2>5. QED
      BY <2>1, <2>3, <2>4 DEF Age
  <1>5. QED
    BY <1>1, <1>2, <1>3, <1>4

LEMMA SchedulerInvInit == SchedulerInit => SchedulerInv
  BY SchedulerTypeInit
  DEF SchedulerInit, SchedulerInv, LoopOwned, Alive, Dead, DueWhenSubmitted, JoinOutlastsTick

LEMMA SchedulerInvStep ==
    ASSUME MaxTick < JoinTimeout, SchedulerInv, [SchedulerNext]_schedulerVars
    PROVE  SchedulerInv'
  <1> USE SchedulerAssumption DEF SchedulerInv
  <1>1. ASSUME NEW l \in Loop, Start(l) PROVE SchedulerInv'
    <2>1. [stage |-> "test"] \in Loops
      BY DEF Loops
    <2>2. SchedulerTypeOK'
      BY <1>1, <2>1 DEF Start, SchedulerTypeOK, poolVars
    <2>3. \A m \in Loop : m # l => loop'[m] = Dead
      BY <1>1 DEF Start, LoopOwned, Alive, SchedulerTypeOK
    <2>4. loop'[l] = [stage |-> "test"] /\ thread' = l /\ joining' = -1
      BY <1>1 DEF Start, SchedulerTypeOK
    <2>5. QED
      BY <2>2, <2>3, <2>4
      DEF LoopOwned, DueWhenSubmitted, JoinOutlastsTick, Alive, Dead
  <1>2. ASSUME NEW l \in Loop, LoopStep(l) PROVE SchedulerInv'
    BY <1>2, LoopStepKeepsTypes, LoopStepKeepsInv
  <1>3. CASE Stop
    <2>1. SchedulerTypeOK'
      BY <1>3 DEF Stop, NobodyLate, SchedulerTypeOK, poolVars
    <2>2. LoopOwned' /\ DueWhenSubmitted'
      BY <1>3 DEF Stop, LoopOwned, DueWhenSubmitted, Alive, Due, NextJob
    <2>3. ASSUME thread # NoLoop
          PROVE  InTick(thread) => loop[thread].age \in Nat
      BY <2>3, LoopFacts DEF SchedulerTypeOK, Age
    <2>4. JoinOutlastsTick'
      BY <1>3, <2>3 DEF Stop, JoinOutlastsTick, InTick, Alive
    <2>5. QED
      BY <2>1, <2>2, <2>4
  <1>4. CASE StopReturns
    <2>1. \A l \in Loop : loop'[l] = Dead
      BY <1>4, StopReturnsWhenDead DEF StopReturns, Alive
    <2>2. SchedulerTypeOK'
      BY <1>4 DEF StopReturns, SchedulerTypeOK, poolVars
    <2>3. QED
      BY <1>4, <2>1, <2>2
      DEF StopReturns, LoopOwned, DueWhenSubmitted, JoinOutlastsTick, Alive, Dead
  <1>5. ASSUME UNCHANGED <<controlVars, loop, rem>>, SchedulerTypeOK'
        PROVE  SchedulerInv'
    BY <1>5
    DEF controlVars, LoopOwned, DueWhenSubmitted, JoinOutlastsTick, Alive, InTick, Due, NextJob
  <1>6. CASE BeginJob
    <2>1. Head(queue) \in Job /\ Tail(queue) \in Seq(Job)
      BY <1>6 DEF BeginJob, SchedulerTypeOK
    <2>2. SchedulerTypeOK'
      BY <1>6, <2>1 DEF BeginJob, SchedulerTypeOK, controlVars
    <2>3. QED
      BY <1>5, <1>6, <2>2 DEF BeginJob
  <1>7. ASSUME NEW j \in Job, EndJob(j) PROVE SchedulerInv'
    <2>1. SchedulerTypeOK'
      BY <1>7 DEF EndJob, SchedulerTypeOK, controlVars
    <2>2. QED
      BY <1>5, <1>7, <2>1 DEF EndJob
  <1>8. ASSUME NEW j \in Listed, Toggle(j) PROVE SchedulerInv'
    <2>1. SchedulerTypeOK'
      BY <1>8 DEF Toggle, SchedulerTypeOK, controlVars, poolVars
    <2>2. QED
      BY <1>5, <1>8, <2>1 DEF Toggle
  <1>9. CASE TimePasses
    BY <1>9, TimePassesKeepsInv
  <1>10. CASE UNCHANGED schedulerVars
    <2>1. SchedulerTypeOK'
      BY <1>10 DEF schedulerVars, SchedulerTypeOK
    <2>2. QED
      BY <1>5, <1>10, <2>1 DEF schedulerVars, controlVars
  <1>11. QED
    BY <1>1, <1>2, <1>3, <1>4, <1>6, <1>7, <1>8, <1>9, <1>10 DEF SchedulerNext

\* If no tick outlives the join's timeout (a tick reads two tables, the
\* timeout is ten seconds), start() and stop() in any order leave at most one
\* loop thread, the one the service holds, and every submission rests on a
\* due time no other loop has moved meanwhile.
THEOREM SchedulerInvariant ==
    ASSUME MaxTick < JoinTimeout
    PROVE  SchedulerSpec => []SchedulerInv
  <1>1. SchedulerInv /\ [SchedulerNext]_schedulerVars => SchedulerInv'
    BY SchedulerInvStep
  <1>2. QED
    BY <1>1, SchedulerInvInit, PTL DEF SchedulerSpec

-----------------------------------------------------------------------------
(* No due job is left waiting *)

\* How long a job that is due and served has waited at most, by what the loop is
\* doing: a tick has passed it over only if it was not due by the tick's clock, or
\* not listed by then.
WaitBounded(j) ==
    LET c == loop[thread] IN
    /\ Alive(thread)
    /\ c.stage = "sleep" => late[j] <= MaxTick + TickPeriod - c.left
    /\ c.stage = "test" => late[j] <= MaxTick + TickPeriod
    /\ InTick(thread) => late[j] <= MaxTick + TickPeriod + c.age
    /\ c.stage \in {"look", "submit"} /\ (j \notin ToSet(c.todo) \/ j \notin c.listed) =>
         late[j] <= c.age

Looping == thread # NoLoop /\ ~ stop

\* A job that has waited is served, and its due time lies as far back.
OnTime ==
    \A j \in Job :
        /\ late[j] # 0 => /\ Served(j)
                          /\ rem[j] <= - late[j] \/ rem[j] <= LongAgo
        /\ Looping => WaitBounded(j)

LEMMA HeadAndTail ==
    ASSUME NEW s \in Seq(Job), s # <<>>
    PROVE  ToSet(s) \subseteq {Head(s)} \union ToSet(Tail(s))
  <1>1. /\ Len(s) \in Nat /\ DOMAIN s = 1 .. Len(s) /\ Head(s) = s[1]
        /\ DOMAIN Tail(s) = 1 .. Len(s) - 1
        /\ \A i \in 1 .. Len(s) - 1 : Tail(s)[i] = s[i + 1]
    OBVIOUS
  <1>2. ASSUME NEW i \in DOMAIN s, i # 1 PROVE s[i] \in ToSet(Tail(s))
    <2>1. i - 1 \in DOMAIN Tail(s) /\ Tail(s)[i - 1] = s[i]
      BY <1>1, <1>2
    <2>2. QED
      BY <2>1 DEF ToSet
  <1>3. QED
    BY <1>1, <1>2 DEF ToSet

\* A step that lets no time pass, resets or keeps late, and leaves the bound to show.
LEMMA WaitingKept ==
    ASSUME SchedulerTypeOK, OnTime,
           \A j \in Job : late'[j] = 0 \/ (late'[j] = late[j] /\ rem'[j] = rem[j]),
           \A j \in Job : late'[j] # 0 /\ Served(j) => Served(j)',
           Looping' => \A j \in Job : WaitBounded(j)'
    PROVE  OnTime'
  BY DEF OnTime, LongAgo

LEMMA LoopStepKeepsOnTime ==
    ASSUME SchedulerInv, OnTime, NEW l \in Loop, LoopStep(l)
    PROVE  OnTime'
  <1> USE SchedulerAssumption DEF SchedulerInv
  <1>1. PICK c : Goto(l, c)
    BY DEF LoopStep, Test, List, ListFails, Look, Submit, EndTick, Wake
  <1>2. loop[l].stage # "dead"
    BY DEF LoopStep, Test, List, ListFails, Look, Submit, EndTick, Wake
  <1>3. /\ thread = l /\ UNCHANGED <<controlVars, on>> /\ loop'[l] = c /\ loop[l] \in Loops
    BY <1>1, <1>2, OnlyLoop
    DEF LoopStep, Test, List, ListFails, Look, Submit, EndTick, Wake, Goto, SchedulerTypeOK
  <1>4. /\ Looping' = Looping /\ \A j \in Job : Served(j)' = Served(j)
        /\ late \in [Job -> Nat] /\ rem \in [Job -> Int]
    BY <1>3 DEF Served, Looping, controlVars, SchedulerTypeOK
  <1>5. Looping => \A j \in Job : WaitBounded(j)
    BY DEF OnTime
  <1>6. CASE Look(l)
    <2>1. /\ rem' = rem /\ late' = late /\ loop[l].stage = "look" /\ loop[l].todo # <<>>
      BY <1>6 DEF Look
    <2>2. loop[l] \in [stage : {"look", "submit"}, age : Age,
                       todo : Seq(Job), listed : SUBSET Job]
      BY <2>1, LoopFacts
    <2>3. CASE Due(l)
      <3>1. c = [loop[l] EXCEPT !.stage = "submit"]
        BY <1>3, <1>6, <2>3 DEF Look, Goto, SchedulerTypeOK
      <3>2. /\ c.stage = "submit" /\ c.age = loop[l].age
            /\ c.todo = loop[l].todo /\ c.listed = loop[l].listed
        BY <2>2, <3>1
      <3>3. ASSUME NEW j \in Job, Looping PROVE WaitBounded(j)'
        BY <1>3, <1>5, <2>1, <3>2, <3>3 DEF WaitBounded, InTick, Alive, Dead, controlVars
      <3>4. QED
        BY <1>4, <2>1, <3>3, WaitingKept
    <2>4. CASE ~ Due(l)
      <3>1. c = [loop[l] EXCEPT !.todo = Tail(loop[l].todo)]
        BY <1>3, <1>6, <2>2, <2>4 DEF Look, Goto, SchedulerTypeOK
      <3>2. /\ c.stage = "look" /\ c.age = loop[l].age /\ c.age \in 0 .. MaxTick
            /\ c.todo = Tail(loop[l].todo) /\ c.listed = loop[l].listed
        BY <2>1, <2>2, <3>1 DEF Age
      <3>3. ASSUME NEW j \in Job, Looping PROVE WaitBounded(j)'
        <4>1. WaitBounded(j) /\ late[j] \in Nat /\ rem[j] \in Int
          BY <1>4, <1>5, <3>3
        <4>2. ASSUME j \notin ToSet(c.todo) \/ j \notin c.listed PROVE late[j] <= c.age
          <5>1. CASE j \notin ToSet(loop[l].todo) \/ j \notin loop[l].listed
            BY <1>3, <2>1, <3>2, <4>1, <5>1 DEF WaitBounded
          <5>2. CASE j \in ToSet(loop[l].todo) /\ j \in loop[l].listed
            <6>1. j = Head(loop[l].todo)
              BY <2>1, <2>2, <3>2, <4>2, <5>2, HeadAndTail
            <6>2. rem[j] + loop[l].age > 0
              BY <2>2, <2>4, <4>1, <5>2, <6>1 DEF Due, NextJob, Age
            <6>3. late[j] = 0 \/ rem[j] <= - late[j] \/ rem[j] <= - MaxTick
              BY DEF OnTime, LongAgo
            <6>4. QED
              BY <3>2, <4>1, <6>2, <6>3
          <5>3. QED
            BY <5>1, <5>2
        <4>3. late[j] <= MaxTick + TickPeriod + c.age
          BY <1>3, <2>1, <3>2, <4>1 DEF WaitBounded, InTick
        <4>4. QED
          BY <1>3, <2>1, <3>2, <4>2, <4>3 DEF WaitBounded, InTick, Alive, Dead, controlVars
      <3>4. QED
        BY <1>4, <2>1, <3>3, WaitingKept
    <2>5. QED
      BY <2>3, <2>4
  <1>7. CASE Submit(l)
    <2>1. /\ loop[l].stage = "submit" /\ loop[l].todo # <<>>
          /\ loop[l] \in [stage : {"look", "submit"}, age : Age,
                          todo : Seq(Job), listed : SUBSET Job]
      BY <1>7, LoopFacts DEF Submit, DueWhenSubmitted
    <2>2. c = [loop[l] EXCEPT !.stage = "look", !.todo = Tail(loop[l].todo)]
      BY <1>3, <1>7, <2>1 DEF Submit, Goto, SchedulerTypeOK
    <2>3. /\ c.stage = "look" /\ c.age = loop[l].age /\ c.age \in 0 .. MaxTick
          /\ c.todo = Tail(loop[l].todo) /\ c.listed = loop[l].listed
      BY <2>1, <2>2 DEF Age
    <2>4. PICK k \in Job : k = Head(loop[l].todo)
      BY <2>1
    <2>5. /\ late'[k] = 0
          /\ \A j \in Job : j # k => late'[j] = late[j] /\ rem'[j] = rem[j]
      BY <1>4, <1>7, <2>4 DEF Submit, NextJob
    <2>6. ASSUME NEW j \in Job, Looping PROVE WaitBounded(j)'
      <3>1. WaitBounded(j) /\ late[j] \in Nat
        BY <1>4, <1>5, <2>6
      <3>2. late[j] <= MaxTick + TickPeriod + c.age
        BY <1>3, <2>1, <2>3, <3>1 DEF WaitBounded, InTick
      <3>3. CASE j = k
        BY <1>3, <2>3, <2>5, <3>3 DEF WaitBounded, InTick, Alive, Dead, controlVars
      <3>4. CASE j # k
        <4>1. j \notin ToSet(c.todo) => j \notin ToSet(loop[l].todo)
          BY <2>1, <2>3, <2>4, <3>4, HeadAndTail
        <4>2. j \notin ToSet(c.todo) \/ j \notin c.listed => late[j] <= c.age
          BY <1>3, <2>1, <2>3, <3>1, <4>1 DEF WaitBounded
        <4>3. QED
          BY <1>3, <2>3, <2>5, <3>2, <3>4, <4>2
          DEF WaitBounded, InTick, Alive, Dead, controlVars
      <3>5. QED
        BY <3>3, <3>4
    <2>7. QED
      BY <1>4, <2>5, <2>6, WaitingKept
  <1>8. CASE List(l)
    <2>1. /\ loop[l].stage = "list" /\ rem' = rem /\ late' = late
          /\ c = [stage |-> "look", age |-> loop[l].age, todo |-> Order, listed |-> on]
      BY <1>3, <1>8 DEF List, Goto, SchedulerTypeOK
    <2>2. ASSUME NEW j \in Job, Looping PROVE WaitBounded(j)'
      <3>1. j \in ToSet(c.todo)
        BY <2>1 DEF Job
      <3>2. late[j] <= MaxTick + TickPeriod + c.age
        BY <1>3, <1>5, <2>1, <2>2 DEF WaitBounded, InTick
      <3>3. j \notin c.listed => late[j] <= c.age
        BY <2>1, LoopFacts DEF OnTime, Served, InTick, Age
      <3>4. QED
        BY <1>3, <2>1, <3>1, <3>2, <3>3 DEF WaitBounded, InTick, Alive, Dead, controlVars
    <2>3. QED
      BY <1>4, <2>1, <2>2, WaitingKept
  <1>9. CASE Test(l)
    <2>1. /\ loop[l].stage = "test" /\ rem' = rem /\ late' = late
          /\ c = IF stop THEN Dead ELSE [stage |-> "list", age |-> 0]
      BY <1>3, <1>9 DEF Test, Goto, SchedulerTypeOK
    <2>2. ASSUME NEW j \in Job, Looping PROVE WaitBounded(j)'
      <3>1. c = [stage |-> "list", age |-> 0] /\ late[j] \in Nat
        BY <1>4, <2>1, <2>2 DEF Looping
      <3>2. late[j] <= MaxTick + TickPeriod
        BY <1>3, <1>5, <2>1, <2>2 DEF WaitBounded
      <3>3. QED
        BY <1>3, <2>1, <3>1, <3>2 DEF WaitBounded, InTick, Alive, Dead, controlVars
    <2>3. QED
      BY <1>4, <2>1, <2>2, WaitingKept
  <1>10. CASE ListFails(l)
    <2>1. c = Sleep /\ \A j \in Job : late'[j] = 0
      BY <1>3, <1>10 DEF ListFails, NobodyLate, Goto, SchedulerTypeOK
    <2>2. ASSUME NEW j \in Job PROVE WaitBounded(j)'
      BY <1>3, <2>1 DEF WaitBounded, InTick, Alive, Dead, Sleep, controlVars
    <2>3. QED
      BY <1>4, <2>1, <2>2, WaitingKept
  <1>11. CASE EndTick(l)
    <2>1. /\ loop[l].stage = "look" /\ loop[l].todo = <<>> /\ rem' = rem /\ late' = late
          /\ c = Sleep
      BY <1>3, <1>11 DEF EndTick, Goto, SchedulerTypeOK
    <2>2. loop[l].age \in 0 .. MaxTick
      BY <2>1, LoopFacts DEF InTick, Age
    <2>3. ASSUME NEW j \in Job, Looping PROVE WaitBounded(j)'
      <3>1. late[j] <= loop[l].age /\ late[j] \in Nat
        BY <1>3, <1>4, <1>5, <2>1, <2>3 DEF WaitBounded, ToSet
      <3>2. late[j] <= MaxTick
        BY <2>2, <3>1
      <3>3. QED
        BY <1>3, <2>1, <3>1, <3>2 DEF WaitBounded, InTick, Alive, Dead, Sleep, controlVars
    <2>4. QED
      BY <1>4, <2>1, <2>3, WaitingKept
  <1>12. CASE Wake(l)
    <2>1. /\ loop[l].stage = "sleep" /\ (stop \/ loop[l].left = 0)
          /\ rem' = rem /\ late' = late /\ c = [stage |-> "test"]
      BY <1>3, <1>12 DEF Wake, Goto, SchedulerTypeOK
    <2>2. ASSUME NEW j \in Job, Looping PROVE WaitBounded(j)'
      <3>1. loop[l].left = 0
        BY <2>1, <2>2 DEF Looping
      <3>2. late[j] <= MaxTick + TickPeriod
        BY <1>3, <1>5, <2>1, <2>2, <3>1 DEF WaitBounded
      <3>3. QED
        BY <1>3, <2>1, <3>2 DEF WaitBounded, InTick, Alive, Dead, controlVars
    <2>3. QED
      BY <1>4, <2>1, <2>2, WaitingKept
  <1>13. QED
    BY <1>6, <1>7, <1>8, <1>9, <1>10, <1>11, <1>12 DEF LoopStep

LEMMA TimePassesKeepsOnTime ==
    ASSUME SchedulerInv, OnTime, TimePasses
    PROVE  OnTime'
  <1> USE SchedulerAssumption DEF SchedulerInv
  <1>1. /\ late \in [Job -> Nat] /\ rem \in [Job -> Int] /\ late' \in [Job -> Nat]
        /\ UNCHANGED <<thread, stop, on>>
    BY TimePassesKeepsInv DEF SchedulerTypeOK, TimePasses
  <1>2. Looping' = Looping /\ \A j \in Job : Served(j)' = Served(j)
    BY <1>1 DEF Served, Looping
  <1>3. ASSUME NEW j \in Job, late'[j] # 0
        PROVE  Served(j) /\ (rem'[j] <= - late'[j] \/ rem'[j] <= - MaxTick)
    <2>1. /\ rem'[j] = IF rem[j] > - MaxTick THEN rem[j] - 1 ELSE rem[j]
          /\ late'[j] = IF Served(j) /\ rem[j] <= 0 /\ late[j] <= Patience
                        THEN late[j] + 1 ELSE late[j]
      BY DEF TimePasses, LongAgo
    <2>2. late[j] # 0 => Served(j) /\ (rem[j] <= - late[j] \/ rem[j] <= - MaxTick)
      BY DEF OnTime, LongAgo
    <2>3. late[j] \in Nat /\ rem[j] \in Int /\ MaxTick \in Nat
      BY <1>1
    <2>4. Served(j)
      BY <1>3, <2>1, <2>2
    <2>5. QED
      BY <1>3, <2>1, <2>2, <2>3, <2>4
  <1>4. ASSUME NEW j \in Job, Looping PROVE WaitBounded(j)'
    <2>1. thread \in Loop /\ ~ stop /\ WaitBounded(j) /\ Alive(thread)
      BY <1>4 DEF OnTime, WaitBounded, Looping, SchedulerTypeOK
    <2>2. late'[j] <= late[j] + 1 /\ late[j] \in Nat /\ late'[j] \in Nat
      BY <1>1 DEF TimePasses
    <2>3. loop[thread].stage \in {"sleep", "list", "look", "submit"}
      BY <2>1, PassingLoop, LoopFacts
    <2>4. CASE loop[thread].stage = "sleep"
      <3>1. /\ loop[thread].left \in 0 .. TickPeriod /\ loop[thread].left > 0
        BY <2>1, <2>4, LoopFacts DEF TimePasses, MayPass, InTick
      <3>2. loop'[thread] = [loop[thread] EXCEPT !.left = loop[thread].left - 1]
        BY <2>1, <2>4 DEF TimePasses, Elapsed
      <3>3. loop'[thread].stage = "sleep" /\ loop'[thread].left = loop[thread].left - 1
        BY <2>1, <2>4, <3>2, LoopFacts
      <3>4. late[j] <= MaxTick + TickPeriod - loop[thread].left
        BY <2>1, <2>4 DEF WaitBounded
      <3>5. late'[j] <= MaxTick + TickPeriod - loop'[thread].left
        BY <2>2, <3>1, <3>3, <3>4
      <3>6. QED
        BY <1>1, <3>3, <3>5 DEF WaitBounded, InTick, Alive, Dead
    <2>5. CASE InTick(thread)
      <3>1. /\ loop[thread].age \in Nat /\ loop'[thread].age = loop[thread].age + 1
            /\ loop'[thread].stage = loop[thread].stage
            /\ loop[thread].stage \in {"look", "submit"} =>
                 loop'[thread].todo = loop[thread].todo
                 /\ loop'[thread].listed = loop[thread].listed
        BY <2>1, <2>5, PassingLoop, LoopFacts DEF Age
      <3>2. late'[j] <= MaxTick + TickPeriod + loop'[thread].age
        BY <2>1, <2>2, <2>5, <3>1 DEF WaitBounded
      <3>3. loop[thread].stage \in {"look", "submit"}
              /\ (j \notin ToSet(loop'[thread].todo) \/ j \notin loop'[thread].listed)
              => late'[j] <= loop'[thread].age
        BY <2>1, <2>2, <3>1 DEF WaitBounded
      <3>4. QED
        BY <1>1, <2>5, <3>1, <3>2, <3>3 DEF WaitBounded, InTick, Alive, Dead
    <2>6. QED
      BY <2>3, <2>4, <2>5 DEF InTick
  <1>5. QED
    BY <1>2, <1>3, <1>4 DEF OnTime, LongAgo

LEMMA OnTimeStep ==
    ASSUME MaxTick < JoinTimeout, SchedulerInv, OnTime, [SchedulerNext]_schedulerVars
    PROVE  OnTime'
  <1> USE SchedulerAssumption DEF SchedulerInv
  <1>0. late \in [Job -> Nat] /\ rem \in [Job -> Int] /\ on \subseteq Job
    BY DEF SchedulerTypeOK
  <1>1. ASSUME NEW l \in Loop, Start(l) PROVE OnTime'
    <2>1. /\ thread = NoLoop /\ thread' = l /\ ~ stop' /\ UNCHANGED <<rem, late, on>>
          /\ loop'[l] = [stage |-> "test"]
      BY <1>1 DEF Start, SchedulerTypeOK
    <2>2. \A j \in Job : late[j] = 0
      BY <2>1 DEF OnTime, Served
    <2>3. ASSUME NEW j \in Job PROVE WaitBounded(j)'
      BY <2>1, <2>2 DEF WaitBounded, InTick, Alive, Dead
    <2>4. QED
      BY <2>1, <2>2, <2>3, WaitingKept
  <1>2. ASSUME NEW l \in Loop, LoopStep(l) PROVE OnTime'
    BY <1>2, LoopStepKeepsOnTime
  <1>3. CASE Stop
    <2>1. ~ Looping' /\ \A j \in Job : late'[j] = 0
      BY <1>3 DEF Stop, NobodyLate, Looping
    <2>2. QED
      BY <2>1, WaitingKept
  <1>4. CASE StopReturns
    <2>1. stop /\ thread' = NoLoop /\ UNCHANGED <<rem, late>>
      BY <1>4 DEF StopReturns, JoinOutlastsTick
    <2>2. ~ Looping' /\ \A j \in Job : late'[j] = 0
      BY <2>1 DEF OnTime, Served, Looping
    <2>3. QED
      BY <2>2, WaitingKept
  <1>5. ASSUME UNCHANGED <<thread, stop, loop, rem, on, late>> PROVE OnTime'
    BY <1>5 DEF OnTime, WaitBounded, Served, Looping, InTick, Alive
  <1>6. CASE BeginJob \/ (\E j \in Job : EndJob(j)) \/ UNCHANGED schedulerVars
    BY <1>5, <1>6 DEF BeginJob, EndJob, schedulerVars, controlVars
  <1>7. ASSUME NEW k \in Listed, Toggle(k) PROVE OnTime'
    <2>1. /\ k \in Job /\ late'[k] = 0 /\ UNCHANGED <<thread, stop, loop, rem>>
          /\ \A j \in Job : j # k => late'[j] = late[j] /\ (j \in on' <=> j \in on)
      BY <1>0, <1>7 DEF Toggle, controlVars
    <2>2. ASSUME Looping', NEW j \in Job PROVE WaitBounded(j)'
      <3>1. thread \in Loop /\ WaitBounded(j)
        BY <2>1, <2>2 DEF OnTime, Looping, SchedulerTypeOK
      <3>2. late'[j] \in Nat /\ late[j] \in Nat /\ late'[j] <= late[j]
        BY <1>0, <2>1
      <3>3. /\ InTick(thread) => loop[thread].age \in Nat
            /\ loop[thread].stage \in {"look", "submit"} => InTick(thread)
            /\ loop[thread].stage = "sleep" => loop[thread].left \in Nat
        BY <3>1, LoopFacts DEF InTick, Age
      <3>4. QED
        BY <2>1, <3>1, <3>2, <3>3 DEF WaitBounded, InTick, Alive
    <2>3. QED
      BY <2>1, <2>2, WaitingKept DEF Served
  <1>8. CASE TimePasses
    BY <1>8, TimePassesKeepsOnTime
  <1>9. QED
    BY <1>1, <1>2, <1>3, <1>4, <1>6, <1>7, <1>8 DEF SchedulerNext

LEMMA OnTimeInit == SchedulerInit => OnTime
  BY DEF SchedulerInit, OnTime, Looping

LEMMA OnTimeIsPrompt == SchedulerInv /\ OnTime => PromptlySubmitted
  <1> SUFFICES ASSUME SchedulerInv, OnTime, NEW j \in Job
               PROVE  late[j] <= Patience
    BY DEF PromptlySubmitted
  <1> USE SchedulerAssumption DEF SchedulerInv
  <1>1. late[j] \in Nat /\ Patience = TickPeriod + 2 * MaxTick
    BY DEF SchedulerTypeOK, Patience
  <1>2. CASE late[j] = 0
    BY <1>1, <1>2
  <1>3. CASE late[j] # 0
    <2>1. thread \in Loop /\ WaitBounded(j)
      BY <1>3 DEF OnTime, Served, Looping, SchedulerTypeOK
    <2>2. /\ loop[thread].stage \in {"sleep", "test", "list", "look", "submit"}
          /\ loop[thread].stage = "sleep" => loop[thread].left \in Nat
          /\ InTick(thread) => loop[thread].age \in 0 .. MaxTick
      BY <2>1, LoopFacts DEF WaitBounded, Loops, Age
    <2>3. CASE InTick(thread)
      BY <1>1, <2>1, <2>2, <2>3 DEF WaitBounded
    <2>4. CASE ~ InTick(thread)
      BY <1>1, <2>1, <2>2, <2>4 DEF WaitBounded, InTick
    <2>5. QED
      BY <2>3, <2>4
  <1>4. QED
    BY <1>2, <1>3

\* A job that is due, enabled and can be listed is submitted within the rest of the
\* tick that just missed it, the sleep and the next tick, whatever other jobs, a
\* full pool, toggles and restarts do meanwhile: tick_once visits every job and
\* passes over none that is due by the clock it read.
THEOREM SchedulerSubmitsPromptly ==
    ASSUME MaxTick < JoinTimeout
    PROVE  SchedulerSpec => []PromptlySubmitted
  <1>1. /\ SchedulerInv /\ [SchedulerNext]_schedulerVars => SchedulerInv'
        /\ SchedulerInv /\ OnTime /\ [SchedulerNext]_schedulerVars => OnTime'
    BY SchedulerInvStep, OnTimeStep
  <1>2. QED
    BY <1>1, SchedulerInvInit, OnTimeInit, OnTimeIsPrompt, PTL DEF SchedulerSpec

=============================================================================
