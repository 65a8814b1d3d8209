-------------------------- MODULE SchedulerService --------------------------
(***************************************************************************)
(* The interval scheduler: start and stop, the loop thread that looks for  *)
(* due jobs once per tick, and the pool that runs them.                    *)
(*                                                                         *)
(* Time is discrete and relative: rem counts down to each due time, and a  *)
(* tick remembers how long ago it read the clock (its age), because it     *)
(* compares and sets due times with that reading however long the tick     *)
(* takes.  A step the program takes at once (a timer that fired, a set     *)
(* event) happens before time passes.                                      *)
(***************************************************************************)
EXTENDS Integers, Sequences, SequencesExt

CONSTANTS
    Loop,         \* identities for loop threads
    NoLoop,       \* self._thread is None
    Order,        \* the jobs in the order a tick visits them
    Listed,       \* the jobs that come and go: devices and backup profiles
    Interval,     \* Interval[j]
    TickPeriod,   \* _TICK_SECONDS
    JoinTimeout,  \* how long stop() waits for the loop thread
    MaxTick,      \* the longest a tick takes
    PoolSize,     \* pool threads
    MaxQueue      \* bound: time stands still while more jobs are waiting

\* A job is known by what its due time is kept under: a device id, a profile
\* name, or the snapshot's and the retention's own variables.
Job == ToSet(Order)

ASSUME SchedulerAssumption ==
    /\ Order \in Seq(Job)
    /\ Listed \subseteq Job
    /\ Interval \in [Job -> Nat \ {0}]
    /\ TickPeriod \in Nat /\ JoinTimeout \in Nat /\ MaxTick \in Nat
    /\ PoolSize \in Nat /\ MaxQueue \in Nat
    /\ NoLoop \notin Loop

VARIABLES
    thread,   \* self._thread
    stop,     \* self._stop, the event
    joining,  \* time left to the stop() that is waiting for the thread, or -1
    loop,     \* loop[l]: what loop thread l is doing
    rem,      \* rem[j]: time left until job j is due
    on,       \* the enabled jobs of the database and the settings
    queue,    \* jobs submitted to the pool, oldest first
    running,  \* running[j]: how many pool threads run job j
    late      \* late[j]: how long job j has been due and served (history)

controlVars == <<thread, stop, joining>>
poolVars == <<queue, running>>
schedulerVars == <<thread, stop, joining, loop, rem, on, queue, running, late>>

\* The longest a due job waits: the tick that just missed it, the sleep, and
\* the tick that submits it.
Patience == TickPeriod + 2 * MaxTick

Age == 0 .. MaxTick
Loops ==
    [stage : {"dead", "test"}]
      \union [stage : {"sleep"}, left : 0 .. TickPeriod]
      \union [stage : {"list"}, age : Age]
      \union [stage : {"look", "submit"}, age : Age, todo : Seq(Job), listed : SUBSET Job]

SchedulerTypeOK ==
    /\ thread \in Loop \union {NoLoop}
    /\ stop \in BOOLEAN
    /\ joining \in -1 .. JoinTimeout
    /\ loop \in [Loop -> Loops]
    /\ rem \in [Job -> Int]
    /\ on \in SUBSET Job
    /\ queue \in Seq(Job)
    /\ running \in [Job -> Nat]
    /\ late \in [Job -> Nat]

Dead == [stage |-> "dead"]
Alive(l) == loop[l] # Dead
InTick(l) == loop[l].stage \in {"list", "look", "submit"}
NextJob(l) == Head(loop[l].todo)

\* A due time this far back has passed for every tick, however old its clock:
\* so have the 0.0 the due times start from.
LongAgo == - MaxTick

SchedulerInit ==
    /\ thread = NoLoop /\ stop = FALSE /\ joining = -1
    /\ loop = [l \in Loop |-> Dead]
    /\ rem = [j \in Job |-> LongAgo]
    /\ on = Job
    /\ queue = <<>>
    /\ running = [j \in Job |-> 0]
    /\ late = [j \in Job |-> 0]

-----------------------------------------------------------------------------
(* start and stop *)

Served(j) == j \in on /\ thread # NoLoop /\ ~ stop
NobodyLate == late' = [j \in Job |-> 0]

\* start() does nothing while there is a thread.
Start(l) ==
    /\ joining = -1
    /\ thread = NoLoop
    /\ loop[l] = Dead
    /\ stop' = FALSE
    /\ thread' = l
    /\ loop' = [loop EXCEPT ![l] = [stage |-> "test"]]
    /\ UNCHANGED <<joining, rem, on, poolVars, late>>

Stop ==
    /\ joining = -1
    /\ stop' = TRUE
    /\ joining' = IF thread # NoLoop THEN JoinTimeout ELSE -1
    /\ NobodyLate
    /\ UNCHANGED <<thread, loop, rem, on, poolVars>>

\* Bug: stop() forgets the thread without waiting for it.
StopWithoutJoin ==
    /\ joining # -1
    /\ thread' = NoLoop
    /\ joining' = -1
    /\ UNCHANGED <<stop, loop, rem, on, poolVars, late>>

\* join() returns when the thread is dead or the time is up; stop() drops the
\* thread in both cases.
StopReturns ==
    /\ joining # -1
    /\ ~ Alive(thread) \/ joining = 0
    /\ thread' = NoLoop
    /\ joining' = -1
    /\ UNCHANGED <<stop, loop, rem, on, poolVars, late>>

-----------------------------------------------------------------------------
(* _loop and tick_once *)

Goto(l, where) == loop' = [loop EXCEPT ![l] = where]

\* Bug: the loop never looks at the event.
TestIgnoresStop(l) ==
    /\ loop[l].stage = "test"
    /\ Goto(l, [stage |-> "list", age |-> 0])
    /\ UNCHANGED <<controlVars, rem, on, poolVars, late>>

\* The while condition; a tick begins by reading the clock.
Test(l) ==
    /\ loop[l].stage = "test"
    /\ Goto(l, IF stop THEN Dead ELSE [stage |-> "list", age |-> 0])
    /\ UNCHANGED <<controlVars, rem, on, poolVars, late>>

\* settings_getter and list_devices: the tick works on what they returned.
List(l) ==
    /\ loop[l].stage = "list"
    /\ Goto(l, [stage |-> "look", age |-> loop[l].age,
                todo |-> Order, listed |-> on])
    /\ UNCHANGED <<controlVars, rem, on, poolVars, late>>

Sleep == [stage |-> "sleep", left |-> TickPeriod]

\* Bug: the exception ends the loop thread.
ListFailsForGood(l) ==
    /\ loop[l].stage = "list"
    /\ Goto(l, Dead)
    /\ NobodyLate
    /\ UNCHANGED <<controlVars, rem, on, poolVars>>

\* One of them raises: the whole tick is given up, logged and slept over.
ListFails(l) ==
    /\ loop[l].stage = "list"
    /\ Goto(l, Sleep)
    /\ NobodyLate
    /\ UNCHANGED <<controlVars, rem, on, poolVars>>

\* Is the job enabled, and now >= due by the clock reading the tick began with?
Due(l) == /\ NextJob(l) \in loop[l].listed
          /\ rem[NextJob(l)] + loop[l].age <= 0

\* Bug: the tick ends at the first job that is not due.
LookBreaks(l) ==
    /\ loop[l].stage = "look"
    /\ loop[l].todo # <<>>
    /\ Goto(l, IF Due(l)
               THEN [loop[l] EXCEPT !.stage = "submit"]
               ELSE [loop[l] EXCEPT !.todo = <<>>])
    /\ UNCHANGED <<controlVars, rem, on, poolVars, late>>

Look(l) ==
    /\ loop[l].stage = "look"
    /\ loop[l].todo # <<>>
    /\ Goto(l, IF Due(l)
               THEN [loop[l] EXCEPT !.stage = "submit"]
               ELSE [loop[l] EXCEPT !.todo = Tail(@)])
    /\ UNCHANGED <<controlVars, rem, on, poolVars, late>>

Submit(l) ==
    /\ loop[l].stage = "submit"
    /\ LET j == NextJob(l) IN
         /\ rem' = [rem EXCEPT ![j] = Interval[j] - loop[l].age]
         /\ queue' = Append(queue, j)
         /\ late' = [late EXCEPT ![j] = 0]
    /\ Goto(l, [loop[l] EXCEPT !.stage = "look", !.todo = Tail(@)])
    /\ UNCHANGED <<controlVars, on, running>>

EndTick(l) ==
    /\ loop[l].stage = "look"
    /\ loop[l].todo = <<>>
    /\ Goto(l, Sleep)
    /\ UNCHANGED <<controlVars, rem, on, poolVars, late>>

\* self._stop.wait returns when the event is set or the period is over.
Wake(l) ==
    /\ loop[l].stage = "sleep"
    /\ stop \/ loop[l].left = 0
    /\ Goto(l, [stage |-> "test"])
    /\ UNCHANGED <<controlVars, rem, on, poolVars, late>>

LoopStep(l) ==
    \/ Test(l) \/ List(l) \/ ListFails(l) \/ Look(l) \/ Submit(l)
    \/ EndTick(l) \/ Wake(l)

-----------------------------------------------------------------------------
(* The pool, the operator and the clock *)

\* How many pool threads are busy.
Busy == FoldSeq(LAMBDA j, n : running[j] + n, 0, Order)

BeginJob ==
    /\ queue # <<>>
    /\ Busy < PoolSize
    /\ running' = [running EXCEPT ![Head(queue)] = @ + 1]
    /\ queue' = Tail(queue)
    /\ UNCHANGED <<controlVars, loop, rem, on, late>>

\* The _safe_ wrappers catch what the job raises: it ends in any case.
EndJob(j) ==
    /\ running[j] > 0
    /\ running' = [running EXCEPT ![j] = @ - 1]
    /\ UNCHANGED <<controlVars, loop, rem, on, queue, late>>

\* A device or a profile is enabled, disabled, added or deleted.
Toggle(j) ==
    /\ on' = (on \ {j}) \union ({j} \ on)
    /\ late' = [late EXCEPT ![j] = 0]
    /\ UNCHANGED <<controlVars, loop, rem, poolVars>>

\* Nothing that happens at once is pending, and no tick is at its longest.
MayPass(l) ==
    \/ ~ Alive(l)
    \/ loop[l].stage = "sleep" /\ loop[l].left > 0 /\ ~ stop
    \/ InTick(l) /\ loop[l].age < MaxTick

Elapsed(c) ==
    IF c.stage = "sleep" THEN [c EXCEPT !.left = @ - 1]
    ELSE IF c.stage \in {"list", "look", "submit"} THEN [c EXCEPT !.age = @ + 1]
    ELSE c

TimePasses ==
    /\ \A l \in Loop : MayPass(l)
    /\ joining # -1 => joining > 0 /\ Alive(thread)
    /\ Len(queue) <= MaxQueue
    /\ joining' = IF joining # -1 THEN joining - 1 ELSE joining
    /\ loop' = [l \in Loop |-> Elapsed(loop[l])]
    /\ rem' = [j \in Job |-> IF rem[j] > LongAgo THEN rem[j] - 1 ELSE rem[j]]
    /\ late' = [j \in Job |->
                  IF Served(j) /\ rem[j] <= 0 /\ late[j] <= Patience
                  THEN late[j] + 1 ELSE late[j]]
    /\ UNCHANGED <<thread, stop, on, poolVars>>

SchedulerNext ==
    \/ \E l \in Loop : Start(l) \/ LoopStep(l)
    \/ Stop
    \/ StopReturns
    \/ BeginJob
    \/ \E j \in Job : EndJob(j)
    \/ \E j \in Listed : Toggle(j)
    \/ TimePasses

SchedulerSpec == SchedulerInit /\ [][SchedulerNext]_schedulerVars

-----------------------------------------------------------------------------
(* Properties *)

\* The only loop thread is the one start() created and stop() will join: no
\* restart can leave two loops sharing the due times (if no tick outlives the
\* join's timeout).
LoopOwned == \A l \in Loop : Alive(l) => l = thread

\* A job is submitted on a decision that still holds: its due time, compared
\* with the clock the tick read, has passed when the submission moves it.
DueWhenSubmitted ==
    \A l \in Loop : loop[l].stage = "submit" =>
        loop[l].todo # <<>> /\ Due(l)

\* While stop() waits, a tick in progress is as old as the wait is long, and
\* the time a tick may still take is less than the time stop() still waits.
JoinOutlastsTick ==
    joining # -1 =>
        /\ thread # NoLoop /\ stop
        /\ InTick(thread) => JoinTimeout <= joining + loop[thread].age
        /\ Alive(thread) => JoinTimeout <= joining + MaxTick

SchedulerInv ==
    /\ SchedulerTypeOK
    /\ LoopOwned
    /\ DueWhenSubmitted
    /\ JoinOutlastsTick

\* A job that is due and enabled, with the loop running and able to list it,
\* is submitted within a tick period and the length of two ticks.
PromptlySubmitted == \A j \in Job : late[j] <= Patience

\* "Jobs never overlap themselves" (module docstring).
NoSelfOverlap == \A j \in Job : running[j] <= 1

\* Fairness: threads run, jobs end, time passes, and listing the devices does
\* not fail for ever.  Operators start, stop and toggle as they like.
SchedulerFairSpec ==
    /\ SchedulerSpec
    /\ WF_schedulerVars(TimePasses)
    /\ WF_schedulerVars(StopReturns)
    /\ WF_schedulerVars(BeginJob)
    /\ \A j \in Job : WF_schedulerVars(EndJob(j))
    /\ \A l \in Loop : WF_schedulerVars(LoopStep(l)) /\ SF_schedulerVars(List(l))

\* Every job that stays enabled under a scheduler that stays started runs
\* again and again, whatever the other jobs do.
EveryJobRuns ==
    \A j \in Job : <>[]Served(j) => []<>(running[j] > 0)

\* A stop that nobody follows with a start ends every loop thread, those that
\* an earlier stop gave up waiting for included.
StopEndsEveryLoop == <>[]stop => <>[](\A l \in Loop : ~ Alive(l))

=============================================================================
