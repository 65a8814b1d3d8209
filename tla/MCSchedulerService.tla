------------------------- MODULE MCSchedulerService -------------------------
(* Small schedules for SchedulerService, in the order tick_once visits them. *)
EXTENDS SchedulerService

CONSTANTS device, snapshot, profile, l1, l2

\* A device checked at every tick, the system snapshot and a backup profile.
Schedule == <<device, snapshot, profile>>
Intervals == [j \in {device, snapshot, profile} |->
                CASE j = device -> 1 [] j = snapshot -> 3 [] OTHER -> 4]

\* Where loops that stop() gave up waiting for are about, two jobs will do.
TwoJobs == <<device, profile>>
TwoIntervals == [j \in {device, profile} |-> IF j = device THEN 1 ELSE 4]

=============================================================================
