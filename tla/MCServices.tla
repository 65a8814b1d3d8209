----------------------------- MODULE MCServices -----------------------------
(* The network scan, with its page, and the evaluation of the disks on small
   instances, one at a time: subject says which of the two moves, and the
   variables of the other keep their initial values, so that the states of the
   run are the sum of the two, not the product. *)
EXTENDS NetworkScan, DiskService

VARIABLE subject    \* "scan" or "disk"

servicesVars == <<scanVars, diskVars, subject>>

\* Two scans of one page.
TwoScans == 1 .. 2

\* Usage at, below and above the thresholds, and thresholds that an update of
\* the settings moves.
UsageCases == {70, 80}
LimitCases == {[warning |-> 80, critical |-> 90], [warning |-> 60, critical |-> 80]}

\* Disks begin with any usage and any thresholds.
ServicesInit ==
    /\ subject \in {"scan", "disk"}
    /\ ScanInit /\ DiskInit
    /\ subject = "scan" => limits.critical = 90 /\ \A d \in Drive : usage[d] = 70

ServicesNext ==
    /\ UNCHANGED subject
    /\ \/ subject = "scan" /\ ScanNext /\ UNCHANGED diskVars
       \/ subject = "disk" /\ DiskNext /\ UNCHANGED scanVars

\* What does not move is not enabled to: the fairness of both can be stated.
ServicesSpec == ServicesInit /\ [][ServicesNext]_servicesVars /\ ScanFair /\ DiskFair

=============================================================================
