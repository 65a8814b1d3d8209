------------------------------- MODULE Sweep -------------------------------
(* What a fan-out over a thread pool promises its caller, whatever the pool,
   the order in which checks finish and the moment of a cancellation: an
   answer lists items that were checked, and all of them unless the caller
   asked for a cancellation; it fails only if a check did; and once a call is
   answered none of its checks goes on. *)

CONSTANTS Call,       \* calls of run_round or scan
          Item        \* the hosts or devices a call sweeps over

VARIABLES asked,      \* asked[c]: the caller of c has asked for a cancellation
          checked,    \* checked[c]: items whose check has returned
          broken,     \* broken[c]: items whose check has raised
          answer      \* answer[c]: what the caller got

sweepVars == <<asked, checked, broken, answer>>

NoAnswer == [kind |-> "none", of |-> {}]
Failure == [kind |-> "failed", of |-> {}]

SweepInit ==
    /\ asked = [c \in Call |-> FALSE]
    /\ checked = [c \in Call |-> {}]
    /\ broken = [c \in Call |-> {}]
    /\ answer = [c \in Call |-> NoAnswer]

Ask(c) ==
    /\ asked' = [asked EXCEPT ![c] = TRUE]
    /\ UNCHANGED <<checked, broken, answer>>

CheckItem(c, i) ==
    /\ answer[c] = NoAnswer
    /\ i \notin checked[c] \cup broken[c]
    /\ \/ checked' = [checked EXCEPT ![c] = @ \cup {i}] /\ UNCHANGED broken
       \/ broken' = [broken EXCEPT ![c] = @ \cup {i}] /\ UNCHANGED checked
    /\ UNCHANGED <<asked, answer>>

AnswerAll(c) ==
    /\ answer[c] = NoAnswer
    /\ checked[c] = Item
    /\ answer' = [answer EXCEPT ![c] = [kind |-> "complete", of |-> Item]]
    /\ UNCHANGED <<asked, checked, broken>>

AnswerPart(c) ==
    /\ answer[c] = NoAnswer
    /\ asked[c]
    /\ \E part \in SUBSET checked[c] :
         answer' = [answer EXCEPT ![c] = [kind |-> "cancelled", of |-> part]]
    /\ UNCHANGED <<asked, checked, broken>>

Fail(c) ==
    /\ answer[c] = NoAnswer
    /\ broken[c] # {}
    /\ answer' = [answer EXCEPT ![c] = Failure]
    /\ UNCHANGED <<asked, checked, broken>>

SweepNext ==
    \E c \in Call :
        \/ Ask(c) \/ AnswerAll(c) \/ AnswerPart(c) \/ Fail(c)
        \/ \E i \in Item : CheckItem(c, i)

SweepSpec == SweepInit /\ [][SweepNext]_sweepVars

=============================================================================
