------------------------------ MODULE SlotOwner ------------------------------
(***************************************************************************)
(* What the hand-over of a transfer slot promises: a slot has one owner at *)
(* a time, the crawl thread or the one worker it was lent to; the crawl    *)
(* thread sees of the worker's transfer only its outcome, whole and once.  *)
(***************************************************************************)
CONSTANTS
    Slot,       \* the slots of the backlog
    Outcome     \* how a transfer may end

VARIABLES
    owner,      \* "crawl" or "worker"
    outcome     \* the outcome a slot holds, or NoOutcome, which is none

NoOutcome == "none"

ownerVars == <<owner, outcome>>

Init == /\ owner = [s \in Slot |-> "crawl"]
        /\ outcome = [s \in Slot |-> NoOutcome]

\* The crawl thread lends a slot whose last outcome it has used.
Lend(s) == /\ owner[s] = "crawl" /\ outcome[s] = NoOutcome
           /\ owner' = [owner EXCEPT ![s] = "worker"]
           /\ UNCHANGED outcome

\* The worker gives it back with an outcome, in one step.
GiveBack(s) == /\ owner[s] = "worker"
               /\ owner' = [owner EXCEPT ![s] = "crawl"]
               /\ \E o \in Outcome : outcome' = [outcome EXCEPT ![s] = o]

\* The crawl thread uses the outcomes of slots it owns.
Use(S) == /\ \A s \in S : owner[s] = "crawl"
          /\ outcome' = [s \in Slot |-> IF s \in S THEN NoOutcome ELSE outcome[s]]
          /\ UNCHANGED owner

\* The user cancels a slot nobody has looked at yet: another outcome.
Cancel(s) == /\ owner[s] = "crawl" /\ outcome[s] # NoOutcome
             /\ \E o \in Outcome : outcome' = [outcome EXCEPT ![s] = o]
             /\ UNCHANGED owner

Next == \/ \E s \in Slot : Lend(s) \/ GiveBack(s) \/ Cancel(s)
        \/ \E S \in SUBSET Slot : Use(S)

Spec == /\ Init /\ [][Next]_ownerVars
        /\ \A s \in Slot : WF_ownerVars(GiveBack(s))
=============================================================================
