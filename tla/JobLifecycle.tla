---------------------------- MODULE JobLifecycle ----------------------------
(***************************************************************************)
(* What a client of the /jobs methods is promised, with CUPS out of sight.  *)
(* A job collects pages while it is open, is handed over in one step with   *)
(* every page or not at all, and ends once; what is on the printing side    *)
(* never changes afterwards.  After its end only a cancel may still touch   *)
(* it, and only its verdict.                                                *)
(***************************************************************************)
EXTENDS Naturals, Sequences

CONSTANTS Job, Path

VARIABLES
    stage,     \* where each job is in its life
    pages,     \* what the client put into it
    paper,     \* what the printing side was handed for it
    verdict    \* the outcome its subscribers were told last

vars == <<stage, pages, paper, verdict>>

Stages   == {"unused", "open", "printing", "ended", "freed"}
Verdicts == {"none", "Success", "Error", "Cancelled"}

Init ==
    /\ stage = [j \in Job |-> "unused"]
    /\ pages = [j \in Job |-> << >>]
    /\ paper = [j \in Job |-> << >>]
    /\ verdict = [j \in Job |-> "none"]

Moves(j, to) == stage' = [stage EXCEPT ![j] = to]

\* Opened empty, or with all its pages at once.
Opens(j) ==
    /\ stage[j] = "unused"
    /\ Moves(j, "open")
    /\ pages'[j] \in Seq(Path)
    /\ pages' = [pages EXCEPT ![j] = pages'[j]]
    /\ UNCHANGED <<paper, verdict>>

AddsPage(j) ==
    /\ stage[j] = "open"
    /\ \E p \in Path : pages' = [pages EXCEPT ![j] = Append(@, p)]
    /\ UNCHANGED <<stage, paper, verdict>>

HandsOver(j) ==
    /\ stage[j] = "open"
    /\ pages[j] # << >>
    /\ Moves(j, "printing")
    /\ paper' = [paper EXCEPT ![j] = pages[j]]
    /\ UNCHANGED <<pages, verdict>>

\* A verdict other than Cancelled is reached once.
Ends(j) ==
    /\ stage[j] \in {"open", "printing"}
    /\ Moves(j, "ended")
    /\ \E v \in Verdicts \ {"none"} : verdict' = [verdict EXCEPT ![j] = v]
    /\ UNCHANGED <<pages, paper>>

CancelsLate(j) ==
    /\ stage[j] = "ended"
    /\ verdict' = [verdict EXCEPT ![j] = "Cancelled"]
    /\ UNCHANGED <<stage, pages, paper>>

\* The one-call method frees a job it could not hand over.
Frees(j) ==
    /\ stage[j] \in {"unused", "open"}
    /\ Moves(j, "freed")
    /\ \E v \in {"none", "Error"} : verdict' = [verdict EXCEPT ![j] = v]
    /\ UNCHANGED <<pages, paper>>

Next ==
    \E j \in Job :
        \/ Opens(j)
        \/ AddsPage(j)
        \/ HandsOver(j)
        \/ Ends(j)
        \/ CancelsLate(j)
        \/ Frees(j)

Spec == Init /\ [][Next]_vars
=============================================================================
