-------------------------- MODULE NarrativeLifecycle --------------------------
(***************************************************************************)
(* What narrative discovery promises of the sub-themes of one topic,       *)
(* whatever clusters a run finds and whichever runs fail: a run that       *)
(* commits measures every shown narrative; one it does not find goes       *)
(* quiet; a narrative that was named is never barred; and one run cannot   *)
(* both bar a narrative and bring a barred one back.                       *)
(***************************************************************************)
EXTENDS Integers

CONSTANTS SubThemes, Absent, MaxRuns

VARIABLES
    story,  \* of each sub-theme: its stage, whether named, last measurement
    last    \* the latest run that committed

vars == <<story, last>>

Story == [stage : {"shown", "quiet", "barred"}, named : BOOLEAN, volume : Int, at : Int]

Unseen == [stage |-> "barred", named |-> FALSE, volume |-> -1, at |-> 0]

Init == story = [t \in SubThemes |-> Absent] /\ last = 0

Before(t) == IF story[t] = Absent THEN Unseen ELSE story[t]

Untouched(t) ==
    /\ story'[t] = story[t]
    /\ story[t] = Absent \/ story[t].stage \in {"quiet", "barred"}

Measured(t, r) ==
    /\ story'[t].at = r
    /\ story'[t].volume >= 0
    /\ story'[t].stage = IF story'[t].volume > 0 THEN "shown" ELSE "quiet"
    /\ Before(t).named => story'[t].named

Barred(t) ==
    /\ ~Before(t).named
    /\ story'[t] = [Before(t) EXCEPT !.stage = "barred"]

\* Run r commits; judging says whether it may bar narratives.
Run(r, judging) ==
    /\ last' = r
    /\ \A t \in SubThemes :
        \/ Untouched(t)
        \/ judging /\ Barred(t)
        \/ story'[t] # Absent /\ Measured(t, r) /\
           (judging => story[t] = Absent \/ Before(t).stage # "barred")

\* The administrator deletes narratives.
Erase ==
    /\ \A t \in SubThemes : story'[t] \in {story[t], Absent}
    /\ UNCHANGED last

Next == Erase \/ \E r \in last + 1..MaxRuns, judging \in BOOLEAN : Run(r, judging)

Spec == Init /\ [][Next]_vars
=============================================================================
