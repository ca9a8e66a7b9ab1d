----------------------------- MODULE SessionRow -----------------------------
(***************************************************************************)
(* What the readers of a session row (the status poll of the candidate     *)
(* page, the dashboard, the eligibility query) may rely on: the abstract   *)
(* specification that CallLifecycle implements.                            *)
(*                                                                         *)
(* The row is created "pending".  The dial and the pick-up each have one   *)
(* chance to write "dialling" and "in_progress"; a chance that is used or  *)
(* forgone never comes back.  Otherwise the row only ever receives an      *)
(* outcome, possibly several in turn.  So once both chances are gone and   *)
(* an outcome is there, the row shows an outcome for ever.                 *)
(*                                                                         *)
(* With DialFirst the pick-up cannot be recorded before the dial.          *)
(***************************************************************************)
EXTENDS SessionStatus

CONSTANT DialFirst   \* a BOOLEAN

VARIABLES status,
          dialDone,    \* the dial's only chance to write the row is over
          pickupDone   \* the pick-up's only chance to write the row is over

rowVars == <<status, dialDone, pickupDone>>

Init == /\ status = "pending"
        /\ dialDone = FALSE
        /\ pickupDone = FALSE

Dialled == /\ ~dialDone
           /\ status' = "dialling"
           /\ dialDone' = TRUE
           /\ UNCHANGED pickupDone

PickedUp == /\ ~pickupDone
            /\ DialFirst => dialDone
            /\ status' = "in_progress"
            /\ pickupDone' = TRUE
            /\ UNCHANGED dialDone

\* A dial that raises, a write that fails, a process that restarts.
Forgo == /\ dialDone' \in {dialDone, TRUE}
         /\ pickupDone' \in {pickupDone, TRUE}
         /\ UNCHANGED status

Conclude == /\ status' \in Outcomes
            /\ UNCHANGED <<dialDone, pickupDone>>

Next == Dialled \/ PickedUp \/ Forgo \/ Conclude

Spec == Init /\ [][Next]_rowVars
=============================================================================
