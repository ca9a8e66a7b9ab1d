--------------------------- MODULE SessionStatus ---------------------------
(***************************************************************************)
(* The values of assessment_sessions.status (enum AssessmentStatus in      *)
(* domain/models/assessment.py) and the groups of them the code tests for. *)
(***************************************************************************)

Statuses == {"pending", "dialling", "in_progress", "completed",
             "processed", "failed", "cancelled", "user_ended"}

\* The candidate's page takes these for the end of the call and stops polling.
Terminal == {"completed", "failed", "cancelled", "user_ended"}

\* cancel_call: the call has not connected yet.
PreCall == {"pending", "dialling"}

\* Every status that says the call is over.
Outcomes == Statuses \ {"pending", "dialling", "in_progress"}

\* on_call_ended leaves these alone.
HonouredOnEnd == {"failed", "cancelled", "completed"}
=============================================================================
