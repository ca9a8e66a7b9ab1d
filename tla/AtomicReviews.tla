---------------------------- MODULE AtomicReviews ----------------------------
(***************************************************************************)
(* What IPersistence promises of a report's reviews: each role submits at  *)
(* most once per report, a submission takes effect in one step, and it     *)
(* touches nothing of the other roles.  The abstract specification that    *)
(* the in-memory adapter implements.                                       *)
(*                                                                         *)
(* A submission made from the page of a replaced report leaves the claims  *)
(* as they are: none of its claim ids is in the new report.                *)
(***************************************************************************)
EXTENDS Naturals

CONSTANTS Experts, Supervisors, Admins, NoOne

VARIABLES report,        \* the number of the report
          marks,         \* by role, whose patch the claims hold
          submitted,     \* the roles that have submitted
          completed,
          reportStatus

reviewVars == <<report, marks, submitted, completed, reportStatus>>

NoMarks == [role \in {"expert", "supervisor", "admin"} |-> NoOne]

Init == /\ report = 1
        /\ marks = NoMarks
        /\ submitted = {}
        /\ completed = FALSE
        /\ reportStatus = "awaiting_expert"

\* The patch of one of the people of a role is merged in, or matches no claim.
Patch(role, people) ==
  \/ \E person \in people : marks' = [marks EXCEPT ![role] = person]
  \/ UNCHANGED marks

ExpertSubmits ==
  /\ "expert" \notin submitted
  /\ submitted' = submitted \cup {"expert"}
  /\ reportStatus' = "awaiting_supervisor"
  /\ Patch("expert", Experts)
  /\ UNCHANGED <<report, completed>>

SupervisorSubmits ==
  /\ "supervisor" \notin submitted
  /\ submitted' = submitted \cup {"supervisor"}
  /\ completed' = ("expert" \in submitted)
  /\ reportStatus' = IF "expert" \in submitted THEN "reviews_complete" ELSE "in_review"
  /\ Patch("supervisor", Supervisors)
  /\ UNCHANGED report

AdminFlags ==
  /\ Patch("admin", Admins)
  /\ UNCHANGED <<report, submitted, completed, reportStatus>>

NewReport ==
  /\ report' = report + 1
  /\ marks' = NoMarks
  /\ submitted' = {}
  /\ completed' = FALSE
  /\ reportStatus' = "awaiting_expert"

Next == ExpertSubmits \/ SupervisorSubmits \/ AdminFlags \/ NewReport

Spec == Init /\ [][Next]_reviewVars
=============================================================================
