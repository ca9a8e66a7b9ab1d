---------------------------- MODULE ReviewPortal ----------------------------
(***************************************************************************)
(* The review of one session's report: the report columns of its row, the  *)
(* requests of the experts, the supervisors and the administrators that    *)
(* patch them, and the pipeline run that replaces the report.              *)
(*                                                                         *)
(* Both persistence adapters are modelled.  InMemoryPersistence does each  *)
(* request under one asyncio lock.  PostgresPersistence does it with a     *)
(* SELECT and, after an await, an UPDATE of the whole claims column; no    *)
(* transaction and no condition ties the two, so other requests may run    *)
(* between them.                                                           *)
(*                                                                         *)
(* Abstracted: the claims are one object that carries, for each role, the  *)
(* request whose patch it holds; a token is the number of the report it    *)
(* was generated with; names, times and confidences are left out.          *)
(***************************************************************************)
EXTENDS Naturals

CONSTANTS
  Experts, Supervisors, Admins,  \* the submissions each role may make
  NoOne,                         \* no submission
  Adapter,                       \* "memory" or "postgres"
  MaxReports                     \* bound: reports generated for the session

ASSUME RolesAssumption ==
  /\ Experts \cap Supervisors = {}
  /\ (Experts \cup Supervisors) \cap Admins = {}
  /\ NoOne \notin Experts \cup Supervisors \cup Admins
ASSUME AdapterAssumption == Adapter \in {"memory", "postgres"}
ASSUME MaxReportsAssumption == MaxReports \in Nat \ {0}

Reviewers == Experts \cup Supervisors
Requests == Reviewers \cup Admins
Roles == {"expert", "supervisor", "admin"}
Role(r) == CASE r \in Experts     -> "expert"
             [] r \in Supervisors -> "supervisor"
             [] r \in Admins      -> "admin"

VARIABLES
  report,        \* the report whose tokens the row holds
  claims,        \* claims_json: the report they belong to, and the patches
  submitted,     \* the roles whose submitted_at is set
  completed,     \* reviews_completed_at is set
  reportStatus,
  pc,            \* the progress of each request
  held,          \* the report whose page, token and claim ids a request has
  seen           \* what the SELECT of a request returned

row == <<report, claims, submitted, completed, reportStatus>>
vars == <<row, pc, held, seen>>

Claims == [report : 1..MaxReports, marks : [Roles -> Requests \cup {NoOne}]]
Unmarked(n) == [report |-> n, marks |-> [role \in Roles |-> NoOne]]

\* The type of every variable.
TypeOK ==
  /\ report \in 1..MaxReports
  /\ claims \in Claims
  /\ submitted \subseteq {"expert", "supervisor"}
  /\ completed \in BOOLEAN
  /\ reportStatus \in {"awaiting_expert", "awaiting_supervisor", "in_review",
                       "reviews_complete"}
  /\ pc \in [Requests -> {"idle", "opened", "read", "saved", "not_found", "conflict",
                          "failed"}]
  /\ held \in [Requests -> 1..MaxReports]
  /\ seen \in [Requests -> [claims : Claims,
                            submitted : SUBSET {"expert", "supervisor"}]]

\* The first report has been saved.
Init ==
  /\ report = 1
  /\ claims = Unmarked(1)
  /\ submitted = {}
  /\ completed = FALSE
  /\ reportStatus = "awaiting_expert"
  /\ pc = [r \in Requests |-> "idle"]
  /\ held = [r \in Requests |-> 1]
  /\ seen = [r \in Requests |-> [claims |-> Unmarked(1), submitted |-> {}]]

-----------------------------------------------------------------------------
(* The start of a request.                                                 *)

\* The reviewer or administrator loads the page of the current report.
Open(r) ==
  /\ pc[r] = "idle"
  /\ pc' = [pc EXCEPT ![r] = "opened"]
  /\ held' = [held EXCEPT ![r] = report]
  /\ UNCHANGED <<row, seen>>

\* Mutation: the adapter has no lock.
LockFree_Never == TRUE

\* InMemoryPersistence._lock, which a request holds from its read to its write.
LockFree == Adapter = "memory" => \A r \in Requests : pc[r] # "read"

\* Administrators name the session.  The row keeps only the tokens of its last
\* report; the dictionaries of the in-memory adapter keep every token.
Resolves(r) == r \in Admins \/ Adapter = "memory" \/ held[r] = report

\* Mutation: submitted_at is not tested.
Lookup_Always(r) ==
  /\ pc[r] = "opened"
  /\ LockFree
  /\ pc' = [pc EXCEPT ![r] = IF Resolves(r) THEN "read" ELSE "not_found"]
  /\ seen' = [seen EXCEPT ![r] = [claims |-> claims, submitted |-> submitted]]
  /\ UNCHANGED <<row, held>>

\* The SELECT, and the refusals: 404 for an unknown token, 409 for a role that
\* has submitted.
Lookup(r) ==
  /\ pc[r] = "opened"
  /\ LockFree
  /\ pc' = [pc EXCEPT ![r] = IF ~Resolves(r) THEN "not_found"
                             ELSE IF Role(r) \in submitted THEN "conflict"
                             ELSE "read"]
  /\ seen' = [seen EXCEPT ![r] = [claims |-> claims, submitted |-> submitted]]
  /\ UNCHANGED <<row, held>>

-----------------------------------------------------------------------------
(* The write of a request.                                                 *)

\* The claims that were read, with the patch merged in by claim id; the ids
\* are new in every report.
Patched(r) ==
  LET read == seen[r].claims
  IN  IF read.report = held[r] THEN [read EXCEPT !.marks[Role(r)] = r] ELSE read

SaveExpertReview(e) ==
  /\ pc[e] = "read"
  /\ pc' = [pc EXCEPT ![e] = "saved"]
  /\ claims' = Patched(e)
  /\ submitted' = submitted \cup {"expert"}
  /\ reportStatus' = "awaiting_supervisor"
  /\ UNCHANGED <<report, completed, held, seen>>

\* Mutation: the expert's submission is looked up again at the write.
SaveSupervisorReview_Late(s) ==
  /\ pc[s] = "read"
  /\ pc' = [pc EXCEPT ![s] = "saved"]
  /\ claims' = Patched(s)
  /\ submitted' = submitted \cup {"supervisor"}
  /\ completed' = ("expert" \in submitted)
  /\ reportStatus' = IF "expert" \in submitted THEN "reviews_complete" ELSE "in_review"
  /\ UNCHANGED <<report, held, seen>>

\* Mutation: the stamp is written whichever review comes first.
SaveSupervisorReview_AnyOrder(s) ==
  /\ pc[s] = "read"
  /\ pc' = [pc EXCEPT ![s] = "saved"]
  /\ claims' = Patched(s)
  /\ submitted' = submitted \cup {"supervisor"}
  /\ completed' = TRUE
  /\ reportStatus' = IF "expert" \in seen[s].submitted THEN "reviews_complete"
                                                       ELSE "in_review"
  /\ UNCHANGED <<report, held, seen>>

\* Mutation: the status advances without the stamp.
SaveSupervisorReview_NoStamp(s) ==
  /\ pc[s] = "read"
  /\ pc' = [pc EXCEPT ![s] = "saved"]
  /\ claims' = Patched(s)
  /\ submitted' = submitted \cup {"supervisor"}
  /\ reportStatus' = IF "expert" \in seen[s].submitted THEN "reviews_complete"
                                                       ELSE "in_review"
  /\ UNCHANGED <<report, completed, held, seen>>

SaveSupervisorReview(s) ==
  /\ pc[s] = "read"
  /\ pc' = [pc EXCEPT ![s] = "saved"]
  /\ claims' = Patched(s)
  /\ submitted' = submitted \cup {"supervisor"}
  /\ completed' = ("expert" \in seen[s].submitted)
  /\ reportStatus' = IF "expert" \in seen[s].submitted THEN "reviews_complete"
                                                       ELSE "in_review"
  /\ UNCHANGED <<report, held, seen>>

SaveAdminClaimFlags(a) ==
  /\ pc[a] = "read"
  /\ pc' = [pc EXCEPT ![a] = "saved"]
  /\ claims' = Patched(a)
  /\ UNCHANGED <<report, submitted, completed, reportStatus, held, seen>>

\* The UPDATE raises, or the process dies before it: the request answers 500.
SaveFails(r) ==
  /\ Adapter = "postgres"
  /\ pc[r] = "read"
  /\ pc' = [pc EXCEPT ![r] = "failed"]
  /\ UNCHANGED <<row, held, seen>>

-----------------------------------------------------------------------------
(* The pipeline is run again: the session gets a new report.               *)

\* Mutation: the columns of the reviews are not reset in memory either.
SaveReport_Keep ==
  /\ report < MaxReports
  /\ LockFree
  /\ report' = report + 1
  /\ claims' = Unmarked(report + 1)
  /\ reportStatus' = "awaiting_expert"
  /\ UNCHANGED <<submitted, completed, pc, held, seen>>

SaveReport ==
  /\ report < MaxReports
  /\ LockFree
  /\ report' = report + 1
  /\ claims' = Unmarked(report + 1)
  /\ reportStatus' = "awaiting_expert"
  /\ IF Adapter = "memory" THEN submitted' = {} /\ completed' = FALSE
                           ELSE UNCHANGED <<submitted, completed>>
  /\ UNCHANGED <<pc, held, seen>>

Next ==
  \/ \E r \in Requests : Open(r) \/ Lookup(r) \/ SaveFails(r)
  \/ \E e \in Experts : SaveExpertReview(e)
  \/ \E s \in Supervisors : SaveSupervisorReview(s)
  \/ \E a \in Admins : SaveAdminClaimFlags(a)
  \/ SaveReport

Spec == Init /\ [][Next]_vars

-----------------------------------------------------------------------------
(* Properties.                                                             *)

BothSubmitted == submitted = {"expert", "supervisor"}

\* The stamp of completion is there only if both roles have submitted, even if
\* several submissions of one role overlap.
CompletedByBoth == completed => BothSubmitted

\* A report that is shown as complete has the stamp of completion.
CompleteIsStamped == reportStatus = "reviews_complete" => completed

\* While no administrator has touched the claims and the report has not been
\* replaced, a report shown as complete carries both reviews: overlapping
\* submissions may lose each other's patches, never under that status.
UntouchedComplete ==
  (reportStatus = "reviews_complete" /\ report = 1 /\ \A a \in Admins : pc[a] # "saved")
     => claims.marks["expert"] # NoOne /\ claims.marks["supervisor"] # NoOne

\* A review that was acknowledged stays in the claims it was made for.
AcknowledgedReviewKept ==
  \A r \in Reviewers :
     (pc[r] = "saved" /\ held[r] = claims.report) => claims.marks[Role(r)] = r

\* v0.7-phase-7-sme-review-portal.md: a second submission of one role "returns
\* 409 Conflict (or equivalent)": no report takes two of them.
SubmittedOnce ==
  \A q, r \in Reviewers :
     (q # r /\ Role(q) = Role(r) /\ pc[q] = "saved" /\ pc[r] = "saved")
        => seen[q].claims.report # seen[r].claims.report

\* The claims in the row are those of the report whose links are in use.
ClaimsMatchTokens == claims.report = report

\* Every request takes effect in one step (AtomicReviews).
Contract == INSTANCE AtomicReviews WITH marks <- claims.marks
ReviewsAreAtomic == Contract!Spec
=============================================================================
