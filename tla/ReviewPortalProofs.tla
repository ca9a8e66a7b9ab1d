------------------------- MODULE ReviewPortalProofs -------------------------
(***************************************************************************)
(* Theorems about ReviewPortal, for any number of submissions of each role *)
(* and any number of reports.  The first group holds of both adapters, the *)
(* second of the in-memory adapter, whose lock it rests on.  What the lock *)
(* gives is one action property, Orderly: no two requests are between      *)
(* their read and their write, and no report is replaced under one.  The   *)
(* third group shows that nothing more is needed over Postgres, and the    *)
(* last what holds there in spite of overlaps.                             *)
(***************************************************************************)
EXTENDS ReviewPortal, TLAPS

USE DEF row

-----------------------------------------------------------------------------
(* Roles and patches.                                                      *)

\* Each request has the role of the set it belongs to.
LEMMA RoleOf ==
  /\ \A e \in Experts : Role(e) = "expert"
  /\ \A s \in Supervisors : Role(s) = "supervisor"
  /\ \A a \in Admins : Role(a) = "admin"
  /\ \A r \in Requests : Role(r) \in Roles /\ r # NoOne
  BY RolesAssumption DEF RolesAssumption, Role, Requests, Reviewers, Roles

\* Merging a patch gives claims of the same report, leaves the marks of the
\* other roles alone, and leaves a mark if the claim ids match.
LEMMA PatchedClaims ==
  ASSUME NEW r \in Requests, TypeOK
  PROVE  /\ Patched(r) \in Claims
         /\ Patched(r).report = seen[r].claims.report
         /\ \A role \in Roles \ {Role(r)} :
               Patched(r).marks[role] = seen[r].claims.marks[role]
         /\ held[r] = seen[r].claims.report => Patched(r).marks[Role(r)] = r
         /\ Patched(r).marks = seen[r].claims.marks
              \/ Patched(r).marks = [seen[r].claims.marks EXCEPT ![Role(r)] = r]
  <1>1. Role(r) \in Roles
    BY RoleOf
  <1>2. seen[r].claims \in Claims
    BY DEF TypeOK
  <1> QED
    BY <1>1, <1>2 DEF Patched, Claims

\* A report starts without patches.
LEMMA UnmarkedClaims == \A n \in 1..MaxReports : Unmarked(n) \in Claims
  BY DEF Unmarked, Claims

-----------------------------------------------------------------------------
(* Type correctness.                                                       *)

\* Init gives every variable a value of its type.
LEMMA InitTypeOK == Init => TypeOK
  <1> SUFFICES ASSUME Init PROVE TypeOK
    OBVIOUS
  <1>1. 1 \in 1..MaxReports
    BY MaxReportsAssumption DEF MaxReportsAssumption
  <1>2. Unmarked(1) \in Claims
    BY <1>1, UnmarkedClaims
  <1>3. held \in [Requests -> 1..MaxReports]
    BY <1>1 DEF Init
  <1>4. seen \in [Requests -> [claims : Claims, submitted : SUBSET {"expert", "supervisor"}]]
    BY <1>2 DEF Init
  <1>5. report \in 1..MaxReports /\ claims \in Claims
    BY <1>1, <1>2 DEF Init
  <1>6. pc \in [Requests -> {"idle", "opened", "read", "saved", "not_found", "conflict",
                            "failed"}]
    BY DEF Init
  <1>7. /\ submitted \subseteq {"expert", "supervisor"}
        /\ completed \in BOOLEAN
        /\ reportStatus \in {"awaiting_expert", "awaiting_supervisor", "in_review",
                             "reviews_complete"}
    BY DEF Init
  <1> QED
    BY <1>3, <1>4, <1>5, <1>6, <1>7 DEF TypeOK

\* No step leaves the types.
LEMMA NextTypeOK == TypeOK /\ [Next]_vars => TypeOK'
  <1> SUFFICES ASSUME TypeOK, [Next]_vars PROVE TypeOK'
    OBVIOUS
  <1>1. ASSUME NEW r \in Requests, Open(r) \/ Lookup(r) \/ SaveFails(r)
        PROVE  TypeOK'
    <2>1. CASE Open(r)
      BY <2>1 DEF TypeOK, Open
    <2>2. CASE Lookup(r)
      <3>1. [claims |-> claims, submitted |-> submitted]
              \in [claims : Claims, submitted : SUBSET {"expert", "supervisor"}]
        BY DEF TypeOK
      <3>2. seen' \in [Requests -> [claims : Claims,
                                   submitted : SUBSET {"expert", "supervisor"}]]
        BY <2>2, <3>1 DEF TypeOK, Lookup
      <3>3. pc' \in [Requests -> {"idle", "opened", "read", "saved", "not_found",
                                 "conflict", "failed"}]
        BY <2>2 DEF TypeOK, Lookup
      <3> QED
        BY <2>2, <3>2, <3>3 DEF TypeOK, Lookup
    <2>3. CASE SaveFails(r)
      BY <2>3 DEF TypeOK, SaveFails
    <2> QED
      BY <1>1, <2>1, <2>2, <2>3
  <1>2. ASSUME NEW e \in Experts, SaveExpertReview(e) PROVE TypeOK'
    <2>1. e \in Requests
      BY DEF Requests, Reviewers
    <2>2. claims' \in Claims
      BY <1>2, <2>1, PatchedClaims DEF SaveExpertReview
    <2> QED
      BY <1>2, <2>1, <2>2 DEF TypeOK, SaveExpertReview
  <1>3. ASSUME NEW s \in Supervisors, SaveSupervisorReview(s) PROVE TypeOK'
    <2>1. s \in Requests
      BY DEF Requests, Reviewers
    <2>2. claims' \in Claims
      BY <1>3, <2>1, PatchedClaims DEF SaveSupervisorReview
    <2> QED
      BY <1>3, <2>1, <2>2 DEF TypeOK, SaveSupervisorReview
  <1>4. ASSUME NEW a \in Admins, SaveAdminClaimFlags(a) PROVE TypeOK'
    <2>1. a \in Requests
      BY DEF Requests
    <2>2. claims' \in Claims
      BY <1>4, <2>1, PatchedClaims DEF SaveAdminClaimFlags
    <2> QED
      BY <1>4, <2>1, <2>2 DEF TypeOK, SaveAdminClaimFlags
  <1>5. CASE SaveReport
    <2>1. report' \in 1..MaxReports
      BY <1>5, MaxReportsAssumption DEF SaveReport, TypeOK, MaxReportsAssumption
    <2>2. claims' \in Claims
      BY <1>5, <2>1, UnmarkedClaims DEF SaveReport
    <2> QED
      BY <1>5, <2>1, <2>2 DEF TypeOK, SaveReport
  <1>6. CASE UNCHANGED vars
    BY <1>6 DEF TypeOK, vars
  <1> QED
    BY <1>1, <1>2, <1>3, <1>4, <1>5, <1>6 DEF Next

\* Every variable of the review portal always has its type.
THEOREM TypeCorrect == Spec => []TypeOK
  BY InitTypeOK, NextTypeOK, PTL DEF Spec

-----------------------------------------------------------------------------
(* The invariant of both adapters.                                         *)

\* Nothing refers to a report that does not exist yet.
PastReports ==
  /\ claims.report <= report
  /\ \A r \in Requests : held[r] <= report /\ seen[r].claims.report <= report

\* A request that is about to write was not refused, and what it saw submitted
\* still is.
ReadsAreFair ==
  \A r \in Requests :
     pc[r] = "read" => Role(r) \notin seen[r].submitted /\ seen[r].submitted \subseteq submitted

\* The first report, before an administrator's patch is in.
Untouched == report = 1 /\ \A a \in Admins : pc[a] # "saved"

\* Until the supervisor's first write, the expert's review is in the claims,
\* and in what was read of them.
ExpertReviewVisible ==
  Untouched =>
    /\ "expert" \in submitted /\ "supervisor" \notin submitted
          => claims.marks["expert"] # NoOne
    /\ \A s \in Supervisors :
          pc[s] = "read" /\ "expert" \in seen[s].submitted
             => seen[s].claims.marks["expert"] # NoOne

IInv == /\ TypeOK
        /\ PastReports
        /\ ReadsAreFair
        /\ CompletedByBoth
        /\ CompleteIsStamped
        /\ ExpertReviewVisible
        /\ UntouchedComplete

\* The invariant holds at the start.
LEMMA InitIInv == Init => IInv
  <1> SUFFICES ASSUME Init PROVE IInv
    OBVIOUS
  <1>1. TypeOK
    BY InitTypeOK
  <1>2. PastReports
    BY DEF Init, PastReports, Unmarked
  <1>3. ReadsAreFair
    BY DEF Init, ReadsAreFair
  <1>4. ExpertReviewVisible
    BY DEF Init, ExpertReviewVisible, Requests, Reviewers
  <1> QED
    BY <1>1, <1>2, <1>3, <1>4
    DEF Init, IInv, CompletedByBoth, CompleteIsStamped, UntouchedComplete

\* Opening, looking up and failing keep the invariant: the row is not touched.
LEMMA ReadingIInv ==
  ASSUME NEW r \in Requests, IInv, TypeOK', Open(r) \/ Lookup(r) \/ SaveFails(r)
  PROVE  IInv'
  <1> USE DEF IInv, TypeOK
  <1>1. PastReports'
    BY DEF PastReports, Open, Lookup, SaveFails
  <1>2. ReadsAreFair'
    BY DEF ReadsAreFair, Open, Lookup, SaveFails
  <1>3. ExpertReviewVisible'
    BY RoleOf DEF ExpertReviewVisible, Untouched, Open, Lookup, SaveFails, Requests, Reviewers
  <1>4. CompletedByBoth' /\ CompleteIsStamped'
    BY DEF CompletedByBoth, CompleteIsStamped, BothSubmitted, Open, Lookup, SaveFails
  <1>5. UntouchedComplete'
    <2>1. \A a \in Admins : pc'[a] # "saved" => pc[a] # "saved"
      BY DEF Open, Lookup, SaveFails, Requests
    <2>2. UNCHANGED row
      BY DEF Open, Lookup, SaveFails
    <2> QED
      BY <2>1, <2>2 DEF UntouchedComplete
  <1> QED
    BY <1>1, <1>2, <1>3, <1>4, <1>5

\* An expert's write keeps it: the status leaves reviews_complete, and before
\* the supervisor's write the claims get the expert's mark.
LEMMA ExpertIInv ==
  ASSUME NEW e \in Experts, IInv, TypeOK', SaveExpertReview(e)
  PROVE  IInv'
  <1> USE DEF IInv, TypeOK, SaveExpertReview
  <1>1. e \in Requests /\ Role(e) = "expert" /\ e # NoOne
    BY RoleOf DEF Requests, Reviewers
  <1>2. PastReports'
    BY <1>1, PatchedClaims DEF PastReports
  <1>3. ReadsAreFair'
    BY <1>1 DEF ReadsAreFair
  <1>4. ExpertReviewVisible'
    <2>1. Untouched' => Untouched
      BY <1>1 DEF Untouched
    <2>2. Untouched => held[e] = seen[e].claims.report
      BY <1>1, MaxReportsAssumption
      DEF Untouched, PastReports, Claims, MaxReportsAssumption
    <2>3. Untouched => Patched(e).marks["expert"] = e
      BY <1>1, <2>2, PatchedClaims
    <2> QED
      BY <1>1, <2>1, <2>3 DEF ExpertReviewVisible
  <1>5. (CompletedByBoth /\ CompleteIsStamped /\ UntouchedComplete)'
    BY DEF CompletedByBoth, CompleteIsStamped, UntouchedComplete, BothSubmitted
  <1> QED
    BY <1>2, <1>3, <1>4, <1>5

\* A supervisor's write keeps it: if it completes the report, the claims it
\* read had the expert's mark.
LEMMA SupervisorIInv ==
  ASSUME NEW s \in Supervisors, IInv, TypeOK', SaveSupervisorReview(s)
  PROVE  IInv'
  <1> USE DEF IInv, TypeOK, SaveSupervisorReview
  <1>1. s \in Requests /\ Role(s) = "supervisor" /\ s # NoOne
    BY RoleOf DEF Requests, Reviewers
  <1>2. PastReports'
    BY <1>1, PatchedClaims DEF PastReports
  <1>3. ReadsAreFair'
    BY <1>1 DEF ReadsAreFair
  <1>4. ExpertReviewVisible'
    BY <1>1 DEF ExpertReviewVisible, Untouched
  <1>5. CompletedByBoth' /\ CompleteIsStamped'
    BY <1>1 DEF CompletedByBoth, CompleteIsStamped, BothSubmitted, ReadsAreFair
  <1>6. UntouchedComplete'
    <2>1. Untouched' => Untouched
      BY <1>1 DEF Untouched
    <2>2. Untouched => held[s] = seen[s].claims.report
      BY <1>1, MaxReportsAssumption
      DEF Untouched, PastReports, Claims, MaxReportsAssumption
    <2>3. Untouched => Patched(s).marks["supervisor"] = s
      BY <1>1, <2>2, PatchedClaims
    <2>4. Patched(s).marks["expert"] = seen[s].claims.marks["expert"]
      <3>1. "expert" \in Roles \ {Role(s)}
        BY <1>1 DEF Roles
      <3>2. \A role \in Roles \ {Role(s)} : Patched(s).marks[role] = seen[s].claims.marks[role]
        BY <1>1, PatchedClaims
      <3> QED
        BY <3>1, <3>2
    <2>5. Untouched /\ reportStatus' = "reviews_complete"
             => seen[s].claims.marks["expert"] # NoOne
      BY DEF ExpertReviewVisible
    <2>6. claims' = Patched(s)
      OBVIOUS
    <2> QED
      <3>1. SUFFICES ASSUME Untouched', reportStatus' = "reviews_complete"
                     PROVE  claims'.marks["expert"] # NoOne /\ claims'.marks["supervisor"] # NoOne
        BY DEF UntouchedComplete, Untouched
      <3> QED
        BY <1>1, <2>1, <2>3, <2>4, <2>5, <2>6, <3>1
  <1> QED
    BY <1>2, <1>3, <1>4, <1>5, <1>6

\* An administrator's write, or a new report, ends the untouched first report.
LEMMA OtherIInv ==
  ASSUME IInv, TypeOK', SaveReport \/ \E a \in Admins : SaveAdminClaimFlags(a)
  PROVE  IInv'
  <1> USE DEF IInv, TypeOK
  <1>1. CASE SaveReport
    <2> USE DEF SaveReport
    <2>1. PastReports'
      BY <1>1, MaxReportsAssumption DEF PastReports, Unmarked, Claims, MaxReportsAssumption
    <2>2. ReadsAreFair'
      BY <1>1 DEF ReadsAreFair, LockFree
    <2>3. report' # 1
      BY <1>1, MaxReportsAssumption DEF MaxReportsAssumption
    <2> QED
      BY <1>1, <2>1, <2>2, <2>3
      DEF ExpertReviewVisible, Untouched, CompletedByBoth, CompleteIsStamped,
          UntouchedComplete, BothSubmitted
  <1>2. ASSUME NEW a \in Admins, SaveAdminClaimFlags(a) PROVE IInv'
    <2> USE DEF SaveAdminClaimFlags
    <2>1. a \in Requests
      BY DEF Requests
    <2>2. PastReports'
      BY <1>2, <2>1, PatchedClaims DEF PastReports
    <2>3. ReadsAreFair'
      BY <1>2, <2>1 DEF ReadsAreFair
    <2>4. pc'[a] = "saved"
      BY <1>2, <2>1
    <2> QED
      BY <1>2, <2>2, <2>3, <2>4
      DEF ExpertReviewVisible, Untouched, CompletedByBoth, CompleteIsStamped,
          UntouchedComplete, BothSubmitted
  <1> QED
    BY <1>1, <1>2

\* The invariant is inductive.
LEMMA NextIInv == IInv /\ [Next]_vars => IInv'
  <1> SUFFICES ASSUME IInv, [Next]_vars PROVE IInv'
    OBVIOUS
  <1>1. TypeOK'
    BY NextTypeOK DEF IInv
  <1>2. CASE Next
    BY <1>1, <1>2, ReadingIInv, ExpertIInv, SupervisorIInv, OtherIInv DEF Next
  <1>3. CASE UNCHANGED vars
    BY <1>1, <1>3
    DEF vars, IInv, PastReports, ReadsAreFair, CompletedByBoth, CompleteIsStamped,
        ExpertReviewVisible, UntouchedComplete, Untouched, BothSubmitted
  <1> QED
    BY <1>2, <1>3

\* The invariant holds throughout.
LEMMA SpecIInv == Spec => []IInv
  BY InitIInv, NextIInv, PTL DEF Spec

\* The stamp of completion says that both roles have submitted, whatever
\* requests overlap and however often the report is replaced.
THEOREM CompletionNeedsBoth == Spec => []CompletedByBoth
  <1>1. IInv => CompletedByBoth
    BY DEF IInv
  <1> QED
    BY <1>1, SpecIInv, PTL

\* Between reviewers alone, lost patches never hide behind reviews_complete.
THEOREM CompleteCarriesBoth == Spec => []UntouchedComplete
  <1>1. IInv => UntouchedComplete
    BY DEF IInv
  <1> QED
    BY <1>1, SpecIInv, PTL

\* A report that is shown as complete has the stamp: the supervisor's UPDATE
\* writes both, and a new report resets the status.
THEOREM CompletionIsStamped == Spec => []CompleteIsStamped
  <1>1. IInv => CompleteIsStamped
    BY DEF IInv
  <1> QED
    BY <1>1, SpecIInv, PTL

-----------------------------------------------------------------------------
(* Requests that do not overlap: the in-memory adapter, whose lock keeps   *)
(* them apart, and the Postgres adapter while it so happens.               *)

Memory == Adapter = "memory"

\* A step after which no two requests are between their read and their write,
\* and which replaces no report under such a request.
Orderly == /\ \A q, r \in Requests : pc'[q] = "read" /\ pc'[r] = "read" => q = r
           /\ report' # report => \A r \in Requests : pc[r] # "read"

\* While requests are orderly, what a request has read is what the row still is.
Locked ==
  \A r \in Requests :
     pc[r] = "read" => /\ seen[r] = [claims |-> claims, submitted |-> submitted]
                       /\ \A q \in Requests \ {r} : pc[q] # "read"

\* A submission read a report no older than the page it was made from.
PageFirst ==
  \A r \in Requests : pc[r] \in {"read", "saved"} => held[r] <= seen[r].claims.report

\* A role that has had a submission saved for the current report is refused.
SavedCounts ==
  \A r \in Reviewers :
     pc[r] = "saved" /\ seen[r].claims.report = report => Role(r) \in submitted

MInv == /\ Locked
        /\ ClaimsMatchTokens
        /\ PageFirst
        /\ SavedCounts
        /\ AcknowledgedReviewKept
        /\ SubmittedOnce

\* The invariant holds at the start.
LEMMA InitMInv == Init => MInv
  BY DEF Init, MInv, Locked, ClaimsMatchTokens, PageFirst, SavedCounts,
         AcknowledgedReviewKept, SubmittedOnce, Requests, Reviewers, Unmarked

\* Opening a page, and a read that no other request is in the midst of, keep it.
LEMMA ReadingMInv ==
  ASSUME NEW r \in Requests, Orderly, IInv, MInv, Open(r) \/ Lookup(r) \/ SaveFails(r)
  PROVE  MInv'
  <1> USE DEF MInv
  <1>1. TypeOK /\ PastReports
    BY DEF IInv
  <1>2. CASE Open(r)
    BY <1>1, <1>2
    DEF TypeOK, Open, Locked, ClaimsMatchTokens, PageFirst, SavedCounts,
        AcknowledgedReviewKept, SubmittedOnce, Requests
  <1>3. CASE Lookup(r)
    <2>1. \A q, p \in Requests : pc'[q] = "read" /\ pc'[p] = "read" => q = p
      BY DEF Orderly
    <2>2. Locked' /\ ClaimsMatchTokens'
      BY <1>1, <1>3, <2>1 DEF TypeOK, Lookup, Locked, ClaimsMatchTokens
    <2>3. PageFirst'
      BY <1>1, <1>3 DEF TypeOK, Lookup, PageFirst, PastReports, ClaimsMatchTokens
    <2>4. \A q \in Requests : pc'[q] = "saved" => pc[q] = "saved" /\ seen'[q] = seen[q]
      BY <1>1, <1>3 DEF TypeOK, Lookup
    <2> QED
      BY <1>3, <2>2, <2>3, <2>4
      DEF Lookup, SavedCounts, AcknowledgedReviewKept, SubmittedOnce, Requests
  <1>4. CASE SaveFails(r)
    BY <1>1, <1>4
    DEF TypeOK, SaveFails, Locked, ClaimsMatchTokens, PageFirst, SavedCounts,
        AcknowledgedReviewKept, SubmittedOnce, Requests
  <1> QED
    BY <1>2, <1>3, <1>4

\* A write of either kind of review, of which it is the first for its report.
LEMMA ReviewMInv ==
  ASSUME NEW q \in Reviewers, IInv, MInv,
         pc[q] = "read", pc' = [pc EXCEPT ![q] = "saved"], claims' = Patched(q),
         submitted' = submitted \cup {Role(q)}, UNCHANGED <<report, held, seen>>
  PROVE  MInv'
  <1> USE DEF MInv
  <1>1. q \in Requests /\ TypeOK /\ PastReports /\ ReadsAreFair
    BY DEF IInv, Requests
  <1>2. /\ seen[q].claims = claims /\ seen[q].submitted = submitted
        /\ Role(q) \notin submitted
        /\ \A r \in Requests : pc'[r] # "read"
    BY <1>1 DEF Locked, TypeOK, ReadsAreFair
  <1>3. claims'.report = report /\ claims.report = report
    BY <1>1, <1>2, PatchedClaims DEF ClaimsMatchTokens
  <1>4. Locked' /\ ClaimsMatchTokens' /\ PageFirst'
    BY <1>1, <1>2, <1>3 DEF Locked, ClaimsMatchTokens, PageFirst, TypeOK
  <1>5. SavedCounts'
    BY <1>1 DEF SavedCounts, TypeOK
  \* An earlier submission of the same role was for an earlier report.
  <1>6. ASSUME NEW r \in Reviewers, pc[r] = "saved", Role(r) = Role(q)
        PROVE  seen[r].claims.report # report
    BY <1>2, <1>6 DEF SavedCounts
  <1>7. AcknowledgedReviewKept'
    <2> SUFFICES ASSUME NEW r \in Reviewers, pc'[r] = "saved", held[r] = report
                 PROVE  claims'.marks[Role(r)] = r
      BY <1>3 DEF AcknowledgedReviewKept
    <2>1. CASE r = q
      BY <1>1, <1>2, <1>3, <2>1, PatchedClaims
    <2>2. CASE r # q
      <3>1. r \in Requests /\ pc[r] = "saved"
        BY <1>1, <2>2 DEF TypeOK, Requests
      <3>2. claims.marks[Role(r)] = r
        BY <1>3, <3>1 DEF AcknowledgedReviewKept
      <3>3. held[r] <= seen[r].claims.report /\ seen[r].claims.report <= report
        BY <3>1, <1>1 DEF PageFirst, PastReports
      <3>4. seen[r].claims.report \in Nat /\ report \in Nat
        BY <3>1, <1>1, MaxReportsAssumption DEF TypeOK, Claims, MaxReportsAssumption
      <3>5. seen[r].claims.report = report
        BY <3>3, <3>4
      <3>6. Role(r) \in Roles \ {Role(q)}
        BY <1>6, <3>1, <3>5, RoleOf
      <3>7. \A role \in Roles \ {Role(q)} : Patched(q).marks[role] = seen[q].claims.marks[role]
        BY <1>1, PatchedClaims
      <3> QED
        BY <1>2, <3>2, <3>6, <3>7
    <2> QED
      BY <2>1, <2>2
  <1>8. SubmittedOnce'
    <2>1. seen[q].claims.report = report
      BY <1>2, <1>3
    <2>2. \A r \in Reviewers \ {q} : pc'[r] = pc[r]
      BY <1>1 DEF TypeOK, Requests
    <2> QED
      BY <1>6, <2>1, <2>2 DEF SubmittedOnce
  <1> QED
    BY <1>4, <1>5, <1>7, <1>8

\* An administrator's write keeps it.
LEMMA AdminMInv ==
  ASSUME NEW a \in Admins, IInv, MInv, SaveAdminClaimFlags(a)
  PROVE  MInv'
  <1> USE DEF MInv, SaveAdminClaimFlags
  <1>1. a \in Requests /\ a \notin Reviewers /\ TypeOK /\ Role(a) = "admin"
    BY RoleOf, RolesAssumption DEF IInv, Requests, Reviewers, RolesAssumption
  <1>2. seen[a].claims = claims /\ \A r \in Requests : pc'[r] # "read"
    BY <1>1 DEF Locked, TypeOK
  <1>3. claims'.report = report /\ claims.report = report
    BY <1>1, <1>2, PatchedClaims DEF ClaimsMatchTokens
  <1>4. \A r \in Reviewers : pc'[r] = pc[r] /\ Role(r) \in Roles \ {"admin"}
    BY <1>1, RoleOf DEF TypeOK, Requests, Reviewers, Roles
  <1>5. \A role \in Roles \ {Role(a)} : Patched(a).marks[role] = seen[a].claims.marks[role]
    BY <1>1, PatchedClaims
  <1>6. AcknowledgedReviewKept'
    BY <1>1, <1>2, <1>3, <1>4, <1>5 DEF AcknowledgedReviewKept
  <1>7. Locked' /\ ClaimsMatchTokens'
    BY <1>2, <1>3 DEF Locked, ClaimsMatchTokens
  <1>8. PageFirst'
    BY <1>1 DEF PageFirst, TypeOK
  <1>9. SavedCounts' /\ SubmittedOnce'
    BY <1>4 DEF SavedCounts, SubmittedOnce
  <1> QED
    BY <1>6, <1>7, <1>8, <1>9

\* A new report keeps it: no request is under way, and all pages are older.
LEMMA SaveReportMInv ==
  ASSUME Orderly, IInv, MInv, SaveReport
  PROVE  MInv'
  <1> USE DEF MInv, SaveReport
  <1>1. \A r \in Requests : pc[r] # "read"
    BY MaxReportsAssumption DEF Orderly, IInv, TypeOK, MaxReportsAssumption
  <1>2. claims'.report = report + 1
    BY DEF Unmarked
  <1>3. \A r \in Requests : held[r] # report + 1 /\ seen[r].claims.report # report + 1
    BY MaxReportsAssumption
    DEF IInv, TypeOK, PastReports, Claims, MaxReportsAssumption
  <1> QED
    BY <1>1, <1>2, <1>3
    DEF Locked, ClaimsMatchTokens, PageFirst, SavedCounts, AcknowledgedReviewKept,
        SubmittedOnce, Requests

\* The invariant is inductive over orderly steps.
LEMMA NextMInv == Orderly /\ IInv /\ MInv /\ [Next]_vars => MInv'
  <1> SUFFICES ASSUME Orderly, IInv, MInv, [Next]_vars PROVE MInv'
    OBVIOUS
  <1>1. ASSUME NEW e \in Experts, SaveExpertReview(e) PROVE MInv'
    <2>1. e \in Reviewers /\ Role(e) = "expert"
      BY RoleOf DEF Reviewers
    <2> QED
      BY <1>1, <2>1, ReviewMInv DEF SaveExpertReview
  <1>2. ASSUME NEW s \in Supervisors, SaveSupervisorReview(s) PROVE MInv'
    <2>1. s \in Reviewers /\ Role(s) = "supervisor"
      BY RoleOf DEF Reviewers
    <2> QED
      BY <1>2, <2>1, ReviewMInv DEF SaveSupervisorReview
  <1>3. CASE UNCHANGED vars
    BY <1>3 DEF vars, MInv, Locked, ClaimsMatchTokens, PageFirst, SavedCounts,
                AcknowledgedReviewKept, SubmittedOnce
  <1> QED
    BY <1>1, <1>2, <1>3, ReadingMInv, AdminMInv, SaveReportMInv DEF Next

\* The lock makes every step of the in-memory adapter orderly.
LEMMA MemoryIsOrderly == Memory /\ IInv /\ MInv /\ [Next]_vars => Orderly
  <1> SUFFICES ASSUME Memory, TypeOK, Locked, [Next]_vars PROVE Orderly
    BY DEF IInv, MInv
  <1> USE DEF Memory, TypeOK, Locked, Orderly
  <1>1. ASSUME NEW r \in Requests, Open(r) \/ SaveFails(r) PROVE Orderly
    BY <1>1 DEF Open, SaveFails
  <1>2. ASSUME NEW r \in Requests, Lookup(r) PROVE Orderly
    BY <1>2 DEF Lookup, LockFree
  <1>3. ASSUME NEW r \in Requests, UNCHANGED report, pc' = [pc EXCEPT ![r] = "saved"]
        PROVE  Orderly
    BY <1>3
  <1>4. CASE SaveReport
    BY <1>4 DEF SaveReport, LockFree
  <1>5. CASE UNCHANGED vars
    BY <1>5 DEF vars
  <1> QED
    BY <1>1, <1>2, <1>3, <1>4, <1>5
    DEF Next, SaveExpertReview, SaveSupervisorReview, SaveAdminClaimFlags, Requests, Reviewers

\* The invariant holds throughout: in memory always, and in any behaviour all
\* of whose steps are orderly.
LEMMA SpecOrderlyMInv == Spec /\ [][Orderly]_vars => []MInv
  <1>1. IInv /\ MInv /\ [Next]_vars /\ [Orderly]_vars => MInv'
    <2>1. CASE UNCHANGED vars
      BY <2>1 DEF vars, MInv, Locked, ClaimsMatchTokens, PageFirst, SavedCounts,
                  AcknowledgedReviewKept, SubmittedOnce
    <2> QED
      BY <2>1, NextMInv
  <1> QED
    BY <1>1, InitMInv, SpecIInv, PTL DEF Spec

LEMMA SpecMInv == Memory => (Spec => []MInv)
  <1> SUFFICES ASSUME Memory PROVE Spec => []MInv
    OBVIOUS
  <1>1. IInv /\ MInv /\ [Next]_vars => MInv'
    BY NextMInv, MemoryIsOrderly
  <1> QED
    BY <1>1, InitMInv, SpecIInv, PTL DEF Spec

\* In memory, a review that was acknowledged is never lost from its claims.
THEOREM MemoryKeepsReviews == Memory => (Spec => []AcknowledgedReviewKept)
  <1> SUFFICES ASSUME Memory PROVE Spec => []AcknowledgedReviewKept
    OBVIOUS
  <1>1. MInv => AcknowledgedReviewKept
    BY DEF MInv
  <1> QED
    BY <1>1, SpecMInv, PTL

\* In memory, the claims and the links of a session are of one report: a patch
\* never brings back the claims of a report that was replaced.
THEOREM MemoryClaimsMatch == Memory => (Spec => []ClaimsMatchTokens)
  <1> SUFFICES ASSUME Memory PROVE Spec => []ClaimsMatchTokens
    OBVIOUS
  <1>1. MInv => ClaimsMatchTokens
    BY DEF MInv
  <1> QED
    BY <1>1, SpecMInv, PTL

\* In memory, no report takes two submissions of one role.
THEOREM MemorySubmitsOnce == Memory => (Spec => []SubmittedOnce)
  <1> SUFFICES ASSUME Memory PROVE Spec => []SubmittedOnce
    OBVIOUS
  <1>1. MInv => SubmittedOnce
    BY DEF MInv
  <1> QED
    BY <1>1, SpecMInv, PTL

\* A write whose read still stands is one step of the abstract review.  (A new
\* report is one in memory; the Postgres adapter leaves the stamps of the old.)
LEMMA ContractStep ==
  (Memory \/ report' = report) /\ IInv /\ MInv /\ [Next]_vars
     => [Contract!Next]_(Contract!reviewVars)
  <1> SUFFICES ASSUME Memory \/ report' = report, IInv, MInv, [Next]_vars
               PROVE  [Contract!Next]_(Contract!reviewVars)
    OBVIOUS
  <1> USE DEF Contract!Next, Contract!reviewVars
  <1>1. ASSUME NEW r \in Requests, Open(r) \/ Lookup(r) \/ SaveFails(r)
        PROVE  [Contract!Next]_(Contract!reviewVars)
    BY <1>1 DEF Open, Lookup, SaveFails
  <1>2. ASSUME NEW r \in Requests, pc[r] = "read", claims' = Patched(r)
        PROVE  /\ seen[r].submitted = submitted /\ Role(r) \notin submitted
               /\ \/ claims'.marks = claims.marks
                  \/ claims'.marks = [claims.marks EXCEPT ![Role(r)] = r]
    <2>1. TypeOK /\ ReadsAreFair /\ Locked
      BY DEF IInv, MInv
    <2>2. seen[r].claims = claims /\ seen[r].submitted = submitted
      BY <1>2, <2>1 DEF Locked
    <2> QED
      BY <1>2, <2>1, <2>2, PatchedClaims DEF ReadsAreFair
  <1>3. ASSUME NEW e \in Experts, SaveExpertReview(e) PROVE Contract!ExpertSubmits
    <2>1. e \in Requests /\ Role(e) = "expert"
      BY RoleOf DEF Requests, Reviewers
    <2> QED
      BY <1>2, <1>3, <2>1 DEF SaveExpertReview, Contract!ExpertSubmits, Contract!Patch
  <1>4. ASSUME NEW s \in Supervisors, SaveSupervisorReview(s)
        PROVE  Contract!SupervisorSubmits
    <2>1. s \in Requests /\ Role(s) = "supervisor"
      BY RoleOf DEF Requests, Reviewers
    <2> QED
      BY <1>2, <1>4, <2>1 DEF SaveSupervisorReview, Contract!SupervisorSubmits, Contract!Patch
  <1>5. ASSUME NEW a \in Admins, SaveAdminClaimFlags(a) PROVE Contract!AdminFlags
    <2>1. a \in Requests /\ Role(a) = "admin"
      BY RoleOf DEF Requests
    <2> QED
      BY <1>2, <1>5, <2>1 DEF SaveAdminClaimFlags, Contract!AdminFlags, Contract!Patch
  <1>6. CASE SaveReport
    <2>1. Memory
      BY <1>6, MaxReportsAssumption DEF SaveReport, IInv, TypeOK, MaxReportsAssumption
    <2> QED
      BY <1>6, <2>1 DEF SaveReport, Memory, Unmarked, Roles, Contract!NewReport, Contract!NoMarks
  <1>7. CASE UNCHANGED vars
    BY <1>7 DEF vars
  <1> QED
    BY <1>1, <1>3, <1>4, <1>5, <1>6, <1>7 DEF Next

\* The in-memory adapter implements AtomicReviews.
THEOREM MemoryImplementsContract == Memory => (Spec => ReviewsAreAtomic)
  <1> SUFFICES ASSUME Memory PROVE Spec => ReviewsAreAtomic
    OBVIOUS
  <1>1. Init => Contract!Init
    BY DEF Init, Unmarked, Roles, Contract!Init, Contract!NoMarks
  <1>2. IInv /\ MInv /\ [Next]_vars => [Contract!Next]_(Contract!reviewVars)
    BY ContractStep
  <1> QED
    BY <1>1, <1>2, SpecIInv, SpecMInv, PTL DEF Spec, ReviewsAreAtomic, Contract!Spec

-----------------------------------------------------------------------------
(* The Postgres adapter while its requests do not overlap.                 *)

\* Over either adapter, and however often the report is replaced: in a behaviour
\* without overlaps no acknowledged review is lost from its claims, no report takes
\* two submissions of one role, and the claims are those of the links.  So whatever
\* goes wrong with them over Postgres takes two requests, or a request and a new
\* report, between a SELECT and its UPDATE.
THEOREM OrderlyKeepsReviews ==
  Spec /\ [][Orderly]_vars => [](AcknowledgedReviewKept /\ SubmittedOnce /\ ClaimsMatchTokens)
  <1>1. MInv => AcknowledgedReviewKept /\ SubmittedOnce /\ ClaimsMatchTokens
    BY DEF MInv
  <1> QED
    BY <1>1, SpecOrderlyMInv, PTL

\* Without overlaps the Postgres adapter too implements AtomicReviews, for as long
\* as the session keeps its report.
THEOREM OrderlyImplementsContract ==
  Spec /\ [][Orderly /\ report' = report]_vars => ReviewsAreAtomic
  <1>1. Init => Contract!Init
    BY DEF Init, Unmarked, Roles, Contract!Init, Contract!NoMarks
  <1>2. /\ IInv /\ MInv /\ [Next]_vars /\ [Orderly /\ report' = report]_vars
        => [Contract!Next]_(Contract!reviewVars)
    <2>1. CASE UNCHANGED vars
      BY <2>1 DEF vars, Contract!reviewVars
    <2> QED
      BY <2>1, ContractStep
  <1>3. [Orderly /\ report' = report]_vars => [Orderly]_vars
    OBVIOUS
  <1> QED
    BY <1>1, <1>2, <1>3, SpecIInv, SpecOrderlyMInv, PTL DEF Spec, ReviewsAreAtomic, Contract!Spec

-----------------------------------------------------------------------------
(* What overlapping requests cannot do.                                    *)

\* Every patch in these claims is of an acknowledged request of its role, made
\* from the page of these very claims.
Genuine(c) ==
  \A role \in Roles :
    LET patch == c.marks[role]
    IN  patch # NoOne => /\ patch \in Requests
                         /\ pc[patch] = "saved"
                         /\ Role(patch) = role
                         /\ held[patch] = c.report

\* The claims of the row are, and every role that counts as having submitted has
\* had a submission acknowledged.
ReviewsAreGenuine ==
  /\ Genuine(claims)
  /\ \A role \in submitted : \E r \in Reviewers : Role(r) = role /\ pc[r] = "saved"

ReadsAreGenuine == \A r \in Requests : Genuine(seen[r].claims)

\* A merge takes what was read and adds the patch of the request that writes it.
LEMMA MergeIsGenuine ==
  ASSUME NEW r \in Requests, TypeOK, Genuine(seen[r].claims), pc[r] = "read",
         pc' = [pc EXCEPT ![r] = "saved"], claims' = Patched(r), UNCHANGED held
  PROVE  Genuine(claims)'
  <1> SUFFICES ASSUME NEW role \in Roles, claims'.marks[role] # NoOne
               PROVE  LET patch == claims'.marks[role]
                      IN  /\ patch \in Requests /\ pc'[patch] = "saved"
                          /\ Role(patch) = role /\ held[patch] = claims'.report
    BY DEF Genuine
  <1>1. claims'.report = seen[r].claims.report
    BY PatchedClaims
  <1>2. CASE claims'.marks[role] = seen[r].claims.marks[role]
    BY <1>1, <1>2 DEF Genuine, TypeOK
  <1>3. CASE claims'.marks[role] # seen[r].claims.marks[role]
    <2>1. role = Role(r) /\ held[r] = seen[r].claims.report
      BY <1>3, PatchedClaims DEF Patched
    <2>2. claims'.marks[role] = r
      BY <2>1, PatchedClaims
    <2> QED
      BY <1>1, <2>1, <2>2 DEF TypeOK
  <1> QED
    BY <1>2, <1>3

\* An acknowledged request keeps its page and its acknowledgement.
LEMMA StaysGenuine ==
  ASSUME NEW c, Genuine(c),
         \A r \in Requests : pc[r] = "saved" => pc'[r] = "saved" /\ held'[r] = held[r]
  PROVE  \A role \in Roles :
           c.marks[role] # NoOne => /\ c.marks[role] \in Requests
                                    /\ pc'[c.marks[role]] = "saved"
                                    /\ Role(c.marks[role]) = role
                                    /\ held'[c.marks[role]] = c.report
  BY DEF Genuine

LEMMA GenuineStep ==
  TypeOK /\ ReviewsAreGenuine /\ ReadsAreGenuine /\ [Next]_vars
     => ReviewsAreGenuine' /\ ReadsAreGenuine'
  <1> SUFFICES ASSUME TypeOK, ReviewsAreGenuine, ReadsAreGenuine, [Next]_vars
               PROVE  ReviewsAreGenuine' /\ ReadsAreGenuine'
    OBVIOUS
  <1>1. \A r \in Requests : pc[r] = "saved" => pc'[r] = "saved" /\ held'[r] = held[r]
    BY DEF TypeOK, Next, vars, Open, Lookup, SaveFails, SaveExpertReview, SaveSupervisorReview,
           SaveAdminClaimFlags, SaveReport, Requests, Reviewers
  <1>2. ReadsAreGenuine'
    <2>1. \A r \in Requests : seen'[r].claims \in {seen[r].claims, claims}
      BY DEF TypeOK, Next, vars, Open, Lookup, SaveFails, SaveExpertReview,
             SaveSupervisorReview, SaveAdminClaimFlags, SaveReport, row
    <2>2. ASSUME NEW r \in Requests PROVE Genuine(seen[r].claims)'
      <3>1. Genuine(seen'[r].claims)
        BY <2>1 DEF ReadsAreGenuine, ReviewsAreGenuine
      <3> QED
        BY <1>1, <3>1, StaysGenuine DEF Genuine
    <2> QED
      BY <2>2 DEF ReadsAreGenuine
  <1>3. Genuine(claims)'
    <2>1. CASE UNCHANGED claims
      BY <1>1, <2>1, StaysGenuine DEF ReviewsAreGenuine, Genuine
    <2>2. ASSUME NEW r \in Requests, pc[r] = "read", pc' = [pc EXCEPT ![r] = "saved"],
                 claims' = Patched(r), UNCHANGED held
          PROVE  Genuine(claims)'
      BY <2>2, MergeIsGenuine DEF ReadsAreGenuine
    <2>3. CASE SaveReport
      BY <2>3 DEF SaveReport, Unmarked, Genuine
    <2> QED
      BY <2>1, <2>2, <2>3
      DEF Next, vars, row, Open, Lookup, SaveFails, SaveExpertReview, SaveSupervisorReview,
          SaveAdminClaimFlags, Requests, Reviewers
  <1>4. \A role \in submitted' : \E r \in Reviewers : Role(r) = role /\ pc'[r] = "saved"
    <2>1. CASE submitted' \subseteq submitted
      BY <1>1, <2>1 DEF ReviewsAreGenuine, Requests
    <2>2. ASSUME NEW r \in Reviewers, pc' = [pc EXCEPT ![r] = "saved"],
                 submitted' = submitted \cup {Role(r)}
          PROVE  \A role \in submitted' : \E q \in Reviewers : Role(q) = role /\ pc'[q] = "saved"
      BY <1>1, <2>2 DEF ReviewsAreGenuine, Requests, TypeOK
    <2>3. CASE \E e \in Experts : SaveExpertReview(e)
      BY <2>2, <2>3, RoleOf DEF SaveExpertReview, Reviewers
    <2>4. CASE \E s \in Supervisors : SaveSupervisorReview(s)
      BY <2>2, <2>4, RoleOf DEF SaveSupervisorReview, Reviewers
    <2> QED
      BY <2>1, <2>3, <2>4
      DEF Next, vars, row, Open, Lookup, SaveFails, SaveAdminClaimFlags, SaveReport
  <1> QED
    BY <1>2, <1>3, <1>4 DEF ReviewsAreGenuine

\* Over either adapter, however requests overlap and reports are replaced: the
\* claims carry no patch that was not acknowledged, none of another role, and none
\* made for the claims of another report; and no role counts as having submitted
\* that has not.  An overlap may lose a review, it never makes one up.
THEOREM PatchesAreGenuine == Spec => []ReviewsAreGenuine
  <1>1. Init => ReviewsAreGenuine /\ ReadsAreGenuine
    BY DEF Init, ReviewsAreGenuine, ReadsAreGenuine, Genuine, Unmarked
  <1>2. IInv => TypeOK
    BY DEF IInv
  <1> QED
    BY <1>1, <1>2, GenuineStep, SpecIInv, PTL DEF Spec
=============================================================================
