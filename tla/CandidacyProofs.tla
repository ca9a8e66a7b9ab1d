--------------------------- MODULE CandidacyProofs --------------------------
(***************************************************************************)
(* Theorems about candidates and their restrictions, for every set of      *)
(* candidates and requests.                                                *)
(*                                                                         *)
(* Over Postgres a restriction is in the row before it is in the audit     *)
(* log.  The invariant that explains the row (Explains) therefore says     *)
(* what a request between its two statements has already done to it, and   *)
(* that it is the only one there.  For the check of eligibility, CheckInv  *)
(* carries what the later reads still need: a check that has noted the     *)
(* time either has met a moment at which its candidate was eligible, or    *)
(* will find a session that blocks.  At the end: over the in-memory        *)
(* adapter the log explains every row at every moment, and over either the *)
(* log is only appended to and no candidate is deleted or renamed.         *)
(***************************************************************************)
EXTENDS Candidacy, TLAPS

\* Where a request can be, and over which adapter.
Placed(r) ==
  /\ pc[r] \in {"insert", "audit", "clock", "row", "sessions"} => adapter = "postgres"
  /\ pc[r] = "audit" => op[r].kind \in Restrictions
  /\ pc[r] \in {"insert", "create"} => op[r].kind \in {"intake", "trigger"}
  /\ pc[r] \in {"clock", "row", "sessions"} => op[r].kind = "check" /\ seen[r].days > 0
  /\ pc[r] \in {"row", "sessions"} => seen[r].at <= now
  /\ pc[r] = "save" => op[r].kind = "patch"
  /\ answer[r] # "none" => pc[r] = "done"
  /\ op[r].kind = "revoke" => op[r].until = 0
  /\ op[r].kind = "settings" => op[r].days \in Days
  /\ op[r].kind = "grant" /\ pc[r] = "begun" => op[r].until > now

Places == \A r \in Requests : Placed(r)

-----------------------------------------------------------------------------

USE EmailsAssumption, NamesAssumption, DaysAssumption, MaxNowAssumption,
    DefaultFlagAssumption

\* What an operation is.
LEMMA AskType ==
  ASSUME NEW k \in Kinds, NEW e \in Emails, NEW n \in Names \union {NoName},
         NEW b \in BOOLEAN, NEW u \in Nat, NEW d \in Nat
  PROVE  /\ Ask(k, e, n, b, u, d) \in [kind : Kinds, email : Emails,
                                       name : Names \union {NoName},
                                       on : BOOLEAN, until : Nat, days : Nat]
         /\ Ask(k, e, n, b, u, d).kind = k
         /\ Ask(k, e, n, b, u, d).until = u
         /\ Ask(k, e, n, b, u, d).days = d
BY DEF Ask

\* What a request that arrives asks for.
LEMMA ArrivesAsks ==
  ASSUME TypeOK, NEW r \in Requests, Arrives(r)
  PROVE  \E k \in Kinds, e \in Emails, n \in Names \union {NoName}, b \in BOOLEAN,
            u \in Nat, d \in Nat :
           /\ Asks(r, Ask(k, e, n, b, u, d))
           /\ k = "revoke" => u = 0
           /\ k = "grant" => u > now
           /\ k = "settings" => d \in Days
<1>1. Someone \in Emails /\ now \in Nat
  BY DEF Someone, TypeOK
<1>2. \A d \in Days : now + d \in Nat /\ now + d > now
  BY <1>1
<1>3. QED BY <1>1, <1>2 DEF Arrives, Kinds

LEMMA InitType == Init => TypeOK /\ Places
<1> SUFFICES ASSUME Init PROVE TypeOK /\ Places
  OBVIOUS
<1>1. /\ NoOp \in [kind : Kinds, email : Emails, name : Names \union {NoName},
                   on : BOOLEAN, until : Nat, days : Nat]
      /\ NoOp.kind = "none"
  <2>1. Someone \in Emails
    BY DEF Someone
  <2>2. QED BY <2>1 DEF NoOp, Ask, Kinds
<1>2. TypeOK
  <2>1. /\ NothingSeen \in [days : Nat, at : Nat, name : Names \union {NoName}]
        /\ 1 \in 1..MaxNow /\ {} \in SUBSET BOOLEAN
    BY DEF NothingSeen
  <2>2. audit = <<>> => audit \in Seq(AuditEntry)
    OBVIOUS
  <2>3. QED BY <1>1, <2>1, <2>2 DEF Init, TypeOK
<1>3. Places
  BY <1>1 DEF Init, Places, Placed
<1>4. QED BY <1>2, <1>3

\* The history that every step extends.
LEMMA WatchType == ASSUME TypeOK, Watch PROVE fit' \in [Requests -> BOOLEAN]
BY DEF TypeOK, Watch

Points == {"none", "begun", "insert", "create", "audit", "clock", "row", "sessions", "save",
           "done", "failed"}

LEMMA AppendType == ASSUME NEW S, NEW s \in Seq(S), NEW x \in S PROVE Append(s, x) \in Seq(S)
OBVIOUS

\* One request moves, and answers.
LEMMA ToMoves ==
  ASSUME TypeOK, NEW r \in Requests, NEW p \in Points, To(r, p)
  PROVE  /\ pc' \in [Requests -> Points] /\ pc'[r] = p
         /\ \A q \in Requests \ {r} : pc'[q] = pc[q]
BY DEF TypeOK, To, Points

LEMMA AnswersMoves ==
  ASSUME TypeOK, NEW r \in Requests, NEW a \in {"none", "eligible", "blocked", "ok"},
         Answers(r, a)
  PROVE  /\ pc' \in [Requests -> Points] /\ pc'[r] = "done"
         /\ answer' \in [Requests -> {"none", "eligible", "blocked", "ok"}] /\ answer'[r] = a
         /\ \A q \in Requests \ {r} : pc'[q] = pc[q] /\ answer'[q] = answer[q]
BY DEF TypeOK, To, Points, Answers

\* Notes of a check, field by field.
LEMMA SeenMoves ==
  ASSUME TypeOK, NEW r \in Requests, NEW n \in Names \union {NoName}, NEW t \in Nat,
         \/ seen' = [seen EXCEPT ![r].name = n]
         \/ seen' = [seen EXCEPT ![r].days = t]
         \/ seen' = [seen EXCEPT ![r].at = t]
  PROVE  /\ seen' \in [Requests -> [days : Nat, at : Nat, name : Names \union {NoName}]]
         /\ \A q \in Requests \ {r} : seen'[q] = seen[q]
<1> DEFINE S == [days : Nat, at : Nat, name : Names \union {NoName}]
<1>1. seen \in [Requests -> S]
  BY DEF TypeOK
<1>2. PICK x \in S : seen' = [seen EXCEPT ![r] = x]
  <2>1. seen[r] \in S
    BY <1>1
  <2> DEFINE y == seen[r]
  <2>2. \/ seen' = [seen EXCEPT ![r] = [y EXCEPT !.name = n]]
        \/ seen' = [seen EXCEPT ![r] = [y EXCEPT !.days = t]]
        \/ seen' = [seen EXCEPT ![r] = [y EXCEPT !.at = t]]
    OBVIOUS
  <2> HIDE DEF y
  <2>3. y \in S
    BY <2>1 DEF y
  <2>4. [y EXCEPT !.name = n] \in S /\ [y EXCEPT !.days = t] \in S /\ [y EXCEPT !.at = t] \in S
    BY <2>3
  <2>5. QED BY <2>2, <2>4
<1> HIDE DEF S
<1>3. seen' \in [Requests -> S] /\ \A q \in Requests \ {r} : seen'[q] = seen[q]
  BY <1>1, <1>2
<1>4. QED BY <1>3 DEF S

\* A step of one request leaves the others where they are.
LEMMA OthersPlaced ==
  ASSUME Places, NEW r \in Requests, Placed(r)', UNCHANGED <<adapter, now>>,
         \A q \in Requests \ {r} : /\ pc'[q] = pc[q] /\ op'[q] = op[q]
                                   /\ seen'[q] = seen[q] /\ answer'[q] = answer[q]
  PROVE  Places'
BY DEF Places, Placed

\* The variables keep their types.
LEMMA TypeStep == ASSUME TypeOK, Places, [Next]_vars PROVE TypeOK'
<1>0. UNCHANGED vars => TypeOK'
  BY DEF vars, TypeOK, rows, calls, site, mine
<1> SUFFICES ASSUME Next PROVE TypeOK'
  BY <1>0
<1>1. fit' \in [Requests -> BOOLEAN]
  BY WatchType DEF Next
<1>2. ASSUME NEW r \in Requests PROVE /\ op[r].email \in Emails /\ op[r].until \in Nat
                                       /\ op[r].on \in BOOLEAN /\ op[r].days \in Nat
                                       /\ op[r].name \in Names \union {NoName}
  BY DEF TypeOK
<1>3. ASSUME NEW r \in Requests, Arrives(r) PROVE TypeOK'
  <2>1. PICK k \in Kinds, e \in Emails, n \in Names \union {NoName}, b \in BOOLEAN,
             u \in Nat, d \in Nat : Asks(r, Ask(k, e, n, b, u, d))
    BY <1>3, ArrivesAsks
  <2>2. Ask(k, e, n, b, u, d) \in [kind : Kinds, email : Emails, name : Names \union {NoName},
                                  on : BOOLEAN, until : Nat, days : Nat]
    BY AskType
  <2>3. op' \in [Requests -> [kind : Kinds, email : Emails, name : Names \union {NoName},
                             on : BOOLEAN, until : Nat, days : Nat]]
    BY <2>1, <2>2 DEF Asks, TypeOK
  <2>4. pc' \in [Requests -> Points]
    BY <1>3, ToMoves DEF Arrives, Points
  <2>5. QED BY <1>1, <1>3, <2>3, <2>4 DEF Arrives, rows, calls, site, TypeOK, Points
<1>4. ASSUME NEW r \in Requests, FindCandidate(r) \/ InsertCandidate(r) \/ GetOrCreate(r)
      PROVE  TypeOK'
  <2>1. PICK n \in Names \union {NoName} :
           Returned(r, n) \/ (UNCHANGED <<seen, answer>> /\ \E p \in Points : To(r, p))
    BY <1>2, <1>4 DEF FindCandidate, InsertCandidate, GetOrCreate, TypeOK, Points
  <2>2. seen' \in [Requests -> [days : Nat, at : Nat, name : Names \union {NoName}]]
    <3>1. CASE seen' = seen
      BY <3>1 DEF TypeOK
    <3>2. CASE seen' = [seen EXCEPT ![r].name = n]
      BY <3>2, SeenMoves, 0 \in Nat
    <3>3. QED BY <2>1, <3>1, <3>2 DEF Returned
  <2>3. /\ pc' \in [Requests -> Points]
        /\ answer' \in [Requests -> {"none", "eligible", "blocked", "ok"}]
    BY <2>1, ToMoves, AnswersMoves DEF Returned, Points, TypeOK
  <2>4. /\ known' \subseteq Emails /\ name' \in [Emails -> Names \union {NoName}]
        /\ UNCHANGED <<adapter, now, free, until, audit, calls, site, op, torn>>
    BY <1>2, <1>4 DEF FindCandidate, InsertCandidate, GetOrCreate, Stored, rows, TypeOK
  <2>5. QED BY <1>1, <2>2, <2>3, <2>4 DEF calls, site, TypeOK, Points
<1>5. ASSUME NEW r \in Requests, CreateSession(r) PROVE TypeOK'
  <2>1. /\ pc' \in [Requests -> Points]
        /\ answer' \in [Requests -> {"none", "eligible", "blocked", "ok"}]
    BY <1>5, AnswersMoves DEF CreateSession
  <2>2. open' \in [Emails -> Nat]
    BY <1>2, <1>5 DEF CreateSession, TypeOK
  <2>3. QED BY <1>1, <1>5, <2>1, <2>2 DEF CreateSession, rows, site, TypeOK, Points
<1>6. ASSUME NEW e \in Emails, SessionCounts(e) PROVE TypeOK'
  <2>1. open' \in [Emails -> Nat]
    BY <1>6 DEF SessionCounts, TypeOK
  <2>2. ended' \in [Emails -> SUBSET (1..MaxNow)]
    BY <1>6 DEF SessionCounts, TypeOK
  <2>3. QED BY <1>1, <1>6, <2>1, <2>2 DEF SessionCounts, rows, site, mine, TypeOK
<1>7. ASSUME NEW r \in Requests, UpdateRow(r) \/ InsertAudit(r) \/ Restrict(r) PROVE TypeOK'
  <2>1. until' \in [Emails -> Nat] /\ free' \in [Emails -> BOOLEAN]
    BY <1>2, <1>7 DEF UpdateRow, InsertAudit, Restrict, Applied, TypeOK
  <2>3. Entry(op[r]) \in AuditEntry
    <3>1. op[r].kind \in Restrictions
      BY <1>7 DEF UpdateRow, InsertAudit, Restrict, Places, Placed
    <3>2. QED BY <1>2, <3>1 DEF Entry, AuditEntry
  <2>4. audit' \in Seq(AuditEntry)
    <3>1. audit \in Seq(AuditEntry)
      BY DEF TypeOK
    <3>2. audit' = audit \/ audit' = Append(audit, Entry(op[r]))
      BY <1>7 DEF UpdateRow, InsertAudit, Restrict
    <3>3. QED BY <2>3, <3>1, <3>2, AppendType
  <2>5. /\ pc' \in [Requests -> Points]
        /\ answer' \in [Requests -> {"none", "eligible", "blocked", "ok"}]
    <3>1. CASE UpdateRow(r)
      BY <3>1, ToMoves DEF UpdateRow, mine, TypeOK, Points
    <3>2. CASE InsertAudit(r)
      BY <3>2, ToMoves, AnswersMoves DEF InsertAudit, TypeOK, Points
    <3>3. CASE Restrict(r)
      BY <3>3, AnswersMoves DEF Restrict
    <3>4. QED BY <1>7, <3>1, <3>2, <3>3
  <2>6. /\ UNCHANGED <<adapter, now, known, name, calls, site, op, seen>>
        /\ torn' \subseteq Emails
    BY <1>2, <1>7 DEF UpdateRow, InsertAudit, Restrict, mine, TypeOK
  <2>7. QED BY <1>1, <2>1, <2>4, <2>5, <2>6 DEF calls, site, TypeOK, Points
<1>8. ASSUME NEW r \in Requests, ReadSettings(r) \/ NoteTime(r) PROVE TypeOK'
  <2>1. cooldown \in Nat /\ now \in Nat
    BY DEF TypeOK
  <2>2. seen' \in [Requests -> [days : Nat, at : Nat, name : Names \union {NoName}]]
    BY <1>8, <2>1, SeenMoves DEF ReadSettings, NoteTime
  <2>3. pc' \in [Requests -> Points]
    BY <1>8, ToMoves DEF ReadSettings, NoteTime, Points
  <2>4. QED BY <1>1, <1>8, <2>2, <2>3 DEF ReadSettings, NoteTime, rows, calls, site, TypeOK, Points
<1>9. ASSUME NEW r \in Requests, ReadRow(r) \/ ReadSessions(r) PROVE TypeOK'
  <2>1. /\ pc' \in [Requests -> Points]
        /\ answer' \in [Requests -> {"none", "eligible", "blocked", "ok"}]
    <3>1. CASE ReadRow(r)
      BY <3>1, ToMoves, AnswersMoves DEF ReadRow, Points, TypeOK
    <3>2. CASE ReadSessions(r)
      BY <3>2, AnswersMoves DEF ReadSessions
    <3>3. QED BY <1>9, <3>1, <3>2
  <2>2. QED BY <1>1, <1>9, <2>1 DEF ReadRow, ReadSessions, rows, calls, site, TypeOK, Points
<1>10. ASSUME NEW r \in Requests, CheckInMemory(r) PROVE TypeOK'
  <2>1. cooldown \in Nat /\ now \in Nat
    BY DEF TypeOK
  <2>2. seen' = [seen EXCEPT ![r] = [days |-> cooldown, at |-> now, name |-> seen[r].name]]
    BY <1>10 DEF CheckInMemory, TypeOK
  <2>3. seen' \in [Requests -> [days : Nat, at : Nat, name : Names \union {NoName}]]
    BY <2>1, <2>2 DEF TypeOK
  <2>4. /\ pc' \in [Requests -> Points]
        /\ answer' \in [Requests -> {"none", "eligible", "blocked", "ok"}]
    BY <1>10, AnswersMoves DEF CheckInMemory
  <2>5. QED BY <1>1, <1>10, <2>3, <2>4 DEF CheckInMemory, rows, calls, site, TypeOK, Points
<1>11. ASSUME NEW r \in Requests, SaveSettings(r) PROVE TypeOK'
  <2>1. cooldown' \in Days
    BY <1>11 DEF SaveSettings, At, Places, Placed
  <2>2. /\ pc' \in [Requests -> Points]
        /\ answer' \in [Requests -> {"none", "eligible", "blocked", "ok"}]
    BY <1>11, AnswersMoves DEF SaveSettings
  <2>3. QED BY <1>1, <1>11, <2>1, <2>2 DEF SaveSettings, rows, calls, TypeOK, Points
<1>12. ASSUME NEW r \in Requests, SetFlag(r) \/ SaveConfig(r) PROVE TypeOK'
  <2>1. flag' \in BOOLEAN /\ stored' \in SUBSET BOOLEAN /\ strayed' \in BOOLEAN
    BY <1>2, <1>12 DEF SetFlag, SaveConfig, TypeOK
  <2>2. /\ pc' \in [Requests -> Points]
        /\ answer' \in [Requests -> {"none", "eligible", "blocked", "ok"}]
    <3>1. CASE SetFlag(r)
      BY <3>1, ToMoves DEF SetFlag, Points, TypeOK, mine
    <3>2. CASE SaveConfig(r)
      BY <3>2, AnswersMoves DEF SaveConfig
    <3>3. QED BY <1>12, <3>1, <3>2
  <2>3. QED BY <1>1, <1>12, <2>1, <2>2 DEF SetFlag, SaveConfig, rows, calls, mine, TypeOK, Points
<1>13. ASSUME NEW r \in Requests, StatementFails(r) PROVE TypeOK'
  <2>1. torn' \subseteq Emails /\ strayed' \in BOOLEAN
    BY <1>2, <1>13 DEF StatementFails, Torn, TypeOK
  <2>2. pc' \in [Requests -> Points]
    BY <1>13, ToMoves DEF StatementFails, Points
  <2>3. QED BY <1>1, <1>13, <2>1, <2>2 DEF StatementFails, rows, calls, mine, TypeOK, Points
<1>14. CASE Restart
  <2>1. pc' \in [Requests -> Points]
    BY <1>14 DEF Restart, TypeOK, Points
  <2>2. torn' \subseteq Emails
    BY <1>2, <1>14 DEF Restart, Torn, TypeOK
  <2>3. flag' \in BOOLEAN /\ strayed' \in BOOLEAN
    <3>1. Loaded \in BOOLEAN
      BY DEF Loaded
    <3>2. QED BY <1>14, <3>1 DEF Restart
  <2>4. QED BY <1>1, <1>14, <2>1, <2>2, <2>3 DEF Restart, rows, calls, mine, TypeOK, Points
<1>15. CASE Tick
  <2>1. now' \in 1..MaxNow
    BY <1>15 DEF Tick, TypeOK
  <2>2. QED BY <1>1, <1>15, <2>1 DEF Tick, rows, calls, site, mine, TypeOK
<1>16. QED
  BY <1>3, <1>4, <1>5, <1>6, <1>7, <1>8, <1>9, <1>10, <1>11, <1>12, <1>13, <1>14, <1>15
  DEF Next, Step

\* A step of one request moves no other.
LEMMA StepMoves ==
  ASSUME TypeOK, NEW r \in Requests, Step(r)
  PROVE  /\ UNCHANGED <<adapter, now, ended>>
         /\ \A q \in Requests \ {r} : /\ pc'[q] = pc[q] /\ op'[q] = op[q]
                                     /\ seen'[q] = seen[q] /\ answer'[q] = answer[q]
<1> USE DEF TypeOK, To, Answers, Returned, rows, calls, site, mine
<1>1. CASE Arrives(r)
  <2>1. \E o : op' = [op EXCEPT ![r] = o]
    BY <1>1 DEF Arrives, Asks
  <2>2. QED BY <1>1, <2>1 DEF Arrives
<1>2. CASE FindCandidate(r) \/ InsertCandidate(r) \/ GetOrCreate(r) \/ CreateSession(r)
  BY <1>2 DEF FindCandidate, InsertCandidate, GetOrCreate, CreateSession
<1>3. CASE UpdateRow(r) \/ InsertAudit(r) \/ Restrict(r)
  BY <1>3 DEF UpdateRow, InsertAudit, Restrict
<1>4. CASE ReadSettings(r) \/ NoteTime(r) \/ ReadRow(r)
  BY <1>4 DEF ReadSettings, NoteTime, ReadRow
<1>5. CASE ReadSessions(r) \/ CheckInMemory(r)
  BY <1>5 DEF ReadSessions, CheckInMemory
<1>6. CASE SaveSettings(r) \/ SetFlag(r) \/ SaveConfig(r) \/ StatementFails(r)
  BY <1>6 DEF SaveSettings, SetFlag, SaveConfig, StatementFails
<1>7. QED BY <1>1, <1>2, <1>3, <1>4, <1>5, <1>6 DEF Step

\* The requests keep their places.
LEMMA PlacesStep == ASSUME TypeOK, Places, [Next]_vars PROVE Places'
<1>1. ASSUME NEW r \in Requests, Step(r) PROVE Places'
  <2>1. SUFFICES Placed(r)'
    BY <1>1, StepMoves, OthersPlaced
  <2>2. Placed(r)
    BY DEF Places
  <2>3. op' = op \/ Arrives(r)
    BY <1>1 DEF Step, FindCandidate, InsertCandidate, GetOrCreate, CreateSession, UpdateRow,
                InsertAudit, Restrict, ReadSettings, NoteTime, ReadRow, ReadSessions,
                CheckInMemory, SaveSettings, SetFlag, SaveConfig, StatementFails, mine
  <2> USE DEF Placed
  <2>4. CASE Arrives(r)
    <3>1. PICK k \in Kinds, e \in Emails, n \in Names \union {NoName}, b \in BOOLEAN,
               u \in Nat, d \in Nat :
             /\ Asks(r, Ask(k, e, n, b, u, d))
             /\ k = "revoke" => u = 0
             /\ k = "grant" => u > now
             /\ k = "settings" => d \in Days
      BY <2>4, ArrivesAsks
    <3>2. op'[r] = Ask(k, e, n, b, u, d)
      BY <3>1 DEF Asks, TypeOK
    <3>3. op'[r].kind = k /\ op'[r].until = u /\ op'[r].days = d
      BY <3>2 DEF Ask
    <3>4. pc'[r] = "begun" /\ answer'[r] = answer[r] /\ now' = now
      BY <2>4, ToMoves DEF Arrives, Points
    <3>5. answer[r] = "none"
      BY <2>2, <2>4 DEF Arrives
    <3>6. QED BY <3>1, <3>3, <3>4, <3>5
  <2>5. CASE FindCandidate(r) \/ InsertCandidate(r) \/ GetOrCreate(r)
    <3>1. op[r].kind \in {"intake", "trigger"} /\ op' = op
      BY <2>2, <2>5 DEF FindCandidate, InsertCandidate, GetOrCreate
    <3>2. \/ pc'[r] = "done"
          \/ answer' = answer /\ pc'[r] \in {"create", "failed"}
          \/ answer' = answer /\ pc'[r] = "insert" /\ adapter' = "postgres"
      BY <2>5, ToMoves, AnswersMoves
      DEF FindCandidate, InsertCandidate, GetOrCreate, Returned, Points
    <3>3. answer[r] = "none"
      BY <2>2, <2>5 DEF FindCandidate, InsertCandidate, GetOrCreate
    <3>4. QED BY <3>1, <3>2, <3>3
  <2>6. CASE CreateSession(r) \/ InsertAudit(r) \/ Restrict(r) \/ SaveSettings(r) \/ SaveConfig(r)
    <3>1. op' = op /\ (pc'[r] = "done" \/ (pc'[r] = "failed" /\ answer' = answer))
      BY <2>6, ToMoves, AnswersMoves
      DEF CreateSession, InsertAudit, Restrict, SaveSettings, SaveConfig, Points
    <3>2. pc[r] \in {"create", "audit", "begun", "save"}
      BY <2>6 DEF CreateSession, InsertAudit, Restrict, SaveSettings, SaveConfig, At
    <3>3. QED BY <2>2, <3>1, <3>2
  <2>7. CASE UpdateRow(r)
    BY <2>2, <2>7, ToMoves DEF UpdateRow, Points, mine
  <2>8. CASE ReadSettings(r)
    <3>1. cooldown \in Nat /\ cooldown > 0
      BY DEF TypeOK
    <3>2. seen'[r].days = cooldown
      BY <2>8 DEF ReadSettings, TypeOK
    <3>3. QED BY <2>2, <2>8, <3>1, <3>2, ToMoves DEF ReadSettings, Points, At
  <2>9. CASE NoteTime(r)
    <3>1. seen'[r].days = seen[r].days /\ seen'[r].at = now /\ now \in Nat
      BY <2>9 DEF NoteTime, TypeOK
    <3>2. QED BY <2>2, <2>9, <3>1, ToMoves DEF NoteTime, Points
  <2>10. CASE ReadRow(r)
    <3>1. pc'[r] = "done" \/ (pc'[r] = "sessions" /\ answer' = answer)
      BY <2>10, ToMoves, AnswersMoves DEF ReadRow, Points
    <3>2. QED BY <2>2, <2>10, <3>1 DEF ReadRow
  <2>11. CASE ReadSessions(r) \/ CheckInMemory(r)
    <3>1. pc'[r] = "done" /\ op' = op
      BY <2>11, AnswersMoves DEF ReadSessions, CheckInMemory
    <3>2. QED BY <2>2, <3>1
  <2>12. CASE SetFlag(r)
    BY <2>2, <2>12, ToMoves DEF SetFlag, Points, mine, At
  <2>13. CASE StatementFails(r)
    BY <2>2, <2>13, ToMoves DEF StatementFails, Points, mine, Ended
  <2>14. QED
    BY <1>1, <2>4, <2>5, <2>6, <2>7, <2>8, <2>9, <2>10, <2>11, <2>12, <2>13 DEF Step
<1>2. ASSUME NEW e \in Emails, SessionCounts(e) PROVE Places'
  BY <1>2 DEF SessionCounts, mine, Places, Placed
<1>3. CASE Restart
  <2>1. \A r \in Requests : pc'[r] = pc[r] \/ (pc'[r] = "failed" /\ pc[r] # "done")
    BY <1>3 DEF Restart, Ended, TypeOK
  <2>2. QED BY <1>3, <2>1 DEF Restart, mine, Places, Placed
<1>4. CASE Tick
  <2>1. now \in Nat /\ now' = now + 1 /\ UNCHANGED <<adapter, pc, mine>>
    BY <1>4 DEF Tick, TypeOK
  <2>2. \A r \in Requests : op[r].kind = "grant" /\ pc[r] = "begun" => op[r].until > now'
    BY <1>4, <2>1 DEF Tick, At
  <2>3. \A r \in Requests : seen[r].at \in Nat /\ op[r].until \in Nat
    BY DEF TypeOK
  <2>4. QED BY <2>1, <2>2, <2>3 DEF mine, Places, Placed
<1>5. CASE UNCHANGED vars
  BY <1>5 DEF vars, mine, Places, Placed
<1>6. QED BY <1>1, <1>2, <1>3, <1>4, <1>5 DEF Next

\* Type correctness.
THEOREM TypeCorrect == Spec => []TypeOK
<1>1. TypeOK /\ Places /\ [Next]_vars => TypeOK' /\ Places'
  BY TypeStep, PlacesStep
<1>2. QED BY InitType, <1>1, PTL DEF Spec

-----------------------------------------------------------------------------
(* The flag of the site. *)

\* At most one patch is between its two assignments, and it has set the flag.
FlagInv ==
  ~strayed =>
    /\ \A q, r \in Requests : pc[q] = "save" /\ pc[r] = "save" => q = r
    /\ \A r \in Requests : pc[r] = "save" => flag = op[r].on
    /\ (\A r \in Requests : pc[r] # "save") => flag = Loaded

LEMMA FlagStep == ASSUME TypeOK, Places, FlagInv, [Next]_vars PROVE FlagInv'
<1>1. ASSUME NEW r \in Requests, SetFlag(r) PROVE FlagInv'
  <2>1. /\ pc'[r] = "save" /\ flag' = op[r].on /\ op' = op
        /\ \A q \in Requests \ {r} : pc'[q] = pc[q]
    BY <1>1, ToMoves DEF SetFlag, Points, mine
  <2>2. ~strayed' => ~strayed /\ \A q \in Requests : pc[q] # "save"
    BY <1>1 DEF SetFlag
  <2>3. QED BY <2>1, <2>2 DEF FlagInv
<1>2. ASSUME NEW r \in Requests, SaveConfig(r) PROVE FlagInv'
  <2>1. /\ pc'[r] = "done" /\ stored' = {op[r].on} /\ UNCHANGED <<op, flag, strayed>>
        /\ \A q \in Requests \ {r} : pc'[q] = pc[q]
    BY <1>2, AnswersMoves DEF SaveConfig
  <2>2. op[r].on \in BOOLEAN
    BY DEF TypeOK
  <2>3. Loaded' = op[r].on
    BY <2>1, <2>2 DEF Loaded
  <2>4. ~strayed => flag = op[r].on /\ \A q \in Requests \ {r} : pc[q] # "save"
    BY <1>2 DEF FlagInv, SaveConfig
  <2>5. QED BY <2>1, <2>3, <2>4 DEF FlagInv
<1>3. ASSUME NEW r \in Requests, StatementFails(r) PROVE FlagInv'
  <2>1. /\ UNCHANGED <<flag, stored, op>>
        /\ pc'[r] = "failed"
        /\ ~strayed' => ~strayed /\ pc[r] # "save"
        /\ \A q \in Requests \ {r} : pc'[q] = pc[q]
    BY <1>3, ToMoves DEF StatementFails, Points, mine
  <2>2. QED BY <2>1 DEF FlagInv, Loaded
<1>4. CASE Restart
  <2>1. \A r \in Requests : pc'[r] # "save"
    BY <1>4 DEF Restart, Ended, TypeOK
  <2>2. ~strayed' => flag' = Loaded /\ stored' = stored
    BY <1>4 DEF Restart
  <2>3. QED BY <2>1, <2>2 DEF FlagInv, Loaded
<1>5. CASE /\ UNCHANGED <<flag, stored, strayed>>
           /\ \A r \in Requests : (pc'[r] = "save" <=> pc[r] = "save")
           /\ \A r \in Requests : pc[r] = "save" => op'[r] = op[r]
  BY <1>5 DEF FlagInv, Loaded
<1>6. ASSUME NEW r \in Requests, Step(r)
      PROVE  \/ SetFlag(r) \/ SaveConfig(r) \/ StatementFails(r)
             \/ /\ UNCHANGED <<flag, stored, strayed>>
                /\ \A q \in Requests : (pc'[q] = "save" <=> pc[q] = "save")
                /\ \A q \in Requests : pc[q] = "save" => op'[q] = op[q]
  <2>1. SUFFICES ASSUME ~SetFlag(r), ~SaveConfig(r), ~StatementFails(r)
                 PROVE  UNCHANGED <<flag, stored, strayed>> /\ pc[r] # "save" /\ pc'[r] # "save"
    BY <1>6, StepMoves
  <2>2. UNCHANGED <<flag, stored, strayed>>
    BY <1>6, <2>1
    DEF Step, Arrives, FindCandidate, InsertCandidate, GetOrCreate, CreateSession, UpdateRow,
        InsertAudit, Restrict, ReadSettings, NoteTime, ReadRow, ReadSessions, CheckInMemory,
        SaveSettings, site
  <2>3. pc[r] # "save"
    BY <1>6, <2>1
    DEF Step, Arrives, FindCandidate, InsertCandidate, GetOrCreate, CreateSession, UpdateRow,
        InsertAudit, Restrict, ReadSettings, NoteTime, ReadRow, ReadSessions, CheckInMemory,
        SaveSettings, At
  <2>4. pc'[r] # "save"
    BY <1>6, <2>1, ToMoves, AnswersMoves
    DEF Step, Arrives, FindCandidate, InsertCandidate, GetOrCreate, CreateSession, UpdateRow,
        InsertAudit, Restrict, ReadSettings, NoteTime, ReadRow, ReadSessions, CheckInMemory,
        SaveSettings, Returned, Points
  <2>5. QED BY <2>2, <2>3, <2>4
<1>7. (\E e \in Emails : SessionCounts(e)) \/ Tick \/ UNCHANGED vars => FlagInv'
  BY <1>5 DEF SessionCounts, Tick, vars, site, mine
<1>8. QED BY <1>1, <1>2, <1>3, <1>4, <1>5, <1>6, <1>7 DEF Next

\* The flag that an administrator sets survives restarts of the service.
THEOREM FlagCorrect == Spec => []FlagSurvives
<1>1. Init => FlagInv
  BY DEF Init, FlagInv, Loaded
<1>2. TypeOK /\ Places /\ FlagInv /\ [Next]_vars => TypeOK' /\ Places' /\ FlagInv'
  BY TypeStep, PlacesStep, FlagStep
<1>3. FlagInv => FlagSurvives
  BY DEF FlagInv, FlagSurvives
<1>4. QED BY InitType, <1>1, <1>2, <1>3, PTL DEF Spec

-----------------------------------------------------------------------------
(* The names of candidates. *)

\* A candidate that was returned is stored under the name that was returned.
NameInv ==
  \A r \in Requests :
    pc[r] = "create" \/ (answer[r] = "ok" /\ op[r].kind \in {"intake", "trigger"}) =>
      op[r].email \in known /\ name[op[r].email] = seen[r].name

\* No step renames a candidate or deletes one.
LEMMA NamesKept ==
  ASSUME TypeOK, [Next]_vars, NEW e \in known PROVE e \in known' /\ name'[e] = name[e]
<1>1. CASE UNCHANGED <<known, name>>
  BY <1>1
<1>2. ASSUME NEW r \in Requests, InsertCandidate(r) \/ GetOrCreate(r)
      PROVE  e \in known' /\ name'[e] = name[e]
  BY <1>2 DEF InsertCandidate, GetOrCreate, Stored, TypeOK
<1>3. ASSUME NEW r \in Requests, Step(r)
      PROVE  InsertCandidate(r) \/ GetOrCreate(r) \/ UNCHANGED <<known, name>>
  BY <1>3
  DEF Step, Arrives, FindCandidate, CreateSession, UpdateRow, InsertAudit, Restrict,
      ReadSettings, NoteTime, ReadRow, ReadSessions, CheckInMemory, SaveSettings, SetFlag,
      SaveConfig, StatementFails, rows
<1>4. (\E f \in Emails : SessionCounts(f)) \/ Restart \/ Tick \/ UNCHANGED vars
        => UNCHANGED <<known, name>>
  BY DEF SessionCounts, Restart, Tick, vars, rows
<1>5. QED BY <1>1, <1>2, <1>3, <1>4 DEF Next

LEMMA NameStep == ASSUME TypeOK, Places, NameInv, [Next]_vars PROVE NameInv'
<1>1. \A e \in known : e \in known' /\ name'[e] = name[e]
  BY NamesKept
<1>2. ASSUME NEW r \in Requests, Step(r) PROVE NameInv'
  <2>1. SUFFICES pc'[r] = "create" \/ (answer'[r] = "ok" /\ op'[r].kind \in {"intake", "trigger"})
                   => op'[r].email \in known' /\ name'[op'[r].email] = seen'[r].name
    BY <1>1, <1>2, StepMoves DEF NameInv
  <2>2. CASE FindCandidate(r) \/ InsertCandidate(r) \/ GetOrCreate(r)
    <3>1. op' = op /\ op[r].email \in Emails /\ answer[r] = "none" /\ known \subseteq Emails
      BY <2>2 DEF FindCandidate, InsertCandidate, GetOrCreate, Places, Placed, TypeOK
    <3>2. CASE \E n \in Names \union {NoName} : Returned(r, n)
      <4>1. PICK n \in Names \union {NoName} : Returned(r, n)
        BY <3>2
      <4>2. seen'[r].name = n
        BY <4>1 DEF Returned, TypeOK
      <4>3. op[r].email \in known' /\ name'[op[r].email] = n
        <5>1. seen' = [seen EXCEPT ![r].name = n]
          BY <4>1 DEF Returned
        <5>2. pc' # [pc EXCEPT ![r] = "insert"] /\ pc' # [pc EXCEPT ![r] = "failed"]
          BY <4>1 DEF Returned, Answers, To, TypeOK
        <5>3. \E m : /\ seen' = [seen EXCEPT ![r].name = m]
                     /\ op[r].email \in known' /\ name'[op[r].email] = m
          BY <2>2, <3>1, <5>2
          DEF FindCandidate, InsertCandidate, GetOrCreate, Returned, Stored, To, rows, TypeOK
        <5>4. QED BY <4>2, <5>3 DEF TypeOK
      <4>4. QED BY <3>1, <4>2, <4>3
    <3>3. CASE answer' = answer /\ pc'[r] # "create"
      BY <3>1, <3>3
    <3>4. QED
      BY <2>2, <3>1, <3>2, <3>3, ToMoves
      DEF FindCandidate, InsertCandidate, GetOrCreate, Points, TypeOK
  <2>3. CASE CreateSession(r)
    <3>1. /\ op' = op /\ seen' = seen /\ pc[r] = "create"
          /\ UNCHANGED <<known, name>>
      BY <2>3 DEF CreateSession, rows
    <3>2. QED BY <3>1 DEF NameInv
  <2>4. CASE Arrives(r)
    <3>1. pc'[r] = "begun" /\ answer'[r] = "none"
      BY <2>4, ToMoves DEF Arrives, Points, Places, Placed
    <3>2. QED BY <3>1
  <2>5. CASE UpdateRow(r) \/ InsertAudit(r) \/ Restrict(r)
    <3>1. op' = op /\ op[r].kind \in Restrictions
      BY <2>5 DEF UpdateRow, InsertAudit, Restrict, mine, Places, Placed
    <3>2. pc'[r] # "create"
      BY <2>5, ToMoves, AnswersMoves DEF UpdateRow, InsertAudit, Restrict, Points
    <3>3. QED BY <3>1, <3>2 DEF Restrictions
  <2>6. CASE ReadSettings(r) \/ NoteTime(r) \/ ReadRow(r) \/ ReadSessions(r) \/ CheckInMemory(r)
    <3>1. op' = op /\ op[r].kind = "check"
      BY <2>6 DEF ReadSettings, NoteTime, ReadRow, ReadSessions, CheckInMemory, At, Places, Placed
    <3>2. pc'[r] # "create"
      BY <2>6, ToMoves, AnswersMoves
      DEF ReadSettings, NoteTime, ReadRow, ReadSessions, CheckInMemory, Points
    <3>3. QED BY <3>1, <3>2
  <2>7. CASE SaveSettings(r) \/ SetFlag(r) \/ SaveConfig(r)
    <3>1. op' = op /\ op[r].kind \in {"settings", "patch"}
      BY <2>7 DEF SaveSettings, SetFlag, SaveConfig, At, mine, Places, Placed
    <3>2. pc'[r] # "create"
      BY <2>7, ToMoves, AnswersMoves DEF SaveSettings, SetFlag, SaveConfig, Points
    <3>3. QED BY <3>1, <3>2
  <2>8. CASE StatementFails(r)
    <3>1. pc'[r] = "failed" /\ UNCHANGED <<op, answer>> /\ answer[r] = "none"
      BY <2>8, ToMoves DEF StatementFails, mine, Ended, Points, Places, Placed
    <3>2. QED BY <3>1
  <2>9. QED BY <1>2, <2>2, <2>3, <2>4, <2>5, <2>6, <2>7, <2>8 DEF Step
<1>3. (\E e \in Emails : SessionCounts(e)) \/ Tick \/ UNCHANGED vars => NameInv'
  BY <1>1 DEF SessionCounts, Tick, vars, mine, NameInv
<1>4. CASE Restart
  <2>1. \A r \in Requests : pc'[r] = "create" => pc[r] = "create"
    BY <1>4 DEF Restart, TypeOK
  <2>2. QED BY <1>1, <1>4, <2>1 DEF Restart, mine, NameInv
<1>5. QED BY <1>2, <1>3, <1>4 DEF Next

\* Whoever came first, the candidate an intake was told of keeps its name.
THEOREM NamesCorrect == Spec => []AnsweredCandidateKept
<1>1. Init => NameInv
  BY DEF Init, NameInv
<1>2. TypeOK /\ Places /\ NameInv /\ [Next]_vars => TypeOK' /\ Places' /\ NameInv'
  BY TypeStep, PlacesStep, NameStep
<1>3. NameInv => AnsweredCandidateKept
  BY DEF NameInv, AnsweredCandidateKept
<1>4. QED BY InitType, <1>1, <1>2, <1>3, PTL DEF Spec

-----------------------------------------------------------------------------
(* Restrictions and their audit log. *)

\* Nothing has been said of a candidate whose row does not exist.
Unsaid(e) ==
  /\ ~free[e]
  /\ until[e] = 0
  /\ Halfway(e) # {} => e \in torn
  /\ \A i \in 1..Len(audit) : audit[i].email # e

\* The row of e while the one request r is between its two statements.
Pending(e, r) ==
  \/ op[r].kind = "toggle" /\ free[e] = op[r].on /\ UntilExplained(e)
  \/ op[r].kind # "toggle" /\ until[e] = op[r].until /\ FreeExplained(e)

\* The row of e, when no two requests have met on it.
Said(e) ==
  /\ Halfway(e) = {} => FreeExplained(e) /\ UntilExplained(e)
  /\ \A q, r \in Halfway(e) : q = r
  /\ \A r \in Halfway(e) : Pending(e, r)

\* What the log and the requests under way say of candidate e.
Explains(e) ==
  /\ e \notin known => Unsaid(e)
  /\ e \in known \ torn => Said(e)

AuditInv == \A e \in Emails : Explains(e)

\* What a further entry changes about the latest one.
LEMMA LatestAppend ==
  ASSUME audit \in Seq(AuditEntry), NEW x \in AuditEntry, audit' = Append(audit, x),
         NEW e, NEW K
  PROVE  /\ Len(audit) + 1 \in 1..Len(audit')
         /\ audit'[Len(audit) + 1] = x
         /\ (\A i \in 1..Len(audit) : i \in 1..Len(audit') /\ audit'[i] = audit[i])
         /\ (\A i \in 1..Len(audit') : i \in 1..Len(audit) \/ i = Len(audit) + 1)
         /\ (x.email = e /\ x.kind \in K => Latest(e, K)' = {Len(audit) + 1})
         /\ (~(x.email = e /\ x.kind \in K) => Latest(e, K)' = Latest(e, K))
<1>1. /\ Len(audit) \in Nat /\ Len(audit') = Len(audit) + 1
      /\ audit'[Len(audit) + 1] = x
      /\ \A i \in 1..Len(audit) : audit'[i] = audit[i]
  OBVIOUS
<1>2. \A i \in 1..Len(audit') : i \in 1..Len(audit) \/ i = Len(audit) + 1
  BY <1>1
<1>3. \A i \in 1..Len(audit) : i \in 1..Len(audit') /\ i < Len(audit) + 1
  BY <1>1
<1>4. Len(audit) + 1 \in 1..Len(audit')
  BY <1>1
<1>5. ASSUME x.email = e, x.kind \in K PROVE Latest(e, K)' = {Len(audit) + 1}
  <2>1. \A j \in 1..Len(audit') : ~(j > Len(audit) + 1)
    BY <1>1
  <2>2. \A i \in 1..Len(audit) : Len(audit) + 1 > i
    BY <1>1
  <2>3. QED BY <1>1, <1>2, <1>4, <1>5, <2>1, <2>2 DEF Latest
<1>6. ASSUME ~(x.email = e /\ x.kind \in K) PROVE Latest(e, K)' = Latest(e, K)
  BY <1>1, <1>2, <1>3, <1>4, <1>6 DEF Latest
<1>7. QED BY <1>1, <1>2, <1>3, <1>4, <1>5, <1>6

\* Nothing that is said of e changes, or e counts as torn.
LEMMA ExplainsSame ==
  ASSUME NEW e \in Emails, Explains(e),
         free'[e] = free[e], until'[e] = until[e], audit' = audit,
         e \in known => e \in known',
         e \notin torn' => e \notin torn,
         Halfway(e)' \subseteq Halfway(e),
         Halfway(e)' = Halfway(e) \/ e \in torn' \/ e \notin known,
         \A r \in Halfway(e) : op'[r] = op[r]
  PROVE  Explains(e)'
<1>1. Latest(e, {"toggle"})' = Latest(e, {"toggle"})
      /\ Latest(e, {"grant", "revoke"})' = Latest(e, {"grant", "revoke"})
  BY DEF Latest
<1>2. /\ FreeExplained(e)' <=> FreeExplained(e)
      /\ UntilExplained(e)' <=> UntilExplained(e)
  BY <1>1 DEF FreeExplained, UntilExplained
<1>4. CASE e \notin known
  <2>1. Unsaid(e)
    BY <1>4 DEF Explains
  <2>2. Latest(e, {"toggle"}) = {} /\ Latest(e, {"grant", "revoke"}) = {}
    BY <2>1 DEF Latest, Unsaid
  <2>3. FreeExplained(e) /\ UntilExplained(e)
    BY <2>1, <2>2 DEF FreeExplained, UntilExplained, Unsaid
  <2>4. Unsaid(e)'
    BY <2>1 DEF Unsaid
  <2>5. e \notin torn' => Halfway(e)' = {}
    BY <2>1 DEF Unsaid
  <2>6. QED BY <1>2, <2>3, <2>4, <2>5 DEF Explains, Said
<1>5. CASE e \in known
  <2>1. \A r \in Halfway(e) : Pending(e, r) => Pending(e, r)'
    BY <1>2 DEF Pending
  <2>2. QED BY <1>2, <1>5, <2>1 DEF Explains, Said
<1>6. QED BY <1>4, <1>5

\* The UPDATE of a restriction.
LEMMA UpdateExplains ==
  ASSUME TypeOK, Places, AuditInv, NEW r \in Requests, UpdateRow(r) PROVE AuditInv'
<1> DEFINE f == op[r].email
<1>1. f \in Emails /\ op[r].on \in BOOLEAN /\ op[r].until \in Nat /\ pc[r] = "begun"
  BY DEF UpdateRow, TypeOK
<1>2. /\ pc'[r] = "audit"
      /\ \A q \in Requests \ {r} : pc'[q] = pc[q]
      /\ UNCHANGED <<op, known, audit>>
      /\ op[r].kind \in Restrictions
  BY ToMoves DEF UpdateRow, Points, mine
<1>3. Halfway(f)' = Halfway(f) \union {r} /\ r \notin Halfway(f)
  BY <1>1, <1>2 DEF Halfway
<1>4. torn \subseteq torn'
  BY DEF UpdateRow
<1>5. ASSUME NEW e \in Emails, e # f PROVE Explains(e)'
  <2>1. Explains(e) /\ UNCHANGED <<op, known, audit>>
    BY <1>2 DEF AuditInv
  <2>2. Halfway(e)' = Halfway(e)
    BY <1>1, <1>2, <1>5 DEF Halfway
  <2>3. free'[e] = free[e] /\ until'[e] = until[e]
    BY <1>1, <1>5 DEF UpdateRow, Applied, TypeOK
  <2>4. QED BY <1>4, <2>1, <2>2, <2>3, ExplainsSame
<1>6. Explains(f)'
  <2>1. CASE f \notin known
    <3>1. UNCHANGED <<free, until>> /\ f \in torn'
      BY <2>1 DEF UpdateRow
    <3>2. Unsaid(f)
      BY <1>1, <2>1 DEF Explains, AuditInv
    <3>3. Unsaid(f)'
      BY <1>2, <3>1, <3>2 DEF Unsaid
    <3>4. QED BY <1>2, <2>1, <3>1, <3>3 DEF Explains
  <2>2. CASE f \in known /\ f \in torn'
    BY <1>2, <2>2 DEF Explains
  <2>3. CASE f \in known /\ f \notin torn'
    <3>1. f \notin torn /\ Halfway(f) = {}
      BY <2>3 DEF UpdateRow
    <3>2. FreeExplained(f) /\ UntilExplained(f)
      BY <1>1, <2>3, <3>1 DEF AuditInv, Explains, Said
    <3>3. Halfway(f)' = {r}
      BY <1>3, <3>1
    <3>4. /\ Latest(f, {"toggle"})' = Latest(f, {"toggle"})
          /\ Latest(f, {"grant", "revoke"})' = Latest(f, {"grant", "revoke"})
      BY <1>2 DEF Latest
    <3>5. CASE op[r].kind = "toggle"
      <4>1. free'[f] = op[r].on /\ until' = until
        BY <1>1, <2>3, <3>5 DEF UpdateRow, Applied, TypeOK
      <4>2. UntilExplained(f)'
        BY <1>2, <3>2, <3>4, <4>1 DEF UntilExplained
      <4>3. QED BY <1>2, <2>3, <3>3, <3>5, <4>1, <4>2 DEF Explains, Said, Pending
    <3>6. CASE op[r].kind \in {"grant", "revoke"}
      <4>1. until'[f] = op[r].until /\ free' = free
        BY <1>1, <2>3, <3>6 DEF UpdateRow, Applied, TypeOK
      <4>2. FreeExplained(f)'
        BY <1>2, <3>2, <3>4, <4>1 DEF FreeExplained
      <4>3. QED BY <1>2, <2>3, <3>3, <3>6, <4>1, <4>2 DEF Explains, Said, Pending
    <3>7. QED BY <1>2, <3>5, <3>6 DEF Restrictions
  <2>4. QED BY <2>1, <2>2, <2>3
<1>7. QED BY <1>2, <1>5, <1>6 DEF AuditInv

\* An entry about f, with the row as it will be: the row is explained.
LEMMA EntryExplains ==
  ASSUME TypeOK, NEW o \in [kind : Restrictions, email : Emails, name : Names \union {NoName},
                            on : BOOLEAN, until : Nat, days : Nat],
         audit' = Append(audit, Entry(o)),
         o.kind = "toggle" => /\ free'[o.email] = o.on
                              /\ until'[o.email] = until[o.email]
                              /\ UntilExplained(o.email),
         o.kind # "toggle" => /\ until'[o.email] = o.until
                              /\ free'[o.email] = free[o.email]
                              /\ FreeExplained(o.email)
  PROVE  FreeExplained(o.email)' /\ UntilExplained(o.email)'
<1> DEFINE x == Entry(o)
           n == Len(audit) + 1
           f == o.email
<1>1. audit \in Seq(AuditEntry) /\ x \in AuditEntry
  BY DEF TypeOK, Entry, AuditEntry
<1>2. x.email = f /\ x.kind = o.kind /\ x.on = o.on /\ x.until = o.until
  BY DEF Entry
<1>3. o.kind \in {"toggle", "grant", "revoke"} /\ o.on \in BOOLEAN
  BY DEF Restrictions
<1> HIDE DEF x
<1>4. audit'[n] = x /\ \A i \in 1..Len(audit) : audit'[i] = audit[i]
  BY <1>1, LatestAppend DEF x
<1>5. CASE o.kind = "toggle"
  <2>1. Latest(f, {"toggle"})' = {n}
    BY <1>1, <1>2, <1>5, LatestAppend DEF x
  <2>2. Latest(f, {"grant", "revoke"})' = Latest(f, {"grant", "revoke"})
    BY <1>1, <1>2, <1>5, LatestAppend DEF x
  <2>3. FreeExplained(f)'
    BY <1>2, <1>4, <1>5, <2>1 DEF FreeExplained
  <2>4. \A i \in Latest(f, {"grant", "revoke"}) : audit'[i] = audit[i]
    BY <1>4 DEF Latest
  <2>5. UntilExplained(f)'
    BY <1>5, <2>2, <2>4 DEF UntilExplained
  <2>6. QED BY <2>3, <2>5
<1>6. CASE o.kind \in {"grant", "revoke"}
  <2>1. Latest(f, {"grant", "revoke"})' = {n}
    BY <1>1, <1>2, <1>6, LatestAppend DEF x
  <2>2. Latest(f, {"toggle"})' = Latest(f, {"toggle"})
    BY <1>1, <1>2, <1>6, LatestAppend DEF x
  <2>3. UntilExplained(f)'
    BY <1>2, <1>4, <1>6, <2>1 DEF UntilExplained
  <2>4. \A i \in Latest(f, {"toggle"}) : audit'[i] = audit[i]
    BY <1>4 DEF Latest
  <2>5. FreeExplained(f)'
    BY <1>6, <2>2, <2>4 DEF FreeExplained
  <2>6. QED BY <2>3, <2>5
<1>7. QED BY <1>3, <1>5, <1>6

\* An entry about somebody else explains nothing about e.
LEMMA EntryOfOther ==
  ASSUME TypeOK, NEW x \in AuditEntry, audit' = Append(audit, x),
         NEW e \in Emails, x.email # e, Explains(e),
         free'[e] = free[e], until'[e] = until[e], known' = known, torn' = torn,
         Halfway(e)' = Halfway(e), op' = op
  PROVE  Explains(e)'
<1>1. audit \in Seq(AuditEntry)
  BY DEF TypeOK
<1>2. \A K : Latest(e, K)' = Latest(e, K)
  BY <1>1, LatestAppend
<1>3. \A i \in 1..Len(audit) : audit'[i] = audit[i]
  BY <1>1, LatestAppend
<1>4. /\ FreeExplained(e)' <=> FreeExplained(e)
      /\ UntilExplained(e)' <=> UntilExplained(e)
  BY <1>2, <1>3 DEF FreeExplained, UntilExplained, Latest
<1>5. Unsaid(e) => Unsaid(e)'
  <2>1. \A i \in 1..Len(audit') : i \in 1..Len(audit) \/ audit'[i] = x
    BY <1>1, LatestAppend
  <2>2. QED BY <1>3, <2>1 DEF Unsaid
<1>6. \A r \in Halfway(e) : Pending(e, r) => Pending(e, r)'
  BY <1>4 DEF Pending
<1>7. QED BY <1>4, <1>5, <1>6 DEF Explains, Said

\* The INSERT of an audit entry.
LEMMA InsertExplains ==
  ASSUME TypeOK, Places, AuditInv, NEW r \in Requests, InsertAudit(r) PROVE AuditInv'
<1> DEFINE f == op[r].email
<1>1. /\ f \in Emails /\ pc[r] = "audit" /\ op[r].kind \in Restrictions
      /\ op[r] \in [kind : Restrictions, email : Emails, name : Names \union {NoName},
                     on : BOOLEAN, until : Nat, days : Nat]
  <2>1. pc[r] = "audit" /\ op[r].kind \in Restrictions
    BY DEF InsertAudit, Places, Placed
  <2>2. QED BY <2>1 DEF TypeOK
<1>2. /\ pc'[r] # "audit"
      /\ (\A q \in Requests \ {r} : pc'[q] = pc[q])
      /\ UNCHANGED <<op, known, free, until, torn>>
  BY ToMoves, AnswersMoves DEF InsertAudit, Points
<1>3. \A e \in Emails : e # f => Halfway(e)' = Halfway(e)
  BY <1>1, <1>2 DEF Halfway
<1>4. Halfway(f)' = Halfway(f) \ {r} /\ r \in Halfway(f)
  BY <1>1, <1>2 DEF Halfway
<1>5. CASE f \notin known
  <2>1. audit' = audit
    BY <1>5 DEF InsertAudit
  <2>2. ASSUME NEW e \in Emails PROVE Explains(e)'
    <3>1. /\ Halfway(e)' \subseteq Halfway(e)
          /\ Halfway(e)' = Halfway(e) \/ e \notin known
      <4>1. CASE e # f
        BY <1>3, <4>1
      <4>2. CASE e = f
        BY <1>2, <1>4, <1>5, <4>2
      <4>3. QED BY <4>1, <4>2
    <3>2. QED BY <1>2, <2>1, <3>1, ExplainsSame DEF AuditInv
  <2>3. QED BY <2>2 DEF AuditInv
<1>6. CASE f \in known
  <2>1. audit' = Append(audit, Entry(op[r]))
    BY <1>6 DEF InsertAudit
  <2>2. Entry(op[r]) \in AuditEntry /\ Entry(op[r]).email = f
    BY <1>1 DEF Entry, AuditEntry
  <2>3. ASSUME NEW e \in Emails, e # f PROVE Explains(e)'
    <3>1. Explains(e)
      BY DEF AuditInv
    <3>2. QED BY <1>2, <1>3, <2>1, <2>2, <2>3, <3>1, EntryOfOther
  <2>4. Explains(f)'
    <3>1. CASE f \in torn
      BY <1>2, <1>6, <3>1 DEF Explains
    <3>2. CASE f \notin torn
      <4>1. Said(f)
        BY <1>1, <1>6, <3>2 DEF AuditInv, Explains
      <4>2. Pending(f, r) /\ Halfway(f)' = {}
        BY <1>4, <4>1 DEF Said
      <4>3. FreeExplained(f)' /\ UntilExplained(f)'
        BY <1>1, <1>2, <2>1, <4>2, EntryExplains DEF Pending
      <4>4. QED BY <1>2, <1>6, <4>2, <4>3 DEF Explains, Said
    <3>3. QED BY <3>1, <3>2
  <2>5. QED BY <1>2, <2>3, <2>4 DEF AuditInv
<1>7. QED BY <1>5, <1>6

\* The same in memory, row and log in one step.
LEMMA RestrictExplains ==
  ASSUME TypeOK, Places, AuditInv, NEW r \in Requests, Restrict(r) PROVE AuditInv'
<1> DEFINE f == op[r].email
<1>1. /\ f \in Emails /\ pc[r] = "begun" /\ op[r].kind \in Restrictions
      /\ op[r] \in [kind : Restrictions, email : Emails, name : Names \union {NoName},
                     on : BOOLEAN, until : Nat, days : Nat]
  BY DEF Restrict, TypeOK
<1>2. /\ pc'[r] # "audit"
      /\ (\A q \in Requests \ {r} : pc'[q] = pc[q])
      /\ UNCHANGED <<op, known, torn>>
  BY AnswersMoves DEF Restrict, Points
<1>3. \A e : Halfway(e) = {} /\ Halfway(e)' = {}
  BY <1>1, <1>2 DEF Restrict, Halfway, Places, Placed
<1>4. CASE f \notin known
  <2>1. UNCHANGED <<audit, free, until>>
    BY <1>4 DEF Restrict
  <2>2. QED BY <1>2, <1>3, <2>1, ExplainsSame DEF AuditInv
<1>5. CASE f \in known
  <2>1. audit' = Append(audit, Entry(op[r])) /\ Applied(op[r])
    BY <1>5 DEF Restrict
  <2>2. Entry(op[r]) \in AuditEntry /\ Entry(op[r]).email = f
    BY <1>1 DEF Entry, AuditEntry
  <2>3. ASSUME NEW e \in Emails, e # f PROVE Explains(e)'
    <3>1. Explains(e) /\ free'[e] = free[e] /\ until'[e] = until[e]
      BY <1>1, <2>1, <2>3 DEF AuditInv, Applied, TypeOK
    <3>2. QED BY <1>2, <1>3, <2>1, <2>2, <2>3, <3>1, EntryOfOther
  <2>4. Explains(f)'
    <3>1. CASE f \in torn
      BY <1>2, <1>5, <3>1 DEF Explains
    <3>2. CASE f \notin torn
      <4>1. FreeExplained(f) /\ UntilExplained(f)
        BY <1>1, <1>3, <1>5, <3>2 DEF AuditInv, Explains, Said
      <4>2. /\ op[r].kind = "toggle" => free'[f] = op[r].on /\ until'[f] = until[f]
            /\ op[r].kind # "toggle" => until'[f] = op[r].until /\ free'[f] = free[f]
        BY <1>1, <2>1 DEF Applied, Restrictions, TypeOK
      <4>3. FreeExplained(f)' /\ UntilExplained(f)'
        BY <1>1, <1>2, <2>1, <4>1, <4>2, EntryExplains
      <4>4. QED BY <1>2, <1>3, <1>5, <4>3 DEF Explains, Said
    <3>3. QED BY <3>1, <3>2
  <2>5. QED BY <1>2, <2>3, <2>4 DEF AuditInv
<1>6. QED BY <1>4, <1>5

\* Requests that fail between their statements leave their candidates torn.
LEMMA FailureExplains ==
  ASSUME TypeOK, AuditInv, NEW F \in SUBSET Requests,
         \A r \in Requests : pc'[r] = IF r \in F THEN "failed" ELSE pc[r],
         torn' = torn \union Torn(F),
         UNCHANGED <<rows, op>>
  PROVE  AuditInv'
<1>1. UNCHANGED <<known, free, until, audit, op>>
  BY DEF rows
<1>2. ASSUME NEW e \in Emails PROVE Explains(e)'
  <2>1. Halfway(e)' = Halfway(e) \ F
    BY <1>1 DEF Halfway
  <2>2. Halfway(e)' = Halfway(e) \/ e \in torn'
    BY <2>1 DEF Halfway, Torn
  <2>3. Explains(e) /\ torn \subseteq torn'
    BY DEF AuditInv
  <2>4. QED BY <1>1, <2>1, <2>2, <2>3, ExplainsSame
<1>3. QED BY <1>2 DEF AuditInv

LEMMA AuditStep == ASSUME TypeOK, Places, AuditInv, [Next]_vars PROVE AuditInv'
<1>1. ASSUME NEW r \in Requests, Step(r) PROVE AuditInv'
  <2>1. CASE UpdateRow(r)
    BY <2>1, UpdateExplains
  <2>2. CASE InsertAudit(r)
    BY <2>2, InsertExplains
  <2>3. CASE Restrict(r)
    BY <2>3, RestrictExplains
  <2>4. CASE StatementFails(r)
    <3>1. \A q \in Requests : pc'[q] = IF q \in {r} THEN "failed" ELSE pc[q]
      BY <2>4, ToMoves DEF StatementFails, Points
    <3>2. QED BY <2>4, <3>1, FailureExplains DEF StatementFails, mine
  <2>5. CASE ~(UpdateRow(r) \/ InsertAudit(r) \/ Restrict(r) \/ StatementFails(r))
    <3>1. /\ UNCHANGED <<free, until, audit, torn>> /\ known \subseteq known'
          /\ pc[r] # "audit"
      BY <1>1, <2>5
      DEF Step, Arrives, FindCandidate, InsertCandidate, GetOrCreate, CreateSession,
          ReadSettings, NoteTime, ReadRow, ReadSessions, CheckInMemory, SaveSettings, SetFlag,
          SaveConfig, Stored, rows, Places, Placed, Restrictions, At
    <3>2. pc'[r] # "audit"
      BY <1>1, <2>5, ToMoves, AnswersMoves
      DEF Step, Arrives, FindCandidate, InsertCandidate, GetOrCreate, CreateSession, Returned,
          ReadSettings, NoteTime, ReadRow, ReadSessions, CheckInMemory, SaveSettings, SetFlag,
          SaveConfig, Points
    <3>3. \A q \in Requests \ {r} : pc'[q] = pc[q] /\ op'[q] = op[q]
      BY <1>1, StepMoves
    <3>4. \A e : Halfway(e)' = Halfway(e) /\ \A q \in Halfway(e) : op'[q] = op[q]
      BY <3>1, <3>2, <3>3 DEF Halfway
    <3>5. QED BY <3>1, <3>4, ExplainsSame DEF AuditInv
  <2>6. QED BY <2>1, <2>2, <2>3, <2>4, <2>5
<1>2. CASE (\E e \in Emails : SessionCounts(e)) \/ Tick \/ UNCHANGED vars
  <2>1. UNCHANGED <<free, until, audit, torn, known, pc, op>>
    BY <1>2 DEF SessionCounts, Tick, rows, mine, vars
  <2>2. \A e : Halfway(e)' = Halfway(e)
    BY <2>1 DEF Halfway
  <2>3. QED BY <2>1, <2>2, ExplainsSame DEF AuditInv
<1>3. CASE Restart
  <2>1. PICK F \in SUBSET Requests :
          /\ pc' = [r \in Requests |-> IF r \in F THEN "failed" ELSE pc[r]]
          /\ torn' = torn \union Torn(F)
    BY <1>3 DEF Restart
  <2>2. QED BY <1>3, <2>1, FailureExplains DEF Restart, mine
<1>4. QED BY <1>1, <1>2, <1>3 DEF Next

\* Restrictions are in the audit log, and the log is in the row.
THEOREM AuditCorrect == Spec => []AuditExplainsRow
<1>1. Init => AuditInv
  <2> SUFFICES ASSUME Init, NEW e \in Emails PROVE Explains(e)
    BY DEF AuditInv
  <2>1. 1..Len(audit) = {}
    BY DEF Init
  <2>2. Halfway(e) = {}
    BY DEF Init, Halfway
  <2>3. QED BY <2>1, <2>2 DEF Init, Explains, Unsaid
<1>2. TypeOK /\ Places /\ AuditInv /\ [Next]_vars => TypeOK' /\ Places' /\ AuditInv'
  BY TypeStep, PlacesStep, AuditStep
<1>3. TypeOK /\ AuditInv => AuditExplainsRow
  BY DEF AuditInv, Explains, Said, AuditExplainsRow, TypeOK
<1>4. QED BY InitType, <1>1, <1>2, <1>3, PTL DEF Spec

-----------------------------------------------------------------------------
(* The check of eligibility. *)

\* A session of the candidate of r blocks, as far as the check has come.
Held(r) == Blocking(op[r].email, seen[r].at, seen[r].days)

\* What a check has found so far, and what it will still find.
Checked(r) ==
  /\ answer[r] = "eligible" => fit[r]
  /\ pc[r] = "row" =>
       fit[r] \/ (Held(r) /\ until[op[r].email] <= seen[r].at /\ ~free[op[r].email])
  /\ pc[r] = "sessions" => fit[r] \/ Held(r)

CheckInv == \A r \in Requests : Checked(r)

LEMMA Watched ==
  ASSUME TypeOK, Watch, NEW r \in Requests
  PROVE  /\ fit[r] => fit'[r]
         /\ pc[r] \notin Ended /\ Fit(r)' => fit'[r]
BY DEF Watch, TypeOK

\* Whatever the others do, a check that rests stays right: a restriction that
\* they lift makes its candidate eligible now.
LEMMA RestsChecked ==
  ASSUME TypeOK, Places, CheckInv, Watch, NEW r \in Requests,
         until' \in [Emails -> Nat],
         pc'[r] = pc[r], op'[r] = op[r], seen'[r] = seen[r], answer'[r] = answer[r],
         now' \in Nat,
         \A e \in Emails : /\ ended[e] \subseteq ended'[e]
                           /\ until'[e] <= until[e] \/ until'[e] > now'
  PROVE  Checked(r)'
<1> DEFINE e == op[r].email
           s == seen[r]
<1>1. Checked(r) /\ Placed(r) /\ e \in Emails /\ s.at \in Nat /\ s.days \in Nat
  BY DEF CheckInv, Places, TypeOK
<1>2. Held(r) => Held(r)'
  BY <1>1 DEF Held, Blocking
<1>3. CASE fit[r]
  BY <1>3, Watched DEF Checked
<1>4. CASE pc[r] = "row" /\ ~fit[r]
  <2>1. Held(r)' /\ until[e] <= s.at /\ s.at <= now
    BY <1>1, <1>2, <1>4 DEF Checked, Placed
  <2>2. CASE free'[e] \/ until'[e] > now'
    <3>1. Fit(r)'
      BY <1>1, <1>4, <2>2 DEF Fit, Eligible, Placed
    <3>2. fit'[r]
      BY <1>4, <3>1, Watched DEF Ended
    <3>3. QED BY <1>4, <3>2 DEF Checked
  <2>3. CASE ~free'[e] /\ until'[e] <= until[e]
    <3>1. until'[e] <= s.at
      <4>1. until[e] \in Nat /\ until'[e] \in Nat
        BY <1>1 DEF TypeOK
      <4>2. QED BY <1>1, <2>1, <2>3, <4>1
    <3>2. answer'[r] # "eligible"
      BY <1>1, <1>4 DEF Checked
    <3>3. QED BY <1>4, <2>1, <2>3, <3>1, <3>2 DEF Checked
  <2>4. QED BY <1>1, <2>2, <2>3
<1>5. CASE pc[r] # "row" /\ ~fit[r]
  BY <1>1, <1>2, <1>5 DEF Checked
<1>6. QED BY <1>3, <1>4, <1>5

\* A request that is told nothing of eligibility, or nothing new.
LEMMA ElsewhereChecked ==
  ASSUME TypeOK, Watch, CheckInv, NEW r \in Requests,
         pc'[r] \notin {"row", "sessions"},
         answer'[r] # "eligible" \/ answer'[r] = answer[r]
  PROVE  Checked(r)'
BY Watched DEF Checked, CheckInv

\* The override that a request writes is none, or not over yet.
LEMMA OverridesAhead ==
  ASSUME TypeOK, Places, NEW r \in Requests, Step(r), TypeOK'
  PROVE  /\ now' \in Nat
         /\ (\A e \in Emails : ended'[e] = ended[e])
         /\ (\A e \in Emails : until'[e] <= until[e] \/ until'[e] > now')
<1>1. now' = now /\ now \in Nat /\ ended' = ended
  <2>1. now \in Nat
    BY DEF TypeOK
  <2>2. QED BY <2>1, StepMoves
<1>2. CASE UpdateRow(r) \/ Restrict(r)
  <2>1. \/ until' = until
        \/ /\ until' = [until EXCEPT ![op[r].email] = op[r].until]
           /\ op[r].kind \in {"grant", "revoke"} /\ pc[r] = "begun"
    BY <1>2 DEF UpdateRow, Restrict, Applied
  <2>2. op[r].until \in Nat
    BY DEF TypeOK
  <2>3. op[r].kind \in {"grant", "revoke"} /\ pc[r] = "begun"
          => op[r].until = 0 \/ op[r].until > now
    BY DEF Places, Placed
  <2>4. \A e \in Emails : until[e] \in Nat /\ 0 <= until[e] /\ until[e] <= until[e]
    BY DEF TypeOK
  <2>5. CASE until' = until
    BY <1>1, <2>4, <2>5
  <2>6. CASE until' # until
    <3>1. \A e \in Emails : until'[e] \in {until[e], op[r].until}
      BY <2>1, <2>6 DEF TypeOK
    <3>2. op[r].until = 0 \/ op[r].until > now
      BY <2>1, <2>3, <2>6
    <3>3. QED BY <1>1, <2>2, <2>4, <3>1, <3>2
  <2>7. QED BY <2>5, <2>6
<1>3. CASE ~(UpdateRow(r) \/ Restrict(r))
  <2>1. until' = until
    BY <1>3
    DEF Step, Arrives, FindCandidate, InsertCandidate, GetOrCreate, CreateSession, InsertAudit,
        ReadSettings, NoteTime, ReadRow, ReadSessions, CheckInMemory, SaveSettings, SetFlag,
        SaveConfig, StatementFails, rows
  <2>2. QED BY <1>1, <2>1 DEF TypeOK
<1>4. QED BY <1>2, <1>3

LEMMA CheckStep == ASSUME TypeOK, Places, CheckInv, [Next]_vars PROVE CheckInv'
<1>0. TypeOK'
  BY TypeStep
<1>1. ASSUME NEW r \in Requests, Step(r), Watch PROVE CheckInv'
  <2>1. ASSUME NEW q \in Requests, q # r PROVE Checked(q)'
    <3>1. /\ pc'[q] = pc[q] /\ op'[q] = op[q]
          /\ seen'[q] = seen[q] /\ answer'[q] = answer[q]
      BY <1>1, <2>1, StepMoves
    <3>2. QED BY <1>0, <1>1, <3>1, OverridesAhead, RestsChecked DEF TypeOK
  <2>2. Checked(r)'
    <3>1. CASE NoteTime(r)
      <4>1. /\ pc[r] = "clock" /\ pc'[r] = "row" /\ op' = op /\ answer' = answer
            /\ UNCHANGED <<free, until, ended, now>>
        BY <3>1, ToMoves DEF NoteTime, Points, rows, calls
      <4>2. seen'[r].at = now /\ seen'[r].days = seen[r].days
        BY <3>1 DEF NoteTime, TypeOK
      <4>3. op[r].kind = "check" /\ seen[r].days > 0 /\ answer[r] = "none"
        BY <4>1 DEF Places, Placed
      <4>4. Fit(r)' => fit'[r]
        BY <1>1, <4>1, Watched DEF Ended
      <4>5. Fit(r)' \/ (Held(r)' /\ until[op[r].email] <= now /\ ~free[op[r].email])
        BY <4>1, <4>2, <4>3 DEF Fit, Eligible, Held, Blocking, TypeOK
      <4>6. QED BY <4>1, <4>2, <4>3, <4>4, <4>5 DEF Checked
    <3>2. CASE ReadRow(r)
      <4>1. /\ pc[r] = "row" /\ UNCHANGED <<op, seen, ended>> /\ Checked(r)
            /\ op[r].email \in Emails /\ seen[r].at \in Nat
        BY <3>2 DEF ReadRow, calls, CheckInv, TypeOK
      <4>2. CASE Answers(r, "eligible")
        <5>1. pc'[r] = "done" /\ answer'[r] = "eligible"
          BY <4>2, AnswersMoves
        <5>2. free[op[r].email] \/ until[op[r].email] > seen[r].at
          BY <3>2, <5>1, ToMoves DEF ReadRow, Points
        <5>3. fit[r]
          BY <4>1, <5>2 DEF Checked, TypeOK
        <5>4. QED BY <1>1, <5>1, <5>3, Watched DEF Checked
      <4>3. CASE ~Answers(r, "eligible")
        <5>1. pc'[r] = "sessions" /\ answer' = answer
          BY <3>2, <4>3, ToMoves DEF ReadRow, Points
        <5>2. Held(r) => Held(r)'
          BY <4>1 DEF Held, Blocking
        <5>3. QED BY <1>1, <4>1, <5>1, <5>2, Watched DEF Checked
      <4>4. QED BY <4>2, <4>3
    <3>3. CASE ReadSessions(r)
      <4>1. pc[r] = "sessions" /\ Checked(r)
        BY <3>3 DEF ReadSessions, CheckInv
      <4>2. pc'[r] = "done" /\ (answer'[r] = "eligible" => ~Held(r))
        BY <3>3, AnswersMoves DEF ReadSessions, Held
      <4>3. QED BY <1>1, <4>1, <4>2, Watched DEF Checked
    <3>4. CASE CheckInMemory(r)
      <4>1. /\ pc[r] = "begun" /\ op[r].kind = "check" /\ op' = op
            /\ UNCHANGED <<free, until, ended, now>>
        BY <3>4 DEF CheckInMemory, At, rows, calls
      <4>2. pc'[r] = "done" /\ (answer'[r] = "eligible" => Eligible(op[r].email, cooldown))
        BY <3>4, AnswersMoves DEF CheckInMemory
      <4>3. seen'[r].days = cooldown /\ cooldown > 0
        BY <3>4 DEF CheckInMemory, TypeOK
      <4>4. Eligible(op[r].email, cooldown) => Fit(r)'
        BY <4>1, <4>3 DEF Fit, Eligible, Blocking
      <4>5. QED BY <1>1, <4>1, <4>2, <4>4, Watched DEF Checked, Ended
    <3>5. CASE ReadSettings(r)
      <4>1. pc'[r] = "clock" /\ answer' = answer
        BY <3>5, ToMoves DEF ReadSettings, Points
      <4>2. QED BY <1>1, <4>1, ElsewhereChecked
    <3>6. CASE ~(NoteTime(r) \/ ReadRow(r) \/ ReadSessions(r) \/ CheckInMemory(r) \/ ReadSettings(r))
      <4>1. pc'[r] \notin {"row", "sessions"} /\ answer'[r] \in {"ok", answer[r]}
        BY <1>1, <3>6, ToMoves, AnswersMoves
        DEF Step, Arrives, FindCandidate, InsertCandidate, GetOrCreate, CreateSession, Returned,
            UpdateRow, InsertAudit, Restrict, SaveSettings, SetFlag, SaveConfig, StatementFails,
            mine, Points
      <4>2. QED BY <1>1, <4>1, ElsewhereChecked
    <3>7. QED BY <3>1, <3>2, <3>3, <3>4, <3>5, <3>6
  <2>3. QED BY <2>1, <2>2 DEF CheckInv
<1>2. ASSUME Watch, (\E e \in Emails : SessionCounts(e)) \/ Tick PROVE CheckInv'
  <2>1. UNCHANGED <<pc, op, seen, answer, until>>
    BY <1>2 DEF SessionCounts, Tick, rows, mine
  <2>2. \A e \in Emails : ended[e] \subseteq ended'[e]
    <3>1. ended' = ended \/ \E e \in Emails : ended' = [ended EXCEPT ![e] = @ \union {now}]
      BY <1>2 DEF SessionCounts, Tick, calls
    <3>2. ended \in [Emails -> SUBSET (1..MaxNow)]
      BY DEF TypeOK
    <3>3. QED BY <3>1, <3>2
  <2>3. \A e \in Emails : until'[e] <= until[e]
    BY <2>1 DEF TypeOK
  <2>4. until' \in [Emails -> Nat] /\ now' \in Nat
    BY <1>0 DEF TypeOK
  <2>5. QED BY <1>2, <2>1, <2>2, <2>3, <2>4, RestsChecked DEF CheckInv
<1>3. ASSUME Watch, Restart PROVE CheckInv'
  <2>1. \A r \in Requests : pc'[r] \notin {"row", "sessions"} /\ answer'[r] = answer[r]
    BY <1>3 DEF Restart, mine, Ended, TypeOK
  <2>2. QED BY <1>3, <2>1, ElsewhereChecked DEF CheckInv
<1>4. CASE UNCHANGED vars
  BY <1>4 DEF vars, rows, calls, mine, CheckInv, Checked, Held, Blocking
<1>5. QED BY <1>1, <1>2, <1>3, <1>4 DEF Next

\* Who is told that a candidate is eligible is told what was so at some moment
\* of the check.
THEOREM ChecksCorrect == Spec => []EligibleAnswersWereTrue
<1>1. Init => CheckInv
  BY DEF Init, CheckInv, Checked
<1>2. TypeOK /\ Places /\ CheckInv /\ [Next]_vars => TypeOK' /\ Places' /\ CheckInv'
  BY TypeStep, PlacesStep, CheckStep
<1>3. CheckInv => EligibleAnswersWereTrue
  BY DEF CheckInv, Checked, EligibleAnswersWereTrue
<1>4. QED BY InitType, <1>1, <1>2, <1>3, PTL DEF Spec

-----------------------------------------------------------------------------
(* What no restart, race or failure undoes, and what the lock gives.       *)

\* Only requests over Postgres leave a restriction half done.
LEMMA TornStep ==
  ASSUME TypeOK, Places, adapter = "memory" => torn = {}, [Next]_vars
  PROVE  adapter' = adapter /\ (adapter = "memory" => torn' = {})
<1>1. ASSUME NEW r \in Requests, Step(r)
      PROVE  adapter' = adapter /\ (adapter = "memory" => torn' = {})
  BY <1>1
  DEF Step, Arrives, FindCandidate, InsertCandidate, GetOrCreate, CreateSession, UpdateRow,
      InsertAudit, Restrict, ReadSettings, NoteTime, ReadRow, ReadSessions, CheckInMemory,
      SaveSettings, SetFlag, SaveConfig, StatementFails
<1>2. (\E e \in Emails : SessionCounts(e)) \/ Restart \/ Tick \/ UNCHANGED vars
        => adapter' = adapter /\ (adapter = "memory" => torn' = {})
  BY DEF SessionCounts, Restart, Tick, vars
<1>3. QED BY <1>1, <1>2 DEF Next

\* In memory each restriction and its audit entry are one step under the lock:
\* at every moment the rows of all candidates are what the log says of them.
THEOREM MemoryAuditExact ==
  Spec => [](adapter = "memory" => \A e \in known : FreeExplained(e) /\ UntilExplained(e))
<1> DEFINE Whole == adapter = "memory" => torn = {}
           Exact == adapter = "memory" => \A e \in known : FreeExplained(e) /\ UntilExplained(e)
<1>1. Init => Whole
  BY DEF Init
<1>2. TypeOK /\ Places /\ Whole /\ [Next]_vars => TypeOK' /\ Places' /\ Whole'
  BY TypeStep, PlacesStep, TornStep
<1>3. Places /\ Whole /\ AuditExplainsRow => Exact
  BY DEF Places, Placed, Halfway, AuditExplainsRow
<1> HIDE DEF Whole, Exact
<1>4. Spec => []Exact
  BY InitType, AuditCorrect, <1>1, <1>2, <1>3, PTL DEF Spec
<1>5. QED BY <1>4 DEF Exact

\* The audit log only grows, by one entry about a candidate that exists.
LEMMA LogKept ==
  ASSUME TypeOK, Places, [Next]_vars
  PROVE  \/ UNCHANGED audit
         \/ \E e \in known, x \in AuditEntry : x.email = e /\ audit' = Append(audit, x)
<1>1. ASSUME NEW r \in Requests, InsertAudit(r) \/ Restrict(r)
      PROVE  \/ UNCHANGED audit
             \/ \E e \in known, x \in AuditEntry : x.email = e /\ audit' = Append(audit, x)
  <2>1. op[r].kind \in Restrictions
    BY <1>1 DEF InsertAudit, Restrict, Places, Placed
  <2>2. Entry(op[r]) \in AuditEntry /\ Entry(op[r]).email = op[r].email
    BY <2>1 DEF Entry, AuditEntry, TypeOK
  <2>3. UNCHANGED audit \/ (op[r].email \in known /\ audit' = Append(audit, Entry(op[r])))
    BY <1>1 DEF InsertAudit, Restrict
  <2>4. QED BY <2>2, <2>3
<1>2. ASSUME NEW r \in Requests, Step(r)
      PROVE  InsertAudit(r) \/ Restrict(r) \/ UNCHANGED audit
  BY <1>2
  DEF Step, Arrives, FindCandidate, InsertCandidate, GetOrCreate, CreateSession, UpdateRow,
      ReadSettings, NoteTime, ReadRow, ReadSessions, CheckInMemory, SaveSettings, SetFlag,
      SaveConfig, StatementFails, rows
<1>3. (\E e \in Emails : SessionCounts(e)) \/ Restart \/ Tick \/ UNCHANGED vars
        => UNCHANGED audit
  BY DEF SessionCounts, Restart, Tick, vars, rows
<1>4. QED BY <1>1, <1>2, <1>3 DEF Next

\* Whatever races, fails or restarts, no step deletes or renames a candidate,
\* and the audit log is appended to, never rewritten, and only about candidates
\* whose row exists.
THEOREM RecordsAreKept ==
  Spec => [][/\ \A e \in known : e \in known' /\ name'[e] = name[e]
             /\ \/ UNCHANGED audit
                \/ \E e \in known, x \in AuditEntry :
                     x.email = e /\ audit' = Append(audit, x)]_rows
<1> DEFINE Kept == /\ \A e \in known : e \in known' /\ name'[e] = name[e]
                   /\ \/ UNCHANGED audit
                      \/ \E e \in known, x \in AuditEntry :
                           x.email = e /\ audit' = Append(audit, x)
<1>1. TypeOK /\ Places /\ [Next]_vars => TypeOK' /\ Places' /\ [Kept]_rows
  <2> SUFFICES ASSUME TypeOK, Places, [Next]_vars PROVE Kept
    BY TypeStep, PlacesStep
  <2>1. \A e \in known : e \in known' /\ name'[e] = name[e]
    BY NamesKept
  <2>2. QED BY <2>1, LogKept
<1> HIDE DEF Kept
<1>2. Spec => [][Kept]_rows
  BY InitType, <1>1, PTL DEF Spec
<1>3. QED BY <1>2 DEF Kept
=============================================================================
