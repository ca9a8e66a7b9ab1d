------------------------------ MODULE Candidacy ------------------------------
(***************************************************************************)
(* Candidates, their cooldown and the settings of the site: the requests   *)
(* of api/routes.py that create a candidate, trigger a call, grant, revoke *)
(* and toggle restrictions, check eligibility, and change the settings,    *)
(* over the two persistence adapters.                                      *)
(*                                                                         *)
(* The in-memory adapter does each method under its lock, in one step.     *)
(* The Postgres adapter does it in several statements that each commit on  *)
(* their own, so the requests interleave between them, any of them may     *)
(* fail, and a restart abandons those under way.                           *)
(*                                                                         *)
(* Abstracted: who granted what and why, names (a value stands for first   *)
(* name, last name and employee id), the texts of the answers.  A call is  *)
(* its session row until it ends with a status that counts; CallLifecycle  *)
(* has the rest.  CallManager is built as main.py builds it, without an    *)
(* eligibility service.                                                    *)
(***************************************************************************)
EXTENDS Integers, Sequences

CONSTANTS
  Emails,        \* candidates, by their primary key
  Names,         \* what the intake form may say
  NoName,        \* the empty names that trigger_call passes
  Requests,      \* the requests; each is sent at most once
  Days,          \* lengths of an override and of the cooldown, in days
  MaxNow,        \* bound: the last day
  DefaultFlag    \* ENABLE_SFIA_FLOW of the environment

ASSUME EmailsAssumption == Emails # {}
ASSUME NamesAssumption == NoName \notin Names
ASSUME DaysAssumption == Days \subseteq Nat \ {0}
ASSUME MaxNowAssumption == MaxNow \in Nat \ {0}
ASSUME DefaultFlagAssumption == DefaultFlag \in BOOLEAN

VARIABLES
  adapter,    \* the persistence main.py has chosen
  now,        \* the day
  known,      \* candidates: the rows that exist
  name,       \* their names
  free,       \* no_restrictions
  until,      \* cooldown_override_expires_at, 0 for NULL
  audit,      \* candidate_restriction_audit
  open,       \* sessions under way, by candidate
  ended,      \* endedAt of the sessions that count, by candidate
  cooldown,   \* admin_settings.cooldownDays
  flag,       \* settings.enable_sfia_flow of the process
  stored,     \* admin_settings.siteConfig: the saved flag, or nothing
  pc,         \* where each request is
  op,         \* what it asks for
  seen,       \* what a check has read
  answer,     \* what it was told
  fit,        \* history: its candidate was eligible at some moment of it
  torn,       \* history: candidates with overlapping or half done restrictions
  strayed     \* history: flag and stored may differ

rows == <<known, name, free, until, audit>>
calls == <<open, ended>>
site == <<cooldown, flag, stored, strayed>>
mine == <<op, seen, answer>>
vars == <<adapter, now, rows, calls, site, pc, mine, fit, torn>>

Someone == CHOOSE e \in Emails : TRUE

Ask(k, e, n, b, u, d) ==
  [kind |-> k, email |-> e, name |-> n, on |-> b, until |-> u, days |-> d]

NoOp == Ask("none", Someone, NoName, FALSE, 0, 0)

NothingSeen == [days |-> 0, at |-> 0, name |-> NoName]

Kinds == {"none", "intake", "trigger", "check", "grant", "revoke", "toggle", "settings",
          "patch"}
Restrictions == {"grant", "revoke", "toggle"}
Ended == {"done", "failed"}

Init ==
  /\ adapter \in {"postgres", "memory"}
  /\ now = 1
  /\ known = {}
  /\ name = [e \in Emails |-> NoName]
  /\ free = [e \in Emails |-> FALSE]
  /\ until = [e \in Emails |-> 0]
  /\ audit = <<>>
  /\ open = [e \in Emails |-> 0]
  /\ ended = [e \in Emails |-> {}]
  /\ cooldown \in Days
  /\ flag = DefaultFlag
  /\ stored = {}
  /\ pc = [r \in Requests |-> "none"]
  /\ op = [r \in Requests |-> NoOp]
  /\ seen = [r \in Requests |-> NothingSeen]
  /\ answer = [r \in Requests |-> "none"]
  /\ fit = [r \in Requests |-> FALSE]
  /\ torn = {}
  /\ strayed = FALSE

AuditEntry == [email : Emails, kind : Restrictions, on : BOOLEAN, until : Nat]

TypeOK ==
  /\ adapter \in {"postgres", "memory"}
  /\ now \in 1..MaxNow
  /\ known \subseteq Emails
  /\ name \in [Emails -> Names \union {NoName}]
  /\ free \in [Emails -> BOOLEAN]
  /\ until \in [Emails -> Nat]
  /\ audit \in Seq(AuditEntry)
  /\ open \in [Emails -> Nat]
  /\ ended \in [Emails -> SUBSET (1..MaxNow)]
  /\ cooldown \in Days
  /\ flag \in BOOLEAN
  /\ stored \in SUBSET BOOLEAN
  /\ pc \in [Requests -> {"none", "begun", "insert", "create", "audit", "clock",
                          "row", "sessions", "save", "done", "failed"}]
  /\ op \in [Requests -> [kind : Kinds, email : Emails, name : Names \union {NoName},
                          on : BOOLEAN, until : Nat, days : Nat]]
  /\ seen \in [Requests -> [days : Nat, at : Nat, name : Names \union {NoName}]]
  /\ answer \in [Requests -> {"none", "eligible", "blocked", "ok"}]
  /\ fit \in [Requests -> BOOLEAN]
  /\ torn \subseteq Emails
  /\ strayed \in BOOLEAN

At(r, k, p) == op[r].kind = k /\ pc[r] = p
To(r, p) == pc' = [pc EXCEPT ![r] = p]
Answers(r, a) == To(r, "done") /\ answer' = [answer EXCEPT ![r] = a]

Asks(r, o) == op' = [op EXCEPT ![r] = o]

\* The handler begins with what it is asked for; the route computes expires_at.
Arrives(r) ==
  /\ pc[r] = "none"
  /\ \/ \E e \in Emails, n \in Names : Asks(r, Ask("intake", e, n, FALSE, 0, 0))
     \/ \E e \in Emails, k \in {"trigger", "check", "revoke"} :
          Asks(r, Ask(k, e, NoName, FALSE, 0, 0))
     \/ \E e \in Emails, d \in Days : Asks(r, Ask("grant", e, NoName, FALSE, now + d, 0))
     \/ \E e \in Emails, b \in BOOLEAN : Asks(r, Ask("toggle", e, NoName, b, 0, 0))
     \/ \E d \in Days : Asks(r, Ask("settings", Someone, NoName, FALSE, 0, d))
     \/ \E b \in BOOLEAN : Asks(r, Ask("patch", Someone, NoName, b, 0, 0))
  /\ To(r, "begun")
  /\ UNCHANGED <<adapter, now, rows, calls, site, seen, answer, torn>>

-----------------------------------------------------------------------------
(* get_or_create_candidate, for the intake form and for trigger_call.      *)

\* The candidate's row is returned: the form's answer repeats it, and
\* trigger_call goes on to create the session.
Returned(r, n) ==
  /\ seen' = [seen EXCEPT ![r].name = n]
  /\ \/ op[r].kind = "intake" /\ Answers(r, "ok")
     \/ op[r].kind = "trigger" /\ To(r, "create") /\ UNCHANGED answer

Stored(e, n) ==
  /\ known' = known \union {e}
  /\ name' = [name EXCEPT ![e] = n]

\* Postgres: SELECT by e-mail.
FindCandidate(r) ==
  LET e == op[r].email IN
  /\ adapter = "postgres"
  /\ op[r].kind \in {"intake", "trigger"}
  /\ pc[r] = "begun"
  /\ \/ e \in known /\ Returned(r, name[e])
     \/ e \notin known /\ To(r, "insert") /\ UNCHANGED <<seen, answer>>
  /\ UNCHANGED <<adapter, now, rows, calls, site, op, torn>>

\* Mutant: the INSERT is an upsert.
InsertCandidate_Upsert(r) ==
  LET o == op[r] IN
  /\ pc[r] = "insert"
  /\ Stored(o.email, o.name) /\ Returned(r, o.name)
  /\ UNCHANGED <<adapter, now, free, until, audit, calls, site, op, torn>>

\* Postgres: INSERT; another request may have inserted the key meanwhile.
InsertCandidate(r) ==
  LET o == op[r] IN
  /\ pc[r] = "insert"
  /\ \/ o.email \notin known /\ Stored(o.email, o.name) /\ Returned(r, o.name)
     \/ o.email \in known /\ To(r, "failed") /\ UNCHANGED <<known, name, seen, answer>>
  /\ UNCHANGED <<adapter, now, free, until, audit, calls, site, op, torn>>

\* In memory: both under the lock.
GetOrCreate(r) ==
  LET o == op[r] IN
  /\ adapter = "memory"
  /\ o.kind \in {"intake", "trigger"}
  /\ pc[r] = "begun"
  /\ \/ o.email \in known /\ Returned(r, name[o.email]) /\ UNCHANGED <<known, name>>
     \/ o.email \notin known /\ Stored(o.email, o.name) /\ Returned(r, o.name)
  /\ UNCHANGED <<adapter, now, free, until, audit, calls, site, op, torn>>

\* trigger_call stores the session and answers; the dial is a task of its own.
CreateSession(r) ==
  /\ pc[r] = "create"
  /\ open' = [open EXCEPT ![op[r].email] = @ + 1]
  /\ Answers(r, "ok")
  /\ UNCHANGED <<adapter, now, rows, ended, site, op, seen, torn>>

\* A session ends as completed, processed or user_ended.
SessionCounts(e) ==
  /\ open[e] > 0
  /\ open' = [open EXCEPT ![e] = @ - 1]
  /\ ended' = [ended EXCEPT ![e] = @ \union {now}]
  /\ UNCHANGED <<adapter, now, rows, site, pc, mine, torn>>

-----------------------------------------------------------------------------
(* grant_cooldown_override, revoke_cooldown_override, set_no_restrictions. *)

\* Mutant: a revocation leaves the override in the row.
Applied_NoRevoke(o) ==
  /\ until' = IF o.kind = "grant" THEN [until EXCEPT ![o.email] = o.until] ELSE until
  /\ free' = IF o.kind = "toggle" THEN [free EXCEPT ![o.email] = o.on] ELSE free

Applied(o) ==
  /\ until' = IF o.kind \in {"grant", "revoke"}
              THEN [until EXCEPT ![o.email] = o.until] ELSE until
  /\ free' = IF o.kind = "toggle" THEN [free EXCEPT ![o.email] = o.on] ELSE free

Entry(o) == [email |-> o.email, kind |-> o.kind, on |-> o.on, until |-> o.until]

\* Requests between their two statements on candidate e.
Halfway(e) == {r \in Requests : pc[r] = "audit" /\ op[r].email = e}

\* Postgres: the UPDATE of the row, which may not exist.
UpdateRow(r) ==
  LET o == op[r] IN
  /\ adapter = "postgres"
  /\ o.kind \in Restrictions
  /\ pc[r] = "begun"
  /\ \/ o.email \in known /\ Applied(o)
     \/ o.email \notin known /\ UNCHANGED <<until, free>>
  /\ torn' = IF o.email \notin known \/ Halfway(o.email) # {}
             THEN torn \union {o.email} ELSE torn
  /\ To(r, "audit")
  /\ UNCHANGED <<adapter, now, known, name, audit, calls, site, mine>>

\* Postgres: the INSERT of the audit entry, whose candidate must exist.
InsertAudit(r) ==
  LET o == op[r] IN
  /\ pc[r] = "audit"
  /\ \/ o.email \in known /\ audit' = Append(audit, Entry(o)) /\ Answers(r, "ok")
     \/ o.email \notin known /\ To(r, "failed") /\ UNCHANGED <<audit, answer>>
  /\ UNCHANGED <<adapter, now, known, name, free, until, calls, site, op, seen, torn>>

\* In memory: both under the lock; an unknown candidate is answered like any.
Restrict(r) ==
  LET o == op[r] IN
  /\ adapter = "memory"
  /\ o.kind \in Restrictions
  /\ pc[r] = "begun"
  /\ \/ o.email \in known /\ Applied(o) /\ audit' = Append(audit, Entry(o))
     \/ o.email \notin known /\ UNCHANGED <<until, free, audit>>
  /\ Answers(r, "ok")
  /\ UNCHANGED <<adapter, now, known, name, calls, site, op, seen, torn>>

-----------------------------------------------------------------------------
(* check_assessment_eligibility. *)

\* A session of e counts within d days before day t.
Blocking(e, t, d) == \E x \in ended[e] : x >= t - d

Eligible(e, d) == free[e] \/ until[e] > now \/ ~Blocking(e, now, d)

\* Postgres: get_admin_settings, on a connection of its own.
ReadSettings(r) ==
  /\ adapter = "postgres"
  /\ At(r, "check", "begun")
  /\ seen' = [seen EXCEPT ![r].days = cooldown]
  /\ To(r, "clock")
  /\ UNCHANGED <<adapter, now, rows, calls, site, op, answer, torn>>

NoteTime(r) ==
  /\ pc[r] = "clock"
  /\ seen' = [seen EXCEPT ![r].at = now]
  /\ To(r, "row")
  /\ UNCHANGED <<adapter, now, rows, calls, site, op, answer, torn>>

ReadRow(r) ==
  LET e == op[r].email IN
  /\ pc[r] = "row"
  /\ \/ (free[e] \/ until[e] > seen[r].at) /\ Answers(r, "eligible")
     \/ ~free[e] /\ until[e] <= seen[r].at /\ To(r, "sessions") /\ UNCHANGED answer
  /\ UNCHANGED <<adapter, now, rows, calls, site, op, seen, torn>>

\* Mutant: a session that ended on the day of the cutoff no longer blocks.
ReadSessions_Late(r) ==
  /\ pc[r] = "sessions"
  /\ Answers(r, IF Blocking(op[r].email, seen[r].at, seen[r].days - 1)
                THEN "blocked" ELSE "eligible")
  /\ UNCHANGED <<adapter, now, rows, calls, site, op, seen, torn>>

ReadSessions(r) ==
  /\ pc[r] = "sessions"
  /\ Answers(r, IF Blocking(op[r].email, seen[r].at, seen[r].days)
                THEN "blocked" ELSE "eligible")
  /\ UNCHANGED <<adapter, now, rows, calls, site, op, seen, torn>>

\* In memory: all of it under the lock.
CheckInMemory(r) ==
  /\ adapter = "memory"
  /\ At(r, "check", "begun")
  /\ seen' = [seen EXCEPT ![r] = [days |-> cooldown, at |-> now, name |-> @.name]]
  /\ Answers(r, IF Eligible(op[r].email, cooldown) THEN "eligible" ELSE "blocked")
  /\ UNCHANGED <<adapter, now, rows, calls, site, op, torn>>

-----------------------------------------------------------------------------
(* The settings. *)

\* save_admin_settings, one upsert.
SaveSettings(r) ==
  /\ At(r, "settings", "begun")
  /\ cooldown' = op[r].days
  /\ Answers(r, "ok")
  /\ UNCHANGED <<adapter, now, rows, calls, flag, stored, strayed, op, seen, torn>>

\* patch_site_config sets the flag of the process first ...
SetFlag(r) ==
  /\ At(r, "patch", "begun")
  /\ flag' = op[r].on
  /\ strayed' = (strayed \/ \E q \in Requests : pc[q] = "save")
  /\ To(r, "save")
  /\ UNCHANGED <<adapter, now, rows, calls, cooldown, stored, mine, torn>>

\* ... and then awaits save_site_config.
SaveConfig(r) ==
  /\ pc[r] = "save"
  /\ stored' = {op[r].on}
  /\ Answers(r, "ok")
  /\ UNCHANGED <<adapter, now, rows, calls, cooldown, flag, strayed, op, seen, torn>>

-----------------------------------------------------------------------------
(* Failures and the calendar. *)

Torn(failing) == {op[r].email : r \in {q \in failing : pc[q] = "audit"}}

\* A statement raises, or the client has gone: the request answers 500.
StatementFails(r) ==
  /\ adapter = "postgres"
  /\ pc[r] \notin {"none"} \union Ended
  /\ torn' = torn \union Torn({r})
  /\ strayed' = (strayed \/ pc[r] = "save")
  /\ To(r, "failed")
  /\ UNCHANGED <<adapter, now, rows, calls, cooldown, flag, stored, mine>>

\* What main.py makes of the saved configuration.
Loaded == TRUE \in stored \/ (stored = {} /\ DefaultFlag)

\* Mutant: the environment wins over the saved configuration.
Restart_EnvWins ==
  /\ adapter = "postgres"
  /\ LET active == {r \in Requests : pc[r] \notin {"none"} \union Ended}
     IN  /\ pc' = [r \in Requests |-> IF r \in active THEN "failed" ELSE pc[r]]
         /\ torn' = torn \union Torn(active)
  /\ flag' = DefaultFlag /\ strayed' = FALSE
  /\ UNCHANGED <<adapter, now, rows, calls, cooldown, stored, mine>>

\* The service restarts over the same database and loads the saved flag; when
\* that fails, the environment's value stays ("best-effort").
Restart ==
  /\ adapter = "postgres"
  /\ LET active == {r \in Requests : pc[r] \notin {"none"} \union Ended}
     IN  /\ pc' = [r \in Requests |-> IF r \in active THEN "failed" ELSE pc[r]]
         /\ torn' = torn \union Torn(active)
  /\ \/ strayed' = FALSE /\ flag' = Loaded
     \/ strayed' = TRUE /\ flag' = DefaultFlag
  /\ UNCHANGED <<adapter, now, rows, calls, cooldown, stored, mine>>

\* The next day begins; no grant is under way for longer than its override.
Tick ==
  /\ now < MaxNow
  /\ \A r \in Requests : At(r, "grant", "begun") => op[r].until > now + 1
  /\ now' = now + 1
  /\ UNCHANGED <<adapter, rows, calls, site, pc, mine, torn>>

Step(r) ==
  \/ Arrives(r)
  \/ FindCandidate(r) \/ InsertCandidate(r) \/ GetOrCreate(r) \/ CreateSession(r)
  \/ UpdateRow(r) \/ InsertAudit(r) \/ Restrict(r)
  \/ ReadSettings(r) \/ NoteTime(r) \/ ReadRow(r) \/ ReadSessions(r) \/ CheckInMemory(r)
  \/ SaveSettings(r) \/ SetFlag(r) \/ SaveConfig(r)
  \/ StatementFails(r)

\* The candidate of r is eligible now, under the cooldown that r goes by.
Fit(r) ==
  \/ op[r].kind = "trigger" /\ Eligible(op[r].email, cooldown)
  \/ op[r].kind = "check" /\ seen[r].days > 0 /\ Eligible(op[r].email, seen[r].days)

Watch == fit' = [r \in Requests |-> fit[r] \/ (pc[r] \notin Ended /\ Fit(r)')]

Next ==
  /\ \/ \E r \in Requests : Step(r)
     \/ \E e \in Emails : SessionCounts(e)
     \/ Restart \/ Tick
  /\ Watch

Spec == Init /\ [][Next]_vars

-----------------------------------------------------------------------------
(* Properties. *)

\* The last entry about e of the kinds in K, if there is one.
Latest(e, K) ==
  LET About(i) == audit[i].email = e /\ audit[i].kind \in K
  IN  {i \in 1..Len(audit) : About(i) /\ \A j \in 1..Len(audit) : j > i => ~About(j)}

FreeExplained(e) == free[e] <=> \E i \in Latest(e, {"toggle"}) : audit[i].on

UntilExplained(e) ==
  LET last == Latest(e, {"grant", "revoke"})
  IN  \/ last = {} /\ until[e] = 0
      \/ \E i \in last : audit[i].until = until[e]

\* The restrictions in a candidate's row are what the audit log says of them:
\* in memory always, over Postgres while no request is between its UPDATE and
\* its INSERT, unless two have overlapped there or one has failed.
AuditExplainsRow ==
  \A e \in known \ torn :
    Halfway(e) = {} => FreeExplained(e) /\ UntilExplained(e)

\* Who is told that a candidate is eligible is told what was so, under the
\* cooldown of the answer, at some moment of the check, though settings, row
\* and sessions are read one after the other.
EligibleAnswersWereTrue ==
  \A r \in Requests : answer[r] = "eligible" => fit[r]

\* What an intake was told of its candidate stays true: nobody overwrites a
\* name, whichever of two first requests wins.
AnsweredCandidateKept ==
  \A r \in Requests :
    answer[r] = "ok" /\ op[r].kind \in {"intake", "trigger"} =>
      op[r].email \in known /\ name[op[r].email] = seen[r].name

\* The flag of the process is the saved one, or the environment's while none
\* is saved, through restarts: "so it survives service restarts".
FlagSurvives ==
  ~strayed /\ (\A r \in Requests : pc[r] # "save") =>
    flag = Loaded

\* "Called in CallManager.trigger_call - raises EligibilityError (HTTP 429)
\* when ineligible."  It fails: no eligibility service is wired.
CooldownIsKept ==
  \A r \in Requests : answer[r] = "ok" /\ op[r].kind = "trigger" => fit[r]
=============================================================================
