# A TLA+ model of the AI skills assessor

The repository is a voice product: a candidate fills in a form, a bot calls them
(in the browser over LiveKit, or by telephone over Daily), talks with them about
their skills, and the claims it hears are reviewed by an expert and a supervisor.
This project models the parts of it where several coroutines, requests or people
change the same state, checks them with TLC and proves the most important
invariants with TLAPS.

Paths below are relative to `src/apps/voice-engine/src/` unless they start with `web/`
(`src/apps/web/src/`).

## 1. The system

| Part | State it keeps | Operations | Talks to |
|---|---|---|---|
| Call manager (`domain/services/call_manager.py`) | `_connections`, its background tasks | `trigger_call`, `_place_call`, `on_call_connected/ended/failed`, `cancel_call`, `drain` | the row, the transport |
| Session row (`assessment_sessions`) | status, started/ended, termination reason, join URL, transcript, report columns | single SQL statements of `adapters/postgres_persistence.py`; the same in memory | everybody |
| Voice transports (`adapters/livekit_transport.py`, `daily_transport.py`) | `_active` bots by session | `dial`, `hangup`, `close` | bot, listener |
| Bots (`flows/bot_runner.py`) | pipeline task, runner task, `_connected_notified` | `start`, `cancel`, the transport's event handlers | transport events, listener |
| Scripted conversation (`flows/basic_call_bot.py`, `greeting_flow.py`) | conversation state, reply buffer, debounce task, `_ended` | `_start_conversation`, `_ping_debounce`, `_finalise_reply_after_pause`, `_reply_timeout_guard`, `_on_reply_complete`, `_end` | the language model, the bot |
| SFIA flow (`flows/sfia_flow_controller.py`, `transcript_recorder.py`) | phase, turns, identified skills | five states' handlers, `finalize`, `_finalize_and_end` | knowledge base, row, post-call pipeline |
| Post-call pipeline (`post_call_pipeline.py`, `claim_extractor.py`, `report_generator.py`) | none | `process` | row, language model |
| Review portal (`api/routes.py`, both persistence adapters, `web/app/review`) | the report columns of the row | page load, `save_report`, `save_expert_review`, `save_supervisor_review`, `save_admin_claim_flags` | row |
| Candidates and eligibility (`api/routes.py`, `eligibility_service.py`, adapters) | names, override, exemption and audit of a candidate; cooldown; saved flag | `get_or_create_candidate`, check, grant, revoke, set, settings, `patch_site_config` | row, call manager |
| Speech services (`adapters/stt`, `adapters/tts`) | the socket, the receive task, the count of finished segments | connect, receive, reconnect, flush | servers |
| Skill frameworks, knowledge base, prompt builder | frameworks, skills, levels, embeddings, attributes | `upsert_framework...`, `bulk_import_framework`, search | Postgres |
| Candidate page (`web/components/candidate`) | last polled status, timer, `focusLostAtRef` | poll, focus event, cancel, beacon | API, room |

What makes the behaviour hard:

* **One row, many writers.** The dial, the pick-up, up to three sources of an end,
  three of a failure and any number of cancel requests are coroutines of one event
  loop. Each makes several database calls and loses control at each of them. No
  statement is conditional on the status that was read.
* **Two stores of the truth.** The row says what became of the call; `_connections`
  and `_active` say what can still be hung up. A cancel needs both to agree.
* **Partial failure.** A database error between the status and the reason, a bot
  whose runner is cut off while it records a crash, a process that restarts.
* **Timers.** The debounce of the reply is cancelled at every sign of speech, the
  guard is never cancelled; both end in the same method.
* **Several statements, no transaction.** An import is some hundred statements, a
  restriction two, an eligibility check three reads on two connections; others come between
  and any of them may fail.
* **A stale view.** The page decides by the status it last polled; the speech client by a
  count it took on a connection that may be gone.
* **Read, await, write back.** The Postgres adapter merges a review into a JSON
  column it has read earlier, and no condition ties the UPDATE to the SELECT.

The correctness properties per part: a call is explained, is never undone without
cause, its bot can always be hung up and is; the script is said once, in order, to
somebody, about all that they said, and ends; a report is complete only with both
reviews, an acknowledged review stays, a role submits once; what was said reaches the
bot in order, once, before the end; a candidate keeps their name, their restrictions are
those the audit tells of, and an answer of "eligible" was true; embeddings are those of
the content; the page learns of the end, and a tab that is closed on a call ends it.

`PROJECT.json` lists the hazards at their lines, with the properties that cover them.

## 2. The modules

```
SessionStatus  <- SessionRow (abstract)  <= CallLifecycle <- CallLifecycleProofs
                                         <= CandidatePage <- CandidatePageProofs
ScriptedConversation <- ScriptedConversationProofs
AtomicReviews (abstract) <= ReviewPortal <- ReviewPortalProofs
AssessmentFlow <- AssessmentFlowProofs
WhisperStream <- WhisperStreamProofs
Candidacy <- MCCandidacy, CandidacyProofs
FrameworkCatalog <- MCFrameworkCatalog, FrameworkCatalogProofs
        <-  EXTENDS        <=  is implemented by
```

| Module | Models |
|---|---|
| `SessionStatus` | the statuses of a session and the groups of them the code tests for |
| `SessionRow` | abstract: what readers of the row may rely on |
| `CallLifecycle` | one call: the row, `CallManager`'s coroutines, the bot, restarts and database errors |
| `ScriptedConversation` | the basic call's script: StartFrame handler, debounce, guard, the end |
| `AtomicReviews` | abstract: what the persistence port promises of reviews |
| `ReviewPortal` | one session's report under reviews, over either adapter |
| `AssessmentFlow` | the skills assessment: five states, the transcript, the end of the call, the post-call pipeline |
| `WhisperStream` | the speech client and the server's connections: connecting, the receive task, the segment window, the flush |
| `Candidacy` | intake, restrictions and their audit, the eligibility check, the settings, over either adapter |
| `FrameworkCatalog` | the four framework tables under single writes and bulk imports, over either adapter |
| `CandidatePage` | the page's poll, focus monitoring and cancel requests, composed with `SessionRow` |
| `MC*` | payloads and symmetry for TLC |
| `*Proofs` | the theorems of the module they extend |

**CallLifecycle.** Each coroutine is a small program counter whose states are named
for the database call that comes next: `placing`, `pickup`, `ending[source]`,
`failing[source]`, `cancelling[request]`, `reporting`. An action applies one
statement and runs the Python code up to the next await, because that is exactly
what cannot be interrupted. `update_session_status` is `WriteStatus`: it overwrites the
status whatever it was, and keeps a stamp it is not given. `DbFault` makes any
pending statement raise, with what each caller does about it: `_place_call` turns
the error of its first write into the failed path, the listener swallows it and
its caller goes on to stop the bot, `cancel_call` gives up. `Restart` keeps the row
and nothing else. `connection` is the entry in `_connections`, `bot` the one in `_active`.
Sessions share nothing, so one is modelled.

**ScriptedConversation.** `start` is the handler of the StartFrame, `debounce` the set of
sleeping `_finalise_reply_after_pause` tasks, `guard` the reply timer, `closing[task]`
the progress of `_on_reply_complete` in each of the two tasks that can run it. Time is
abstracted: a timer fires whenever it is armed. The end of the pipeline stops the
frames and the handler of the StartFrame, not the two tasks, which is what the
code does: nobody cancels them.

**ReviewPortal.** A request opens the page (`Open` fixes the token and the claim ids it
will send), looks the report up (`Lookup`: 404, 409, or the row that was read), and
saves. Over Postgres anything may happen between the last two; over memory the lock
excludes it. The claims are one object that carries, for each role, the request
whose patch it holds. `SaveReport` is a second run of the pipeline: new claims, new
tokens; the submission columns are reset in memory and kept in Postgres.

**AssessmentFlow.** `phase` moves as the language model calls the functions of the
current node. `ending[e]` is the place in `_finalize_and_end`, and in what follows it, of
a call of `call_ended` or of a departure; its arguments (`snapshot`, `withSkills`) are fixed
before its first await, so that two overlapping ends can write an older transcript after
a newer one. A function call is a task of the very pipeline it stops: `IsCut` lets it be cut off
at any await once the bot is no longer running, which the handlers of the transport are not.
`runs[r]` are the runs of `PostCallPipeline.process`, those that `call_ended` starts and
those of `POST /process`. A transcript is the number of its turns, a report the number of
turns it was made of. `Wired` says whether the bot was given a persistence and a post-call
pipeline: the constructor takes both and the tests pass both. The run takes it as TRUE, the
theorems hold for either value; what the transport does instead is in section 6.

**WhisperStream.** `proc` is where the pipeline's own task is in `_connect`, `process_frame` or
`_disconnect`; `task[c]` is the receive task of connection `c`, which lives on beside the next
one when a send has failed (`SendFails` forgets the socket, not the task). A segment is a
number. The server answers with its last `Window` completed segments; `batch[c]` is what of
them the task is about to push. `_disconnect` waits for the task, and cancels it after ten
seconds, which is `Disconnected` happening before the task is done.

**Candidacy.** Each request carries its own program counter: over Postgres it goes from statement
to statement, over memory it is one step. `trigger_call` is an intake with empty names followed
by `CreateSession`, without the eligibility check, as `main.py` builds the call manager. Time is
a day. `fit[r]` is a history of whether the candidate was eligible during request `r`;
`torn` names the candidates of whom two restrictions have overlapped or one failed between its
statements, for whom the code promises nothing; `strayed` does the same for the flag, which the
route sets in the process before it saves it.

**FrameworkCatalog.** The four tables are one sequence of rows; the index of a row is its id.
An embedding is represented by the text it was computed from. `Found` is what a key leads to: over Postgres
the unique constraint, which a NULL level never meets; in memory an index that keeps
the key a row was created with (`born`), since an edit by id does not update it. A payload is
the set of its lines, each with its place in the list of its table; as in `route.ts` and in the
endpoint, nothing keeps two lines from having one key. An import goes
through them table by table and line by line (`ComesTo`) and remembers the ids that the
statements return (`ids`); `clean` is a history of whether somebody else has written since.

**CandidatePage.** The row is `SessionRow`, so that what the page meets is every behaviour
CallLifecycle can show it. `poll` is the timer and the one status request, `posts` the focus events
under way (they may overtake one another), `request` the cancel requests of button and beacon,
which read the row and write it in two steps. The module follows one call, from the moment a tab shows
it until it does so no longer. The intake form stays on the page meanwhile, and nothing of
`CallStateDisplay` is reset when another session is put into it: `Resubmit` is that from the side of the call
that is replaced, `Init` from the side of the call that comes, with any status, absence and
unanswered cancel request that an earlier call may have left (`"earlier"`).

**How the parts fit.** ScriptedConversation's `ReportEnd` is CallLifecycle's
`CallEnds("bot_hangup")`. CallLifecycle assumes that this happens at most once, which is `TypeOK` (`reports \in 0..1`) of
ScriptedConversation, proved there. It does not assume that the candidate is there by then:
the basic call's script waits for them in a browser call (`SpeaksToSomebody`), but SFIACallBot's flow is
initialised with its pipeline and may end before anybody has come.
Its `PipelineOver` stands for everything in CallLifecycle that stops a bot.
AssessmentFlow takes the place of ScriptedConversation when `enable_sfia_flow` is set: its `ReportEnd`
is `CallEnds` of a source in CallLifecycle, whose statements on the status are left to that module.
ReviewPortal begins where AssessmentFlow's `SaveReport` has saved the claims.
CandidatePage and CallLifecycle meet in `SessionRow`, which both implement: `RowSpec` is checked and proved for
the one, `PageKeepsRow` is proved for the other. WhisperStream's finals are the frames that
ScriptedConversation's `BufferReply` and AssessmentFlow's turns receive. Candidacy's `CreateSession` is the `Init` of a
CallLifecycle, and its `SessionCounts` one of the outcomes that count toward the cooldown.

## 3. The runs

| Run | Question | Result |
|---|---|---|
| `call_browser` | A browser call, 2 cancels, all ends and failures, 1 database error, 1 restart: hang-up, explanation, times, the abstract row, liveness | holds |
| `call_phone` | A telephone call: the answer may overtake the record of the dial; 1 end, 1 cancel, 1 restart | the abstract row, and the bot stops |
| `script_browser` | The script with both timers and the end of the pipeline, 3 utterances | holds |
| `review_memory` | 2 experts, 2 supervisors, 1 administrator, 2 reports, in memory | holds, and refines `AtomicReviews` |
| `review_postgres` | the same over Postgres | completion still means both reviews |
| `flow_report` | An assessment ended by `call_ended` and by a departure, 1 request for a report, 1 database error, restarts | every stored transcript and report has all that was said; the run finds its transcript; processed means reported |
| `whisper_stream` | 2 connections, 3 segments, a window of 2: failing connects and sends, closing servers, the flush | finals are in order and complete, none follows the end |
| `candidacy` | 3 requests of any kind about one candidate, 3 days, either adapter, failures and restarts | names, audit, eligible answers and the flag are right |
| `framework_catalog` | 2 uploads out of 3 payloads, with lines that repeat a key, and 1 single write, either adapter, abandoned imports | embeddings are current; an undisturbed upload lands |
| `candidate_page` | 2 absences of 2 lengths, 1 failed request, a new tab or one that has shown an earlier call, any schedule of the call | every session the port promises to flag is flagged; the page learns of the end; a tab closed on the call ends it |
| `call_cancel_dial` | a cancel hangs up the bot | violated if it comes before the dial has registered the connection |
| `candidacy_cooldown` | `trigger_call` "raises `EligibilityError` (HTTP 429) when ineligible" | violated: no eligibility service is wired |

Every property of a passing run comes with a mutant: an operator beside the
definition it replaces (`HangUp_Silent`, `SaveSupervisorReview_Late`, ...), changed
the way a plausible bug would change the code, under which TLC finds the property violated.

**Bounds, and why they are enough.** `MaxEnds = 2` lets each source of an end that a
browser call has, the departure and the script, report once; a source reports once because the model's handlers are one-shot
(`_connected_notified`, `_ended`, the departure of one participant). Two cancel
requests show a request that finds the connection already popped by another; a third
adds no state, as a request is only its own program counter. One database error and one restart
let each statement of each task be the one that fails; the telephone run drops the
error and two of the ends to stay small, as those paths are the same code. Three utterances
allow a reply, a debounce that was replaced and one more after it. Two people per role
are needed for two submissions to overlap, two reports for a token to be stale. In the
assessment, one end of each kind and one request give every pair that can overlap
(two ends, two runs, an end and a run); two turns are enough for two snapshots to differ and
for both to differ from the empty one. Two connections are the fewest with an overlap; three segments outgrow
the window of two. Three requests give every pair that overlaps and a third that sees what
they left; an override of one day and a cooldown of two end and begin within three days. Two
uploads and a write give an import that is disturbed by each and one that repeats a half
done one. Two absences of 2 or 5 against limits of 2 and 4 are enough by their number alone, too
long by one alone, and reach the total exactly without either being too long.

**Deadlock** is not checked: every one of these systems comes to rest when the call
is over, the script said, the requests answered.

**Fairness.** Weak fairness on the steps of coroutines that have started: the event
loop runs what is ready and the database answers or raises. Nothing is assumed
of candidates, networks, operators, errors or restarts, nor that a debounce ever
fires (speech may go on for ever); the guard is fair, since its sleep is never restarted.
In the assessment the steps of an end that has begun are fair, but being cut off is
always possible once the bot has been stopped. The receive task and the processor of the speech
client are fair, the server is not. On the page the timer and the served requests are fair;
the candidate, the call and the network are not, and the faults are bounded, since
a poll that fails for ever learns nothing.
The liveness properties are `EndStopsBot`, `CancelStopsBot`, `EndIsRecorded`,
`FailureIsRecorded`, `HangsUp`, `EndIsReported`, `FinalsAreDelivered`,
`PageLearnsTheEnd` and `ClosedTabEndsCall`. Where a database error or a restart really does
void the promise, the property says so.

## 4. What is proved

All theorems hold for every value of the constants that satisfies the named assumptions
of its module (`...Assumption`, beside the constants). Every safety property of the passing
runs is proved, and of every liveness property the part that is not fairness.

* `CallLifecycleProofs`: `TypeCorrect`, `NeverOrphanBot`, `AlwaysExplained`,
  `PickupTimeStays`, `ImplementsRow` (every step of the
  call is a step of `SessionRow` or a stutter). The inductive invariant adds what the
  invariants need to survive a step: a hang-up is pending only when its reason is
  in the row (`HangUpIsExplained`, since the hang-up may cut off the task that was to
  explain a crash), a bot runs only once the dial has
  registered its connection and no cancel has popped it, and in a browser call
  the pick-up is not recorded before the address is. `OverForGood` follows from the abstract row alone:
  once dial and pick-up have had their chance, a row with an outcome keeps one.
* `ReviewPortalProofs`: `TypeCorrect`, `CompletionNeedsBoth`, `CompletionIsStamped` and `CompleteCarriesBoth` for either adapter;
  `MemoryKeepsReviews`, `MemoryClaimsMatch`, `MemorySubmitsOnce` and `MemoryImplementsContract` for the
  in-memory one, where the invariant says that a request that has read has read the
  row as it is, because it holds the lock. What the lock gives is one action property,
  `Orderly`: no two requests are between their read and their write, and no report is replaced
  under one. `OrderlyKeepsReviews` and `OrderlyImplementsContract` show that this is all that
  Postgres lacks: a behaviour of it that happens to be orderly keeps every acknowledged review and,
  while the session keeps its report, implements `AtomicReviews` (without the last condition a new
  report leaves the submission columns behind, which the contract forbids). `PatchesAreGenuine` is what
  no overlap can break: the claims never hold a patch that was not acknowledged, of another
  role, or made for another report, and no role counts as having submitted that has not.
* `ScriptedConversationProofs`: `TypeCorrect`, `ScriptIsSaidOnce`, `WholeReplyIsAnswered`,
  `CandidateIsThere`, `PauseIsRespected`. The invariant ties each task's place in
  `_on_reply_complete` to what has been said so far, and shows that only one of the
  two can ever be in it, because both test the state and change it without an await between.
* `AssessmentFlowProofs`: `TypeCorrect`, `TranscriptComesFirst`, `AllIsKept`,
  `ProcessedMeansReport`. The invariant follows the transcript along its way: every snapshot,
  every transcript a run has read and everything stored is at least what was said at
  the first end (`Snapshots`, `Sources`, `Stored`); a `call_ended` that is past the write
  has left a transcript behind unless a write failed (`Writers`); and a run that is past its
  report has one (`RunsHaveReport`). A cut needs no case of its own: it only removes
  an end from those the invariant speaks of. `ReportedMeansSaved`: a call that is reported
  has its transcript in the row, unless a database call has raised.
* `WhisperStreamProofs`: `TypeCorrect`, `FinalsCorrect`, `EndIsFinal`. The invariant ties what a task
  has pushed, what it holds and what the server has sent on its connection to the one list of
  finals, and says when two tasks may be alive.
* `CandidacyProofs`: `TypeCorrect`, `FlagCorrect`, `NamesCorrect`, `AuditCorrect`, `ChecksCorrect`.
  The last carries the argument one would want of an unlocked check: if the row restricted the
  candidate when it was read and no session blocks at the end, then none blocked when the
  clock was read, since sessions are only ever added; if the row exempted them, they were eligible right
  then, as an override that outlives the clock's reading was in force at that reading.
  `MemoryAuditExact` drops from `AuditCorrect` every exception, for the in-memory adapter: its
  lock leaves nothing half done. `RecordsAreKept` is an action property: no step, failures and
  restarts included, deletes or renames a candidate or rewrites the audit log.
* `FrameworkCatalogProofs`: `TypeCorrect`, `EmbeddingsCorrect`, `EmbeddingsKept`, from the one fact that
  every statement is an append or a `Rewritten`. `ImportsLand` is the correctness of the
  upload's loop, by its invariant `ImportInv` (`ImportInvariant`): under a parent a key has one row
  (`RowsUnique`: the unique constraint, or the index in memory); an import has been through its lines in
  their order and knows ids only of what it has been through (`Cursor`); and while nobody else has written, those ids are
  those of the rows, every key it has been through has its row, with the text of the last line about it, and the count of
  stale levels lies between the rows it has left without an embedding and the lines about them (`Landing`).
  It rests on `WellFormedAssumption`, which says what `route.ts` builds: a payload is finite, has one framework, its lines hang
  where the route puts them and no two of one list have the same place. A level under a code that the upload does not list is
  allowed, and passed over as in the code. A key that comes twice is allowed, too: the last line wins,
  while a stale level counts once per line.
* `CandidatePageProofs`: `TypeCorrect`, `VerdictCorrect`, `PageKeepsRow`: the page's cancels are
  steps of `SessionRow` like those of the call. `VerdictCorrect` needs that no single absence is longer than
  the total (`VerdictInv`), as the statement looks only at number and total. `ShownEndIsReal`: a page that has shown the call live
  since dial and pick-up are settled never shows an end that the row does not have.

**The liveness properties, without their fairness.** The prover has no `ENABLED`, hence no fairness,
so that "eventually" stays with TLC. What each of these properties says of the code, and not of the
scheduler, is safety: that whatever comes to its end has done its work. Those halves are theorems:

| Model-checked | Proved of it | By |
|---|---|---|
| `EndStopsBot` | `ReturnedMeansStopped`: an end or a failure that has returned leaves no bot running, whatever the database did | `NoBotLeft`: nothing ends before the dial returns |
| `CancelStopsBot` | `CancelReachesBot`: a cancel under way that has a connection to hang up has stopped the bot when it returns, unless a database call raised | `ReachesBot`, from the moment the connection is there |
| `EndIsRecorded`, `FailureIsRecorded` | `EndingsAreRecorded`: every outcome is stamped; an undisturbed end leaves its stamp, an undisturbed failure its reason | `Recorded`, which speaks of the requests between their two writes |
| `HangsUp` | `NeverLeftHanging`: in every state some task is armed or running that goes on | `OnItsWay`, inductive on top of the script's invariant |
| `EndIsReported` | `StoppedMeansReported`: a bot that an end has stopped has reported it; only a killed one has not | `EndsAreReported`, inductive with the types |
| `FinalsAreDelivered` | `NoFinalIsLost`: a receive task that is over has pushed all its server has completed | `LosslessInv`: a task keeps its socket until it has read the server's readiness |
| `PageLearnsTheEnd` | `PollNeverStalls`: an open page polls or is about to, until it shows an end it stops for | `PageInv` |
| `ClosedTabEndsCall` | `ClosedTabLeavesNoCall`: a tab closed on a call that it has shown live leaves an outcome, or a beacon that will give one | `KnowsWhatIs`: an end that the page, an answer or the beacon knows of is in the row |

Only model-checked: the nine liveness properties of the table, for the fairness, and the two
violations. Induction over data and recursive operators are beyond the installed provers too;
the modules have none.

## 5. Not modelled, and why

* Room creation, tokens, audio, and what LiveKit, Daily, Deepgram, ElevenLabs and
  Anthropic do inside; they appear through the events and errors the code handles.
* The wording of prompts, acknowledgements and reports; claim extraction (text).
* Authentication, dashboards, listings: no state of their own.
* `expires_at` of a report is written and shown, and no code tests it.
* `on_call_ended` is documented as idempotent; that it writes `completed` over `user_ended` is in the
    model (`HonouredOnEnd`) and in `SessionRow`, which allows it, but no run is spent on it.
* A trigger request whose answer is lost makes a call that no tab shows; CandidatePage begins when a tab does.
* The eligibility check is not called when a call is triggered, so CallLifecycle and Candidacy's trigger have none.
* `save_transcript_turn`, which appends a turn to the transcript through its own route: nothing
  in the repository calls it.
* The phase a turn is labelled with, and which skills were identified: data nobody decides on.
* Resampling of audio, embedding vectors and similarity search: data.
* The mock-interview harness, the remaining scripts, migrations and deployment.

## 6. Where code and documents part

Two disagreements are runs, in the table above. The others were read off the code while
modelling it; the models have the code's behaviour.

* `call_ended` fires no pipeline: the transport builds `SFIACallBot` without a post-call pipeline
  (`adapters/livekit_transport.py:183`) and with a persistence nobody sets, against "injected at startup".
* A telephone that rings out ends as `completed` (`flows/bot_runner.py:308`), which counts
  toward the cooldown, against "only calls where the candidate actually connected". So does an assessment
  in the browser whose flow ends before anybody has joined (`flows/assessment_pipeline.py:147`), which only the basic call's script rules out.
* A dial that is refused for want of credentials ends as `dialling` when `_place_call`'s write comes
  after the failure's (`domain/services/call_manager.py:186`).
* A report whose supervisor submits first is never completed (`adapters/postgres_persistence.py:545`);
  two overlapping submissions of a role are both accepted over Postgres (`:511`).
* "Any single absence exceeds 60 seconds" flags a candidate in the document; in the code the total
  does (`adapters/postgres_persistence.py:1374`), and one of exactly the limit counts. The port says the same as the document
  ("any single absence exceeds 60 000 ms", `domain/ports/persistence.py:368`). `DocumentedAbsencesFlagged` is the half that
  holds: what they promise to flag is flagged; several short absences are flagged beyond that.
* The bulk import is "atomic" for the port (`domain/ports/persistence.py:326`); over Postgres each statement
  commits on its own (`adapters/postgres_persistence.py:1223`), so that an import may stay half done or mix with another. `ImportLandsPayload`
  speaks of an import that was carried out undisturbed, whatever half done ones it came upon.
* A beacon is to be sent "when the tab is closed mid-call". The intake form can be submitted again during a call
  (`web/app/page.tsx:52`): the call that is replaced gets neither cancel nor beacon and goes on. The new call is first shown with
  the old one's status; if that was an end, a tab closed before the first answer sends no beacon for it. And an answer to a
  cancel request of the old call closes the new one's display without cancelling it.
* Closing the tab is to record `browser_closed`; the web server drops the body of the cancel request,
  so that the reason is always `user_ended`.
* An error in answer to the Cancel button takes the candidate back to the form while the call goes on.
* `processed` is not terminal for the page: it goes on polling and offers Cancel, which turns
  the row back into `user_ended`. If it is written between two polls the page never shows the
  end: it shows a call being dialled (`web/components/candidate/CallStateDisplay.tsx:16`).
* `trigger_call` is documented to refuse an unknown candidate; it creates one without a name,
  whom a later intake does not rename.
* An upload with a blank rubric empties it, where the template says "leave blank to keep".
* In memory an edit by id leaves the key's index as it was, so that a later upload of
  the old key writes the edited row; and no level is ever reported as stale.
* `scripts/ingest_sfia_skills.py` and `create_framework.py` insert without the `id` that the tables require.
* After ten completed segments on one connection the speech client drops finals, since it
  compares a count with the length of a window; a receive task that outlives its
  connection may repeat some. `FinalsArePrefix` and `FinalsAreDelivered` name the two conditions.

## 7. What could come next

* The audio path as a queue with a bound, for frames dropped while reconnecting.
* `drain` and the order of closing at shutdown, with the database gone before the bots.
* Liveness of an import that is repeated until it succeeds.
