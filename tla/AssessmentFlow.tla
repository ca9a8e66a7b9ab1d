--------------------------- MODULE AssessmentFlow ---------------------------
(***************************************************************************)
(* The skills assessment (SFIACallBot): the five states of the flow, the   *)
(* transcript that is recorded meanwhile, the end of the call, and the     *)
(* pipeline that makes a report of the transcript.                         *)
(*                                                                         *)
(* The language model moves the flow by calling functions; call_ended is   *)
(* one of them.  The departure of the candidate is an event of the         *)
(* transport.  Both run _finalize_and_end, which writes the transcript and *)
(* the skills and reports the end, and then stop the bot; nothing keeps    *)
(* two of them apart.  A function call is a task of the pipeline it ends,  *)
(* so it may be cut at any await once the bot has been stopped; the        *)
(* handler of an event is not.  A call of call_ended goes on to start the  *)
(* post-call pipeline, which POST /process starts too.                     *)
(*                                                                         *)
(* Abstracted: what is said (a turn is counted), the skills (there are     *)
(* some or none), the claims (a report is the number of turns it was made  *)
(* of), on_call_ended, whose steps are those of module CallLifecycle.      *)
(***************************************************************************)
EXTENDS Integers

CONSTANTS
  EndCalls,     \* the calls of call_ended that the language model may make
  Departures,   \* the departures that the transport may report
  Requests,     \* the requests POST /process
  Wired,        \* the bot was given a persistence and a post-call pipeline
  MaxTurns,     \* bound: turns recorded
  MaxDbFaults   \* bound: database calls that raise

ASSUME ActorsAssumption ==
  EndCalls \cap Departures = {} /\ EndCalls \cap Requests = {}
ASSUME WiredAssumption == Wired \in BOOLEAN
ASSUME BoundsAssumption == MaxTurns \in Nat /\ MaxDbFaults \in Nat

Ends == EndCalls \cup Departures
Runs == EndCalls \cup Requests   \* a call of call_ended names the run it starts

None == -1
Lengths == {None} \cup 0..MaxTurns

VARIABLES
  phase,       \* TranscriptRecorder._current_phase, the state of the flow
  querying,    \* skills_identified awaits the knowledge base
  skills,      \* _identified_skills is not empty
  turns,       \* the length of TranscriptRecorder._turns
  bot,         \* "running", "ended" by an end of the call, or "killed"
  ending,      \* _finalize_and_end and what follows it, by end
  snapshot,    \* the turns that finalize was called with
  withSkills,  \* the same for the skills
  transcript,  \* transcript_json of the row: its turns
  savedSkills, \* the metadata of the row has identified_skills
  reported,    \* on_call_ended has been called
  runs,        \* the runs of the post-call pipeline
  source,      \* the transcript that a run has read
  report,      \* the transcript that the row's report was made of
  processed,   \* the status "processed" has been written
  said,        \* history: the turns recorded when the first end came
  dbFaults

flow == <<phase, querying, skills, turns>>
finish == <<ending, snapshot, withSkills, reported, said>>
pipeline == <<runs, source>>
row == <<transcript, savedSkills, report, processed>>
vars == <<flow, bot, finish, pipeline, row, dbFaults>>

Phases == {"introduction", "skill_discovery", "evidence_gathering", "summary", "closing"}
EndingStates == {"idle", "transcript", "skills", "report", "stop", "spawn", "done", "cut"}
RunStates == {"idle", "read", "extract", "save", "status", "done", "not_found", "failed"}

\* The type of every variable.
TypeOK ==
  /\ phase \in Phases
  /\ querying \in BOOLEAN
  /\ skills \in BOOLEAN
  /\ turns \in 0..MaxTurns
  /\ bot \in {"running", "ended", "killed"}
  /\ ending \in [Ends -> EndingStates]
  /\ snapshot \in [Ends -> Lengths]
  /\ withSkills \in [Ends -> BOOLEAN]
  /\ transcript \in Lengths
  /\ savedSkills \in BOOLEAN
  /\ reported \in BOOLEAN
  /\ runs \in [Runs -> RunStates]
  /\ source \in [Runs -> Lengths]
  /\ report \in Lengths
  /\ processed \in BOOLEAN
  /\ said \in Lengths
  /\ dbFaults \in 0..MaxDbFaults

Init ==
  /\ phase = "introduction" /\ querying = FALSE /\ skills = FALSE /\ turns = 0
  /\ bot = "running"
  /\ ending = [e \in Ends |-> "idle"]
  /\ snapshot = [e \in Ends |-> None]
  /\ withSkills = [e \in Ends |-> FALSE]
  /\ transcript = None /\ savedSkills = FALSE /\ report = None /\ processed = FALSE
  /\ reported = FALSE /\ said = None
  /\ runs = [r \in Runs |-> "idle"]
  /\ source = [r \in Runs |-> None]
  /\ dbFaults = 0

-----------------------------------------------------------------------------
(* The flow.  Between two awaits a handler sets the phase and returns the  *)
(* next node, whose functions are the only ones the model may then call.   *)

Advance(from, to) ==
  /\ bot = "running"
  /\ ~querying
  /\ phase = from
  /\ phase' = to
  /\ UNCHANGED <<querying, skills, turns, bot, finish, pipeline, row, dbFaults>>

ConsentDeclined == Advance("introduction", "closing")

ConsentGiven == Advance("introduction", "skill_discovery")
EvidenceComplete == Advance("evidence_gathering", "summary")
SummaryComplete == Advance("summary", "closing")

SkillsIdentified ==
  /\ bot = "running"
  /\ ~querying
  /\ phase = "skill_discovery"
  /\ querying' = TRUE
  /\ skills' \in BOOLEAN
  /\ UNCHANGED <<phase, turns, bot, finish, pipeline, row, dbFaults>>

\* The definitions are there, or the query raised; or the handler is cut.
KnowledgeReturns ==
  /\ querying
  /\ querying' = FALSE
  /\ \/ phase' = "evidence_gathering"
     \/ bot # "running" /\ UNCHANGED phase
  /\ UNCHANGED <<skills, turns, bot, finish, pipeline, row, dbFaults>>

RecordTurn ==
  /\ bot = "running"
  /\ turns < MaxTurns
  /\ turns' = turns + 1
  /\ UNCHANGED <<phase, querying, skills, bot, finish, pipeline, row, dbFaults>>

-----------------------------------------------------------------------------
(* _finalize_and_end.                                                      *)

\* Its arguments are evaluated before its first await.
FinalizeAndEnd(e) ==
  /\ bot = "running"
  /\ ending[e] = "idle"
  /\ ending' = [ending EXCEPT ![e] = IF Wired THEN "transcript" ELSE "report"]
  /\ snapshot' = [snapshot EXCEPT ![e] = turns]
  /\ withSkills' = [withSkills EXCEPT ![e] = skills]
  /\ said' = IF said = None THEN turns ELSE said
  /\ UNCHANGED <<flow, bot, reported, source, row, dbFaults>>

\* Mutation: the post-call pipeline is started first.
CallEnded_PipelineFirst(c) ==
  /\ phase \in {"evidence_gathering", "closing"}
  /\ FinalizeAndEnd(c)
  /\ runs' = [runs EXCEPT ![c] = "read"]

\* call_ended is a function of two of the nodes.
CallEnded(c) ==
  /\ phase \in {"evidence_gathering", "closing"}
  /\ FinalizeAndEnd(c)
  /\ UNCHANGED runs

ParticipantLeft(d) == FinalizeAndEnd(d) /\ UNCHANGED runs

AfterTranscript(e) == IF withSkills[e] THEN "skills" ELSE "report"

\* Mutation: the last turn is still on its way to the recorder.
SaveTranscript_BeforeFlush(e) ==
  /\ ending[e] = "transcript"
  /\ transcript' = IF snapshot[e] = 0 THEN 0 ELSE snapshot[e] - 1
  /\ ending' = [ending EXCEPT ![e] = AfterTranscript(e)]
  /\ UNCHANGED <<flow, bot, snapshot, withSkills, reported, said, pipeline,
                 savedSkills, report, processed, dbFaults>>

SaveTranscript(e) ==
  /\ ending[e] = "transcript"
  /\ transcript' = snapshot[e]
  /\ ending' = [ending EXCEPT ![e] = AfterTranscript(e)]
  /\ UNCHANGED <<flow, bot, snapshot, withSkills, reported, said, pipeline,
                 savedSkills, report, processed, dbFaults>>

MergeSkills(e) ==
  /\ ending[e] = "skills"
  /\ savedSkills' = TRUE
  /\ ending' = [ending EXCEPT ![e] = "report"]
  /\ UNCHANGED <<flow, bot, snapshot, withSkills, reported, said, pipeline,
                 transcript, report, processed, dbFaults>>

ReportEnd(e) ==
  /\ ending[e] = "report"
  /\ reported' = TRUE
  /\ ending' = [ending EXCEPT ![e] = "stop"]
  /\ UNCHANGED <<flow, bot, snapshot, withSkills, said, pipeline, row, dbFaults>>

\* task.cancel(); the handler of call_ended has something left to do.
StopBot(e) ==
  /\ ending[e] = "stop"
  /\ bot' = IF bot = "running" THEN "ended" ELSE bot
  /\ ending' = [ending EXCEPT ![e] = IF e \in EndCalls /\ Wired THEN "spawn" ELSE "done"]
  /\ UNCHANGED <<flow, snapshot, withSkills, reported, said, pipeline, row, dbFaults>>

StartPipeline(e) ==
  /\ ending[e] = "spawn"
  /\ ending' = [ending EXCEPT ![e] = "done"]
  /\ runs' = [runs EXCEPT ![e] = "read"]
  /\ UNCHANGED <<flow, bot, snapshot, withSkills, reported, said, source, row, dbFaults>>

\* The pipeline whose task this is has been cancelled.
IsCut(c) ==
  /\ bot # "running"
  /\ ending[c] \notin {"idle", "done", "cut"}
  /\ ending' = [ending EXCEPT ![c] = "cut"]
  /\ UNCHANGED <<flow, bot, snapshot, withSkills, reported, said, pipeline, row, dbFaults>>

Ending(e) == SaveTranscript(e) \/ MergeSkills(e) \/ ReportEnd(e) \/ StopBot(e) \/ StartPipeline(e)

\* The candidate hangs up (cancel_call) or the pipeline crashes: nothing is finalised.
BotIsKilled ==
  /\ bot = "running"
  /\ bot' = "killed"
  /\ UNCHANGED <<flow, finish, pipeline, row, dbFaults>>

-----------------------------------------------------------------------------
(* PostCallPipeline.process.                                               *)

Process(r) ==
  /\ runs[r] = "idle"
  /\ runs' = [runs EXCEPT ![r] = "read"]
  /\ UNCHANGED <<flow, bot, finish, source, row, dbFaults>>

ReadTranscript(r) ==
  /\ runs[r] = "read"
  /\ runs' = [runs EXCEPT ![r] = IF transcript = None THEN "not_found" ELSE "extract"]
  /\ source' = [source EXCEPT ![r] = transcript]
  /\ UNCHANGED <<flow, bot, finish, row, dbFaults>>

\* Mutation: the status is written before the report.
ExtractClaims_StatusFirst(r) ==
  /\ runs[r] = "extract"
  /\ runs' = [runs EXCEPT ![r] = "status"]
  /\ UNCHANGED <<flow, bot, finish, source, row, dbFaults>>

\* The language model answers, or it does not and the run is over.
ExtractClaims(r) ==
  /\ runs[r] = "extract"
  /\ \E outcome \in {"save", "failed"} : runs' = [runs EXCEPT ![r] = outcome]
  /\ UNCHANGED <<flow, bot, finish, source, row, dbFaults>>

SaveReport(r) ==
  /\ runs[r] = "save"
  /\ report' = source[r]
  /\ runs' = [runs EXCEPT ![r] = "status"]
  /\ UNCHANGED <<flow, bot, finish, source, transcript, savedSkills, processed, dbFaults>>

WriteProcessed(r) ==
  /\ runs[r] = "status"
  /\ processed' = TRUE
  /\ runs' = [runs EXCEPT ![r] = "done"]
  /\ UNCHANGED <<flow, bot, finish, source, transcript, savedSkills, report, dbFaults>>

Running(r) == ReadTranscript(r) \/ ExtractClaims(r) \/ SaveReport(r) \/ WriteProcessed(r)

-----------------------------------------------------------------------------
(* Failures.                                                               *)

\* Mutation: finalize lets the error through.
DbFault_Escapes ==
  /\ dbFaults < MaxDbFaults
  /\ dbFaults' = dbFaults + 1
  /\ \E e \in Ends : /\ ending[e] \in {"transcript", "skills"}
                     /\ ending' = [ending EXCEPT ![e] = "done"]
  /\ UNCHANGED <<flow, bot, snapshot, withSkills, reported, said, pipeline, row>>

\* A database call raises.  finalize logs it and goes on; a run of the pipeline
\* is over.
DbFault ==
  /\ dbFaults < MaxDbFaults
  /\ dbFaults' = dbFaults + 1
  /\ \/ /\ \E e \in Ends :
             \/ /\ ending[e] = "transcript"
                /\ ending' = [ending EXCEPT ![e] = AfterTranscript(e)]
             \/ /\ ending[e] = "skills"
                /\ ending' = [ending EXCEPT ![e] = "report"]
        /\ UNCHANGED runs
     \/ /\ \E r \in Runs : /\ runs[r] \in {"read", "save", "status"}
                           /\ runs' = [runs EXCEPT ![r] = "failed"]
        /\ UNCHANGED ending
  /\ UNCHANGED <<flow, bot, snapshot, withSkills, reported, said, source, row>>

\* The process dies; a request may come when it is up again.
Restart ==
  /\ bot' = "killed"
  /\ querying' = FALSE
  /\ ending' = [e \in Ends |-> IF ending[e] = "done" THEN "done" ELSE "cut"]
  /\ runs' = [r \in Runs |-> IF runs[r] \in {"read", "extract", "save", "status"}
                               THEN "failed" ELSE runs[r]]
  /\ UNCHANGED <<phase, skills, turns, snapshot, withSkills, reported, said, source, row,
                 dbFaults>>

Next ==
  \/ ConsentGiven \/ ConsentDeclined \/ SkillsIdentified \/ KnowledgeReturns
  \/ EvidenceComplete \/ SummaryComplete
  \/ RecordTurn
  \/ \E c \in EndCalls : CallEnded(c) \/ IsCut(c)
  \/ \E d \in Departures : ParticipantLeft(d)
  \/ \E e \in Ends : Ending(e)
  \/ BotIsKilled
  \/ \E r \in Requests : Process(r)
  \/ \E r \in Runs : Running(r)
  \/ DbFault \/ Restart

\* The event loop runs the coroutines that are ready and the database answers
\* or raises; the candidate and the language model in the call are not fair.
Fairness ==
  /\ WF_vars(KnowledgeReturns)
  /\ \A e \in Ends : WF_vars(Ending(e))
  /\ \A r \in Runs : WF_vars(Running(r))

Spec == Init /\ [][Next]_vars /\ Fairness

-----------------------------------------------------------------------------
(* Properties.                                                             *)

\* handle_end_call "guarantees the transcript is persisted before the background
\* pipeline reads it": a run it has started finds one, whoever else ends the
\* call meanwhile, unless the transcript could not be written.
PipelineFindsTranscript == \A c \in EndCalls : runs[c] = "not_found" => dbFaults > 0

\* Whichever of several overlapping ends writes the transcript last, and whichever
\* run makes the report: all that was said before the call first came to an end is
\* in both.
NothingSaidIsLost == \A stored \in {transcript, report} : stored # None => stored >= said

\* A session that was given the status "processed" has a report to review, even
\* when runs of the pipeline overlap and some of them fail.
ProcessedHasReport == processed => report # None

\* The end of the call is reported even if the transcript cannot be written, or
\* if the handler is cut by the very pipeline it has to stop; only a bot that is
\* killed takes its own end with it.
EndIsReported == \A e \in Ends : ending[e] \in {"transcript", "skills", "report"}
                                    ~> reported \/ bot = "killed"
=============================================================================
