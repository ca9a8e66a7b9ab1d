------------------------ MODULE AssessmentFlowProofs ------------------------
(***************************************************************************)
(* Theorems about module AssessmentFlow: what the stored transcript and    *)
(* the report hold, for any number of ends of the call and of runs of the  *)
(* post-call pipeline, and what an end that has come through, or was cut   *)
(* off by the pipeline it stops, has reported and saved.                   *)
(***************************************************************************)
EXTENDS AssessmentFlow, TLAPS

(* Types.                                                                  *)

\* The first state has the types.
LEMMA InitTypeOK == Init => TypeOK
  <1> SUFFICES ASSUME Init PROVE TypeOK
    OBVIOUS
  <1> USE DEF Init
  <1>1. turns \in 0..MaxTurns /\ dbFaults \in 0..MaxDbFaults
    BY BoundsAssumption DEF BoundsAssumption
  <1>2. /\ None \in Lengths
        /\ ending \in [Ends -> EndingStates]
        /\ runs \in [Runs -> RunStates]
    BY DEF Lengths, EndingStates, RunStates
  <1> QED
    BY <1>1, <1>2 DEF TypeOK, Phases

\* The steps of the flow keep the types.
LEMMA FlowTypeOK ==
  ASSUME TypeOK,
         \/ ConsentGiven \/ ConsentDeclined \/ EvidenceComplete \/ SummaryComplete
         \/ SkillsIdentified \/ KnowledgeReturns \/ RecordTurn
  PROVE  TypeOK'
  <1> USE DEF TypeOK, Phases, flow, finish, pipeline, row
  <1>1. CASE ConsentGiven \/ ConsentDeclined \/ EvidenceComplete \/ SummaryComplete
    BY <1>1 DEF ConsentGiven, ConsentDeclined, EvidenceComplete, SummaryComplete, Advance
  <1>2. CASE SkillsIdentified
    BY <1>2 DEF SkillsIdentified
  <1>3. CASE KnowledgeReturns
    BY <1>3 DEF KnowledgeReturns
  <1>4. CASE RecordTurn
    <2>1. turns' \in 0..MaxTurns
      BY <1>4, BoundsAssumption DEF RecordTurn, BoundsAssumption
    <2> QED
      BY <1>4, <2>1 DEF RecordTurn
  <1> QED
    BY <1>1, <1>2, <1>3, <1>4

\* An end of the call keeps the types.
LEMMA FinalizeTypeOK ==
  ASSUME TypeOK, NEW e \in Ends, FinalizeAndEnd(e), UNCHANGED runs
  PROVE  TypeOK'
  <1> USE DEF TypeOK, FinalizeAndEnd
  <1>1. ending' \in [Ends -> EndingStates]
    BY DEF EndingStates
  <1>2. snapshot' \in [Ends -> Lengths] /\ said' \in Lengths
    BY DEF Lengths
  <1>3. withSkills' \in [Ends -> BOOLEAN]
    OBVIOUS
  <1> QED
    BY <1>1, <1>2, <1>3 DEF flow, row

\* The steps of _finalize_and_end and of what follows keep the types.
LEMMA EndingTypeOK ==
  ASSUME TypeOK, NEW e \in Ends, Ending(e) \/ IsCut(e)
  PROVE  TypeOK'
  <1> USE DEF TypeOK, flow, pipeline, row
  <1>1. CASE SaveTranscript(e)
    <2>1. ending' \in [Ends -> EndingStates]
      BY <1>1 DEF SaveTranscript, AfterTranscript, EndingStates
    <2> QED
      BY <1>1, <2>1 DEF SaveTranscript
  <1>2. CASE MergeSkills(e)
    <2>1. ending' \in [Ends -> EndingStates]
      BY <1>2 DEF MergeSkills, EndingStates
    <2> QED
      BY <1>2, <2>1 DEF MergeSkills
  <1>3. CASE ReportEnd(e)
    <2>1. ending' \in [Ends -> EndingStates]
      BY <1>3 DEF ReportEnd, EndingStates
    <2> QED
      BY <1>3, <2>1 DEF ReportEnd
  <1>4. CASE StopBot(e)
    <2>1. ending' \in [Ends -> EndingStates]
      BY <1>4 DEF StopBot, EndingStates
    <2>2. bot' \in {"running", "ended", "killed"}
      BY <1>4 DEF StopBot
    <2> QED
      BY <1>4, <2>1, <2>2 DEF StopBot
  <1>5. CASE StartPipeline(e)
    <2>1. ending' \in [Ends -> EndingStates]
      BY <1>5 DEF StartPipeline, EndingStates
    <2>2. runs' \in [Runs -> RunStates]
      BY <1>5 DEF StartPipeline, RunStates
    <2> QED
      BY <1>5, <2>1, <2>2 DEF StartPipeline
  <1>6. CASE IsCut(e)
    <2>1. ending' \in [Ends -> EndingStates]
      BY <1>6 DEF IsCut, EndingStates
    <2> QED
      BY <1>6, <2>1 DEF IsCut
  <1> QED
    BY <1>1, <1>2, <1>3, <1>4, <1>5, <1>6 DEF Ending

\* The steps of the post-call pipeline keep the types.
LEMMA RunningTypeOK ==
  ASSUME TypeOK, NEW r \in Runs, Process(r) \/ Running(r)
  PROVE  TypeOK'
  <1> USE DEF TypeOK, flow, finish, row
  <1>1. CASE Process(r)
    <2>1. runs' \in [Runs -> RunStates]
      BY <1>1 DEF Process, RunStates
    <2> QED
      BY <1>1, <2>1 DEF Process
  <1>2. CASE ReadTranscript(r)
    <2>1. runs' \in [Runs -> RunStates]
      BY <1>2 DEF ReadTranscript, RunStates
    <2> QED
      BY <1>2, <2>1 DEF ReadTranscript
  <1>3. CASE ExtractClaims(r)
    <2>1. runs' \in [Runs -> RunStates]
      BY <1>3 DEF ExtractClaims, RunStates
    <2> QED
      BY <1>3, <2>1 DEF ExtractClaims
  <1>4. CASE SaveReport(r)
    <2>1. runs' \in [Runs -> RunStates]
      BY <1>4 DEF SaveReport, RunStates
    <2> QED
      BY <1>4, <2>1 DEF SaveReport
  <1>5. CASE WriteProcessed(r)
    <2>1. runs' \in [Runs -> RunStates]
      BY <1>5 DEF WriteProcessed, RunStates
    <2> QED
      BY <1>5, <2>1 DEF WriteProcessed
  <1> QED
    BY <1>1, <1>2, <1>3, <1>4, <1>5 DEF Running

\* The failures keep the types.
LEMMA FailureTypeOK ==
  ASSUME TypeOK, BotIsKilled \/ DbFault \/ Restart
  PROVE  TypeOK'
  <1> USE DEF TypeOK, flow, finish, pipeline, row
  <1>1. CASE BotIsKilled
    BY <1>1 DEF BotIsKilled
  <1>2. CASE DbFault
    <2>1. dbFaults' \in 0..MaxDbFaults
      BY <1>2, BoundsAssumption DEF DbFault, BoundsAssumption
    <2>2. ending' \in [Ends -> EndingStates]
      BY <1>2 DEF DbFault, AfterTranscript, EndingStates
    <2>3. runs' \in [Runs -> RunStates]
      BY <1>2 DEF DbFault, RunStates
    <2> QED
      BY <1>2, <2>1, <2>2, <2>3 DEF DbFault
  <1>3. CASE Restart
    <2>1. ending' \in [Ends -> EndingStates]
      BY <1>3 DEF Restart, EndingStates
    <2>2. runs' \in [Runs -> RunStates]
      BY <1>3 DEF Restart, RunStates
    <2> QED
      BY <1>3, <2>1, <2>2 DEF Restart
  <1> QED
    BY <1>1, <1>2, <1>3

\* No step leaves the types.
LEMMA NextTypeOK == TypeOK /\ [Next]_vars => TypeOK'
  <1> SUFFICES ASSUME TypeOK, [Next]_vars PROVE TypeOK'
    OBVIOUS
  <1>1. CASE UNCHANGED vars
    BY <1>1 DEF TypeOK, vars, flow, finish, pipeline, row
  <1>2. ASSUME NEW e \in Ends, \/ e \in EndCalls /\ CallEnded(e)
                               \/ e \in Departures /\ ParticipantLeft(e)
        PROVE  TypeOK'
    BY <1>2, FinalizeTypeOK DEF CallEnded, ParticipantLeft
  <1>3. CASE Next
    BY <1>2, <1>3, FlowTypeOK, EndingTypeOK, RunningTypeOK, FailureTypeOK DEF Next, Ends, Runs
  <1> QED
    BY <1>1, <1>3

\* Every variable of the assessment always has its type.
THEOREM TypeCorrect == Spec => []TypeOK
  BY InitTypeOK, NextTypeOK, PTL DEF Spec

-----------------------------------------------------------------------------
(* The inductive invariant.                                                *)

\* A call of call_ended that is past the write of the transcript, or that has
\* started its run, has left a transcript behind unless a write failed.
Writers == \A c \in EndCalls :
             (\/ ending[c] = "spawn"
              \/ Wired /\ ending[c] \in {"skills", "report", "stop"}
              \/ runs[c] = "read")
                => transcript # None \/ dbFaults > 0

\* Every transcript on its way is at least what was said at the first end.
Enough(n) == said # None /\ n >= said
SaidBefore == said # None => said <= turns
Snapshots == \A e \in Ends : ending[e] = "transcript" => Enough(snapshot[e])
Sources == \A r \in Runs : source[r] # None => Enough(source[r])
Stored == \A stored \in {transcript, report} : stored # None => Enough(stored)

\* A run that has come to its claims has a transcript, and past its report a report.
RunsHaveTranscript == \A r \in Runs : runs[r] \in {"extract", "save"} => source[r] # None
RunsHaveReport == \A r \in Runs : runs[r] = "status" => report # None

IInv == /\ TypeOK
        /\ PipelineFindsTranscript
        /\ ProcessedHasReport
        /\ Writers
        /\ SaidBefore
        /\ Snapshots
        /\ Sources
        /\ Stored
        /\ RunsHaveTranscript
        /\ RunsHaveReport

\* The invariant holds at first.
LEMMA InitIInv == Init => IInv
  <1> SUFFICES ASSUME Init PROVE IInv
    OBVIOUS
  <1>1. TypeOK
    BY InitTypeOK
  <1> QED
    BY <1>1 DEF Init, IInv, PipelineFindsTranscript, ProcessedHasReport, Writers, SaidBefore,
                Snapshots, Sources, Stored, RunsHaveTranscript, RunsHaveReport, Ends, Runs

\* What the invariant is about besides turns: the steps of the flow leave it alone.
watched == <<ending, snapshot, said, transcript, report, runs, source, processed, dbFaults>>

\* Every step is an end, a step of an end or of a run, a failure, or leaves alone
\* what is watched.
LEMMA Steps ==
  ASSUME [Next]_vars
  PROVE  \/ UNCHANGED watched /\ (turns' = turns \/ turns' = turns + 1)
         \/ \E e \in Ends : FinalizeAndEnd(e) /\ UNCHANGED runs
         \/ \E e \in Ends : Ending(e) \/ IsCut(e)
         \/ \E r \in Requests : Process(r)
         \/ \E r \in Runs : Running(r)
         \/ DbFault
         \/ Restart
  <1> USE DEF watched, vars, flow, finish, pipeline, row
  <1>1. CASE UNCHANGED vars
    BY <1>1
  <1>2. CASE ConsentGiven \/ ConsentDeclined \/ EvidenceComplete \/ SummaryComplete
    BY <1>2 DEF ConsentGiven, ConsentDeclined, EvidenceComplete, SummaryComplete, Advance
  <1>3. CASE SkillsIdentified \/ KnowledgeReturns \/ RecordTurn \/ BotIsKilled
    BY <1>3 DEF SkillsIdentified, KnowledgeReturns, RecordTurn, BotIsKilled
  <1>4. CASE \/ \E c \in EndCalls : CallEnded(c) \/ IsCut(c)
             \/ \E d \in Departures : ParticipantLeft(d)
    BY <1>4 DEF CallEnded, ParticipantLeft, Ends
  <1>5. CASE \/ \E r \in Requests : Process(r)
             \/ \E r \in Runs : Running(r)
    BY <1>5
  <1> QED
    BY <1>1, <1>2, <1>3, <1>4, <1>5 DEF Next

\* What was said before the first end stays in every transcript on its way.
LEMMA EnoughStep ==
  ASSUME TypeOK, SaidBefore, Snapshots, Sources, Stored, [Next]_vars
  PROVE  SaidBefore' /\ Snapshots' /\ Sources' /\ Stored'
  <1> USE DEF SaidBefore, Snapshots, Sources, Stored, Enough
  <1>0. turns \in Int /\ turns # None /\ said \in Int
    BY BoundsAssumption DEF TypeOK, Lengths, BoundsAssumption, None
  <1>1. CASE UNCHANGED watched /\ (turns' = turns \/ turns' = turns + 1)
    BY <1>0, <1>1 DEF watched
  <1>2. ASSUME NEW e \in Ends, FinalizeAndEnd(e), UNCHANGED runs
        PROVE  SaidBefore' /\ Snapshots' /\ Sources' /\ Stored'
    <2> USE <1>2 DEF FinalizeAndEnd, flow, row
    <2>1. SaidBefore' /\ said' # None
      BY <1>0
    <2>2. said # None => said' = said
      OBVIOUS
    <2>3. turns >= said'
      BY <1>0
    <2>4. ASSUME NEW f \in Ends, ending'[f] = "transcript"
          PROVE  Enough(snapshot[f])'
      <3>1. CASE f = e
        BY <2>1, <2>3, <3>1 DEF TypeOK
      <3>2. CASE f # e
        BY <2>1, <2>2, <2>4, <3>2 DEF TypeOK
      <3> QED
        BY <3>1, <3>2
    <2>5. Sources' /\ Stored'
      BY <2>1, <2>2
    <2> QED
      BY <2>1, <2>4, <2>5
  <1>3. ASSUME NEW e \in Ends, Ending(e) \/ IsCut(e)
        PROVE  SaidBefore' /\ Snapshots' /\ Sources' /\ Stored'
    <2>1. /\ UNCHANGED <<turns, said, snapshot, source, report>>
          /\ \/ transcript' = transcript
             \/ ending[e] = "transcript" /\ transcript' = snapshot[e]
      <3> USE DEF flow, pipeline, row
      <3>1. CASE SaveTranscript(e)
        BY <3>1 DEF SaveTranscript
      <3>2. CASE MergeSkills(e)
        BY <3>2 DEF MergeSkills
      <3>3. CASE ReportEnd(e) \/ StopBot(e)
        BY <3>3 DEF ReportEnd, StopBot
      <3>4. CASE StartPipeline(e) \/ IsCut(e)
        BY <3>4 DEF StartPipeline, IsCut
      <3> QED
        BY <1>3, <3>1, <3>2, <3>3, <3>4 DEF Ending
    <2>2. \A f \in Ends : ending'[f] = "transcript" => ending[f] = "transcript"
      <3> SUFFICES ASSUME NEW f \in Ends PROVE ending'[f] = "transcript" => ending[f] = "transcript"
        OBVIOUS
      <3> USE DEF TypeOK
      <3>1. CASE SaveTranscript(e)
        BY <3>1 DEF SaveTranscript, AfterTranscript
      <3>2. CASE MergeSkills(e)
        BY <3>2 DEF MergeSkills
      <3>3. CASE ReportEnd(e)
        BY <3>3 DEF ReportEnd
      <3>4. CASE StopBot(e)
        BY <3>4 DEF StopBot
      <3>5. CASE StartPipeline(e)
        BY <3>5 DEF StartPipeline
      <3>6. CASE IsCut(e)
        BY <3>6 DEF IsCut
      <3> QED
        BY <1>3, <3>1, <3>2, <3>3, <3>4, <3>5, <3>6 DEF Ending
    <2> QED
      BY <2>1, <2>2
  <1>4. ASSUME NEW r \in Runs, Process(r) \/ Running(r)
        PROVE  SaidBefore' /\ Snapshots' /\ Sources' /\ Stored'
    <2> USE DEF flow, finish, row
    <2>1. UNCHANGED <<turns, said, ending, snapshot, transcript>>
      BY <1>4 DEF Process, Running, ReadTranscript, ExtractClaims, SaveReport, WriteProcessed
    <2>2. CASE ReadTranscript(r)
      BY <2>1, <2>2 DEF ReadTranscript, TypeOK
    <2>3. CASE SaveReport(r)
      BY <2>1, <2>3 DEF SaveReport
    <2>4. CASE Process(r) \/ ExtractClaims(r) \/ WriteProcessed(r)
      BY <2>1, <2>4 DEF Process, ExtractClaims, WriteProcessed
    <2> QED
      BY <1>4, <2>2, <2>3, <2>4 DEF Running
  <1>5. CASE DbFault
    <2>1. UNCHANGED <<turns, said, snapshot, source, transcript, report>>
      BY <1>5 DEF DbFault, flow, row
    <2>2. \A f \in Ends : ending'[f] = "transcript" => ending[f] = "transcript"
      BY <1>5 DEF DbFault, AfterTranscript, TypeOK
    <2> QED
      BY <2>1, <2>2
  <1>6. CASE Restart
    BY <1>6 DEF Restart, row
  <1> QED
    BY <1>1, <1>2, <1>3, <1>4, <1>5, <1>6, Steps DEF Runs

\* The run that call_ended starts finds a transcript.
LEMMA WritersStep ==
  ASSUME TypeOK, Snapshots, Writers, PipelineFindsTranscript, [Next]_vars
  PROVE  Writers' /\ PipelineFindsTranscript'
  <1> USE DEF Writers, PipelineFindsTranscript
  <1>0. dbFaults \in Nat /\ EndCalls \subseteq Ends /\ EndCalls \subseteq Runs
    BY BoundsAssumption DEF TypeOK, BoundsAssumption, Ends, Runs
  <1>1. CASE UNCHANGED watched
    BY <1>1 DEF watched
  <1>2. ASSUME NEW e \in Ends, FinalizeAndEnd(e), UNCHANGED runs
        PROVE  Writers' /\ PipelineFindsTranscript'
    BY <1>0, <1>2 DEF FinalizeAndEnd, TypeOK, row
  <1>3. ASSUME NEW e \in Ends, Ending(e) \/ IsCut(e)
        PROVE  Writers' /\ PipelineFindsTranscript'
    <2> USE DEF flow, pipeline, row, TypeOK
    <2>1. CASE SaveTranscript(e)
      <3>1. transcript' # None
        BY <2>1, BoundsAssumption
        DEF SaveTranscript, Snapshots, Enough, Lengths, BoundsAssumption, None
      <3> QED
        BY <1>0, <2>1, <3>1 DEF SaveTranscript
    <2>2. CASE MergeSkills(e)
      BY <1>0, <2>2 DEF MergeSkills
    <2>3. CASE ReportEnd(e)
      BY <1>0, <2>3 DEF ReportEnd
    <2>4. CASE StopBot(e)
      BY <1>0, <2>4 DEF StopBot
    <2>5. CASE StartPipeline(e)
      BY <1>0, <2>5 DEF StartPipeline
    <2>6. CASE IsCut(e)
      BY <1>0, <2>6 DEF IsCut
    <2> QED
      BY <1>3, <2>1, <2>2, <2>3, <2>4, <2>5, <2>6 DEF Ending
  <1>4. ASSUME NEW r \in Requests, Process(r)
        PROVE  Writers' /\ PipelineFindsTranscript'
    BY <1>0, <1>4, ActorsAssumption DEF ActorsAssumption, Process, TypeOK, Runs, finish, row
  <1>5. ASSUME NEW r \in Runs, Running(r)
        PROVE  Writers' /\ PipelineFindsTranscript'
    <2> USE DEF finish, row, TypeOK
    <2>1. CASE ReadTranscript(r)
      BY <1>0, <2>1 DEF ReadTranscript
    <2>2. CASE ExtractClaims(r)
      BY <1>0, <2>2 DEF ExtractClaims
    <2>3. CASE SaveReport(r)
      BY <1>0, <2>3 DEF SaveReport
    <2>4. CASE WriteProcessed(r)
      BY <1>0, <2>4 DEF WriteProcessed
    <2> QED
      BY <1>5, <2>1, <2>2, <2>3, <2>4 DEF Running
  <1>6. CASE DbFault
    BY <1>0, <1>6 DEF DbFault
  <1>7. CASE Restart
    BY <1>0, <1>7 DEF Restart, TypeOK, row
  <1> QED
    BY <1>1, <1>2, <1>3, <1>4, <1>5, <1>6, <1>7, Steps

\* A run that is past its report has left one behind.
LEMMA RunsStep ==
  ASSUME TypeOK, RunsHaveTranscript, RunsHaveReport, ProcessedHasReport, [Next]_vars
  PROVE  RunsHaveTranscript' /\ RunsHaveReport' /\ ProcessedHasReport'
  <1> USE DEF RunsHaveTranscript, RunsHaveReport, ProcessedHasReport
  <1>0. EndCalls \subseteq Runs
    BY DEF Runs
  <1>1. CASE UNCHANGED watched
    BY <1>1 DEF watched
  <1>2. ASSUME NEW e \in Ends, FinalizeAndEnd(e), UNCHANGED runs
        PROVE  RunsHaveTranscript' /\ RunsHaveReport' /\ ProcessedHasReport'
    BY <1>2 DEF FinalizeAndEnd, row
  <1>3. ASSUME NEW e \in Ends, Ending(e) \/ IsCut(e)
        PROVE  RunsHaveTranscript' /\ RunsHaveReport' /\ ProcessedHasReport'
    <2>1. /\ UNCHANGED <<source, report, processed>>
          /\ \A r \in Runs : runs'[r] = runs[r] \/ runs'[r] = "read"
      BY <1>3 DEF TypeOK, Ending, IsCut, SaveTranscript, MergeSkills, ReportEnd, StopBot,
                  StartPipeline, flow, pipeline, row
    <2> QED
      BY <2>1
  <1>4. ASSUME NEW r \in Runs, Process(r) \/ Running(r)
        PROVE  RunsHaveTranscript' /\ RunsHaveReport' /\ ProcessedHasReport'
    <2> USE DEF TypeOK, row
    <2>1. CASE Process(r)
      BY <2>1 DEF Process
    <2>2. CASE ReadTranscript(r)
      BY <2>2 DEF ReadTranscript
    <2>3. CASE ExtractClaims(r)
      BY <2>3 DEF ExtractClaims
    <2>4. CASE SaveReport(r)
      BY <2>4 DEF SaveReport
    <2>5. CASE WriteProcessed(r)
      BY <2>5 DEF WriteProcessed
    <2> QED
      BY <1>4, <2>1, <2>2, <2>3, <2>4, <2>5 DEF Running
  <1>5. CASE DbFault
    BY <1>5 DEF DbFault, TypeOK, row
  <1>6. CASE Restart
    BY <1>6 DEF Restart, TypeOK, row
  <1> QED
    BY <1>1, <1>2, <1>3, <1>4, <1>5, <1>6, Steps DEF Runs

\* The invariant is inductive.
LEMMA NextIInv == IInv /\ [Next]_vars => IInv'
  BY NextTypeOK, EnoughStep, WritersStep, RunsStep DEF IInv

\* The invariant holds throughout every assessment.
LEMMA SpecIInv == Spec => []IInv
  BY InitIInv, NextIInv, PTL DEF Spec

-----------------------------------------------------------------------------
(* Theorems.                                                               *)

\* The run that handle_end_call starts always finds a transcript, unless the
\* database has failed, however many ends of the call overlap.
THEOREM TranscriptComesFirst == Spec => []PipelineFindsTranscript
  <1>1. IInv => PipelineFindsTranscript
    BY DEF IInv
  <1> QED
    BY <1>1, SpecIInv, PTL

\* What was said before the call first came to an end is in every transcript that
\* is stored and in every report.
THEOREM AllIsKept == Spec => []NothingSaidIsLost
  <1>1. IInv => NothingSaidIsLost
    BY DEF IInv, Stored, Enough, NothingSaidIsLost
  <1> QED
    BY <1>1, SpecIInv, PTL

\* A processed session has a report, whichever runs overlap or fail.
THEOREM ProcessedMeansReport == Spec => []ProcessedHasReport
  <1>1. IInv => ProcessedHasReport
    BY DEF IInv
  <1> QED
    BY <1>1, SpecIInv, PTL

-----------------------------------------------------------------------------
(* What an end of the call has left behind: the safety half of             *)
(* EndIsReported.                                                          *)

\* An end that has come to stop the bot has reported the call, and so has the
\* one that a handler was cut by, unless the bot was killed.
EndsAreReported ==
  /\ bot = "ended" => reported
  /\ \A e \in Ends : ending[e] \in {"stop", "spawn", "done"} => reported
  /\ \A e \in Ends : ending[e] = "cut" => reported \/ bot = "killed"

\* The ends that are past the write of the transcript, and of the skills.
PastTranscript == {"skills", "report", "stop", "spawn", "done"}
PastSkills == {"report", "stop", "spawn", "done"}

\* Unless a database call has raised, an end that is past its writes has left
\* the transcript in the row, and the skills if there were any when it came; and
\* so has whoever reported the call.
EndsAreSaved ==
  Wired /\ dbFaults = 0 =>
    /\ \A e \in Ends : ending[e] \in PastTranscript => transcript # None
    /\ \A e \in Ends : ending[e] \in PastSkills /\ withSkills[e] => savedSkills
    /\ reported => transcript # None

\* No step reports without the report, or takes it back.
LEMMA EndsAreReportedStep == TypeOK /\ EndsAreReported /\ [Next]_vars => EndsAreReported'
  <1> SUFFICES ASSUME TypeOK, EndsAreReported, [Next]_vars PROVE EndsAreReported'
    OBVIOUS
  <1> USE DEF EndsAreReported
  <1>1. CASE UNCHANGED <<bot, ending, reported>>
    BY <1>1
  <1>2. CASE BotIsKilled
    BY <1>2 DEF BotIsKilled, finish
  <1>3. ASSUME NEW e \in Ends, FinalizeAndEnd(e) PROVE EndsAreReported'
    BY <1>3 DEF FinalizeAndEnd, TypeOK
  <1>4. ASSUME NEW e \in Ends, Ending(e) \/ IsCut(e) PROVE EndsAreReported'
    <2> USE DEF TypeOK
    <2>1. CASE SaveTranscript(e)
      BY <2>1 DEF SaveTranscript, AfterTranscript
    <2>2. CASE MergeSkills(e)
      BY <2>2 DEF MergeSkills
    <2>3. CASE ReportEnd(e)
      BY <2>3 DEF ReportEnd
    <2>4. CASE StopBot(e)
      BY <2>4 DEF StopBot
    <2>5. CASE StartPipeline(e)
      BY <2>5 DEF StartPipeline
    <2>6. CASE IsCut(e)
      BY <2>6 DEF IsCut
    <2> QED
      BY <1>4, <2>1, <2>2, <2>3, <2>4, <2>5, <2>6 DEF Ending
  <1>5. CASE DbFault
    BY <1>5 DEF DbFault, AfterTranscript, TypeOK
  <1>6. CASE Restart
    BY <1>6 DEF Restart
  <1>7. \/ UNCHANGED <<bot, ending, reported>>
        \/ BotIsKilled
        \/ \E e \in Ends : FinalizeAndEnd(e)
        \/ \E e \in Ends : Ending(e) \/ IsCut(e)
        \/ DbFault \/ Restart
    BY DEF Next, vars, finish, ConsentGiven, ConsentDeclined, EvidenceComplete, SummaryComplete,
           Advance, SkillsIdentified, KnowledgeReturns, RecordTurn, CallEnded, ParticipantLeft,
           Process, Running, ReadTranscript, ExtractClaims, SaveReport, WriteProcessed, Ends
  <1> QED
    BY <1>1, <1>2, <1>3, <1>4, <1>5, <1>6, <1>7

\* What is on its way to the row as a transcript is one.
LEMMA SnapshotIsOne ==
  ASSUME IInv, NEW e \in Ends, ending[e] = "transcript" PROVE snapshot[e] # None
  BY BoundsAssumption DEF IInv, TypeOK, Snapshots, Enough, Lengths, BoundsAssumption, None

\* Nothing but a fault takes an end past a write it has not made.
LEMMA EndsAreSavedStep == IInv /\ EndsAreSaved /\ [Next]_vars => EndsAreSaved'
  <1> SUFFICES ASSUME IInv, EndsAreSaved, [Next]_vars, Wired, dbFaults' = 0
               PROVE  EndsAreSaved'
    BY DEF EndsAreSaved
  <1>0. TypeOK /\ dbFaults \in Nat
    BY BoundsAssumption DEF IInv, TypeOK, BoundsAssumption
  <1> USE DEF EndsAreSaved, PastTranscript, PastSkills
  <1>1. CASE UNCHANGED <<ending, withSkills, transcript, savedSkills, reported, dbFaults>>
    BY <1>1
  <1>2. ASSUME NEW e \in Ends, FinalizeAndEnd(e) PROVE EndsAreSaved'
    <2>1. dbFaults = 0 /\ UNCHANGED <<transcript, savedSkills, reported>>
      BY <1>2 DEF FinalizeAndEnd, row
    <2>2. ending'[e] = "transcript"
      BY <1>0, <1>2 DEF FinalizeAndEnd, TypeOK
    <2>3. \A f \in Ends : f # e => ending'[f] = ending[f] /\ withSkills'[f] = withSkills[f]
      BY <1>0, <1>2 DEF FinalizeAndEnd, TypeOK
    <2> QED
      BY <2>1, <2>2, <2>3
  <1>3. ASSUME NEW e \in Ends, Ending(e) \/ IsCut(e) PROVE EndsAreSaved'
    <2> USE <1>0 DEF TypeOK, row
    <2>1. CASE SaveTranscript(e)
      BY <2>1, SnapshotIsOne DEF SaveTranscript, AfterTranscript
    <2>2. CASE MergeSkills(e)
      BY <2>2 DEF MergeSkills
    <2>3. CASE ReportEnd(e)
      BY <2>3 DEF ReportEnd
    <2>4. CASE StopBot(e)
      BY <2>4 DEF StopBot
    <2>5. CASE StartPipeline(e)
      BY <2>5 DEF StartPipeline
    <2>6. CASE IsCut(e)
      BY <2>6 DEF IsCut
    <2> QED
      BY <1>3, <2>1, <2>2, <2>3, <2>4, <2>5, <2>6 DEF Ending
  <1>4. CASE DbFault
    BY <1>0, <1>4 DEF DbFault
  <1>5. CASE Restart
    BY <1>5 DEF Restart, row
  <1>6. \/ UNCHANGED <<ending, withSkills, transcript, savedSkills, reported, dbFaults>>
        \/ \E e \in Ends : FinalizeAndEnd(e)
        \/ \E e \in Ends : Ending(e) \/ IsCut(e)
        \/ DbFault \/ Restart
    BY DEF Next, vars, finish, row, ConsentGiven, ConsentDeclined, EvidenceComplete,
           SummaryComplete, Advance, SkillsIdentified, KnowledgeReturns, RecordTurn, BotIsKilled,
           CallEnded, ParticipantLeft, Process, Running, ReadTranscript, ExtractClaims, SaveReport,
           WriteProcessed, Ends
  <1> QED
    BY <1>1, <1>2, <1>3, <1>4, <1>5, <1>6

\* A bot that was stopped by an end of its call has reported it, however many
\* ends overlap, whatever the database does, and whichever of the handlers are
\* cut by the pipeline they stop; only a bot that was killed has not.
THEOREM StoppedMeansReported == Spec => []EndsAreReported
  <1>1. Init => EndsAreReported
    BY DEF Init, EndsAreReported
  <1> QED
    BY <1>1, InitTypeOK, NextTypeOK, EndsAreReportedStep, PTL DEF Spec

\* A call that is reported as ended has its transcript in the row, and an end
\* that has come through has its skills there, unless a write has failed: the
\* report never runs ahead of what it reports.
THEOREM ReportedMeansSaved == Spec => []EndsAreSaved
  <1>1. Init => EndsAreSaved
    BY DEF Init, EndsAreSaved, PastTranscript, PastSkills
  <1> QED
    BY <1>1, SpecIInv, EndsAreSavedStep, PTL DEF Spec
=============================================================================
