------------------------ MODULE CallLifecycleProofs ------------------------
(***************************************************************************)
(* Theorems about CallLifecycle, for any set of cancel requests, either    *)
(* dialing method and any bounds: the invariants that the runs check, the  *)
(* abstract row, and what a handler or a cancel request that has returned  *)
(* has left behind, which is all of the liveness properties but fairness.  *)
(***************************************************************************)
EXTENDS CallLifecycle, TLAPS

USE DEF row, tasks, call, env

-----------------------------------------------------------------------------
(* Type correctness.                                                       *)

\* Init gives every variable a value of its type.
LEMMA InitTypeOK == Init => TypeOK
  <1> SUFFICES ASSUME Init PROVE TypeOK
    OBVIOUS
  <1> USE DEF Init
  <1>1. dbFaults \in 0..MaxDbFaults /\ restarts \in 0..MaxRestarts
    BY BoundsAssumption DEF BoundsAssumption
  <1>2. /\ ending \in [Enders -> EndingStates]
        /\ failing \in [Failers -> FailingStates]
        /\ cancelling \in [Cancels -> CancellingStates]
    BY DEF EndingStates, FailingStates, CancellingStates
  <1> QED
    BY <1>1, <1>2 DEF TypeOK, Statuses, PlacingStates, PickupStates, ReportingStates

\* The steps of _place_call and of the bot's first connection keep the types.
LEMMA PlacingTypeOK == TypeOK /\ (Placing \/ CandidateConnects \/ WriteInProgress) => TypeOK'
  <1> SUFFICES ASSUME TypeOK, Placing \/ CandidateConnects \/ WriteInProgress
               PROVE  TypeOK'
    OBVIOUS
  <1> USE DEF TypeOK, Statuses, PlacingStates, PickupStates, FailingStates, WriteStatus
  <1>1. CASE DialReturns
    BY <1>1 DEF DialReturns, Failers
  <1>2. CASE DialRaises
    BY <1>2 DEF DialRaises
  <1>3. CASE WriteDialling
    BY <1>3 DEF WriteDialling, Browser
  <1>4. CASE WriteDialFailed
    BY <1>4 DEF WriteDialFailed
  <1>5. CASE WriteDialReason
    BY <1>5 DEF WriteDialReason
  <1>6. CASE CandidateConnects
    BY <1>6 DEF CandidateConnects
  <1>7. CASE WriteInProgress
    BY <1>7 DEF WriteInProgress
  <1> QED
    BY <1>1, <1>2, <1>3, <1>4, <1>5, <1>6, <1>7 DEF Placing

\* The steps of on_call_ended keep the types.
LEMMA EndingTypeOK ==
  ASSUME NEW e \in Enders, TypeOK, CallEnds(e) \/ Ending(e)
  PROVE  TypeOK'
  <1> USE DEF TypeOK, Statuses, EndingStates, WriteStatus, StopBot
  <1>1. CASE CallEnds(e)
    BY <1>1 DEF CallEnds
  <1>2. CASE ReadForEnd(e)
    BY <1>2 DEF ReadForEnd
  <1>3. CASE WriteCompleted(e)
    BY <1>3 DEF WriteCompleted
  <1>4. CASE StopAfterEnd(e)
    BY <1>4 DEF StopAfterEnd
  <1> QED
    BY <1>1, <1>2, <1>3, <1>4 DEF Ending

\* The steps of on_call_failed and what leads to them keep the types.
LEMMA FailingTypeOK ==
  ASSUME TypeOK, DialoutFails \/ PipelineCrashes \/ \E f \in Failers : Failing(f)
  PROVE  TypeOK'
  <1> USE DEF TypeOK, Statuses, FailingStates, WriteStatus, StopBot
  <1>1. CASE DialoutFails
    BY <1>1 DEF DialoutFails, Failers
  <1>2. CASE PipelineCrashes
    BY <1>2 DEF PipelineCrashes, Failers
  <1>3. ASSUME NEW f \in Failers, Failing(f)
        PROVE  TypeOK'
    <2>1. CASE WriteFailed(f)
      BY <2>1 DEF WriteFailed
    <2>2. CASE WriteFailReason(f)
      BY <2>2 DEF WriteFailReason
    <2>3. CASE StopAfterFailure(f)
      BY <2>3 DEF StopAfterFailure
    <2> QED
      BY <1>3, <2>1, <2>2, <2>3 DEF Failing
  <1> QED
    BY <1>1, <1>2, <1>3

\* The steps of cancel_call keep the types.
LEMMA CancellingTypeOK ==
  ASSUME NEW c \in Cancels, TypeOK, ReadForCancel(c) \/ Cancelling(c)
  PROVE  TypeOK'
  <1> USE DEF TypeOK, Statuses, CancellingStates, WriteStatus, StopBot
  <1>1. CASE ReadForCancel(c)
    BY <1>1 DEF ReadForCancel
  <1>2. CASE WriteCancelled(c)
    BY <1>2 DEF WriteCancelled
  <1>3. CASE WriteCancelReason(c)
    BY <1>3 DEF WriteCancelReason
  <1>4. CASE HangUp(c)
    <2>1. failing' \in [Failers -> FailingStates]
      BY <1>4 DEF HangUp, RunnerIsCut, FailingStates
    <2>2. bot' \in {"none", "running", "stopping", "stopped"}
      BY <1>4 DEF HangUp
    <2>3. cancelling' \in [Cancels -> CancellingStates]
      BY <1>4 DEF HangUp
    <2> QED
      BY <1>4, <2>1, <2>2, <2>3 DEF HangUp
  <1> QED
    BY <1>1, <1>2, <1>3, <1>4 DEF Cancelling

\* The steps that remain keep the types.
LEMMA OtherTypeOK ==
  ASSUME TypeOK, BotStops \/ RequestReport \/ WriteProcessed \/ DbFault \/ Restart
  PROVE  TypeOK'
  <1> USE DEF TypeOK, Statuses
  <1>1. CASE BotStops
    BY <1>1 DEF BotStops
  <1>2. CASE RequestReport
    BY <1>2 DEF RequestReport, ReportingStates
  <1>3. CASE WriteProcessed
    BY <1>3 DEF WriteProcessed, WriteStatus, ReportingStates
  <1>4. CASE DbFault
    BY <1>4, BoundsAssumption
    DEF BoundsAssumption, DbFault, PlacingStates, PickupStates, EndingStates, FailingStates,
        CancellingStates, ReportingStates
  <1>5. CASE Restart
    <2>1. restarts' \in 0..MaxRestarts
      BY <1>5, BoundsAssumption DEF BoundsAssumption, Restart
    <2>2. /\ ending' \in [Enders -> EndingStates]
          /\ failing' \in [Failers -> FailingStates]
          /\ cancelling' \in [Cancels -> CancellingStates]
      BY <1>5 DEF Restart, EndingStates, FailingStates, CancellingStates
    <2>3. /\ placing' \in PlacingStates
          /\ pickup' \in PickupStates
          /\ reporting' \in ReportingStates
      BY <1>5 DEF Restart, PlacingStates, PickupStates, ReportingStates
    <2>4. /\ status' \in Statuses
          /\ UNCHANGED <<startedAt, endedAt, reason, joinUrl, notified, dbFaults>>
          /\ connection' \in BOOLEAN
          /\ bot' \in {"none", "running", "stopping", "stopped"}
      BY <1>5 DEF Restart, row
    <2> QED
      BY <2>1, <2>2, <2>3, <2>4
  <1> QED
    BY <1>1, <1>2, <1>3, <1>4, <1>5

\* No step leaves the types.
LEMMA NextTypeOK == TypeOK /\ [Next]_vars => TypeOK'
  <1>1. TypeOK /\ Next => TypeOK'
    BY PlacingTypeOK, EndingTypeOK, FailingTypeOK, CancellingTypeOK, OtherTypeOK DEF Next
  <1>2. TypeOK /\ UNCHANGED vars => TypeOK'
    BY DEF TypeOK, vars
  <1> QED
    BY <1>1, <1>2

\* Every variable of a call always has its type.
THEOREM TypeCorrect == Spec => []TypeOK
  BY InitTypeOK, NextTypeOK, PTL DEF Spec

-----------------------------------------------------------------------------
(* The inductive invariant.                                                *)

\* Until the dial returns there is no bot and nothing has failed, and only a
\* bot that has stopped has crashed: on_call_failed is called once per source.
FreshDial == placing = "scheduled" => bot = "none" /\ \A f \in Failers : failing[f] = "idle"
NoCrashYet == bot = "running" => failing["pipeline_crashed"] = "idle"

\* on_call_connected is called once: its flag is still down only while it is unused.
PickupOnce == (placing = "scheduled" \/ bot = "running") /\ ~notified => pickup = "idle"

\* The address of the room is in the row only once the dial is recorded.
UrlFollowsDial == joinUrl => placing = "done"

\* In a browser call nothing about a pick-up exists before the address does.
PickupFollowsUrl == Browser /\ pickup = "write" => joinUrl
StampFollowsDial == Browser /\ startedAt = "pickup" => placing = "done"

\* A cancel request that has come to the hang-up has written its reason.
HangUpIsExplained == \A c \in Cancels : cancelling[c] = "hangup" => reason # "none"

IInv == /\ TypeOK
        /\ FreshDial
        /\ NoCrashYet
        /\ PickupOnce
        /\ NoOrphanBot
        /\ HangUpIsExplained
        /\ OutcomeIsExplained
        /\ UrlFollowsDial
        /\ PickupFollowsUrl
        /\ StampFollowsDial

\* Init implies the invariant.
LEMMA InitIInv == Init => IInv
  BY InitTypeOK
  DEF Init, IInv, FreshDial, NoCrashYet, PickupOnce, Failers, NoOrphanBot,
      HangUpIsExplained, OutcomeIsExplained, UrlFollowsDial, PickupFollowsUrl, StampFollowsDial

Fresh == FreshDial /\ NoCrashYet /\ PickupOnce

\* The sources of on_call_failed and on_call_connected stay unused until their event.
LEMMA FreshStep ==
  TypeOK /\ Fresh /\ [Next]_vars => Fresh'
  <1> SUFFICES ASSUME TypeOK, Fresh, [Next]_vars PROVE Fresh'
    OBVIOUS
  <1> USE DEF TypeOK, Fresh, FreshDial, NoCrashYet, PickupOnce, StopBot, Failers, FailingStates
  <1>1. CASE Placing
    BY <1>1 DEF Placing, DialReturns, DialRaises, WriteDialling, WriteDialFailed,
                WriteDialReason
  <1>2. CASE CandidateConnects \/ WriteInProgress
    BY <1>2 DEF CandidateConnects, WriteInProgress
  <1>3. ASSUME NEW e \in Enders, CallEnds(e) \/ Ending(e) PROVE Fresh'
    BY <1>3 DEF CallEnds, Ending, ReadForEnd, WriteCompleted, StopAfterEnd
  <1>4. CASE DialoutFails \/ PipelineCrashes
    BY <1>4 DEF DialoutFails, PipelineCrashes
  <1>5. ASSUME NEW f \in Failers, Failing(f) PROVE Fresh'
    BY <1>5 DEF Failing, WriteFailed, WriteFailReason, StopAfterFailure
  <1>6. ASSUME NEW c \in Cancels, ReadForCancel(c) \/ Cancelling(c)
        PROVE  Fresh'
    BY <1>6 DEF ReadForCancel, Cancelling, WriteCancelled, WriteCancelReason, HangUp, RunnerIsCut
  <1>7. CASE BotStops \/ RequestReport \/ WriteProcessed
    BY <1>7 DEF BotStops, RequestReport, WriteProcessed
  <1>8. CASE DbFault
    BY <1>8 DEF DbFault
  <1>9. CASE Restart
    BY <1>9 DEF Restart
  <1>10. CASE UNCHANGED vars
    BY <1>10 DEF vars
  <1> QED
    BY <1>1, <1>2, <1>3, <1>4, <1>5, <1>6, <1>7, <1>8, <1>9, <1>10 DEF Next

\* No step starts a bot without registering its connection, or takes the
\* connection of a bot that runs on.
LEMMA NoOrphanBotStep == TypeOK /\ NoOrphanBot /\ [Next]_vars => NoOrphanBot'
  <1> SUFFICES ASSUME TypeOK, NoOrphanBot, [Next]_vars PROVE NoOrphanBot'
    OBVIOUS
  <1> USE DEF TypeOK, NoOrphanBot, StopBot
  <1>1. CASE Placing
    BY <1>1 DEF Placing, DialReturns, DialRaises, WriteDialling, WriteDialFailed,
                WriteDialReason
  <1>2. CASE CandidateConnects \/ WriteInProgress
    BY <1>2 DEF CandidateConnects, WriteInProgress
  <1>3. ASSUME NEW e \in Enders, CallEnds(e) \/ Ending(e) PROVE NoOrphanBot'
    BY <1>3 DEF CallEnds, Ending, ReadForEnd, WriteCompleted, StopAfterEnd
  <1>4. CASE DialoutFails \/ PipelineCrashes
    BY <1>4 DEF DialoutFails, PipelineCrashes
  <1>5. ASSUME NEW f \in Failers, Failing(f) PROVE NoOrphanBot'
    BY <1>5 DEF Failing, WriteFailed, WriteFailReason, StopAfterFailure
  <1>6. ASSUME NEW c \in Cancels, ReadForCancel(c) \/ Cancelling(c) PROVE NoOrphanBot'
    BY <1>6 DEF ReadForCancel, Cancelling, WriteCancelled, WriteCancelReason, HangUp, RunnerIsCut
  <1>7. CASE BotStops \/ RequestReport \/ WriteProcessed \/ DbFault \/ Restart
    BY <1>7 DEF BotStops, RequestReport, WriteProcessed, DbFault, Restart
  <1>8. CASE UNCHANGED vars
    BY <1>8 DEF vars
  <1> QED
    BY <1>1, <1>2, <1>3, <1>4, <1>5, <1>6, <1>7, <1>8 DEF Next

\* A reason is never erased, and the hang-up comes after it.
LEMMA HangUpIsExplainedStep ==
  TypeOK /\ HangUpIsExplained /\ [Next]_vars => HangUpIsExplained'
  <1> SUFFICES ASSUME TypeOK, HangUpIsExplained, [Next]_vars PROVE HangUpIsExplained'
    OBVIOUS
  <1> USE DEF TypeOK, HangUpIsExplained
  <1>1. CASE Placing
    BY <1>1 DEF Placing, DialReturns, DialRaises, WriteDialling, WriteDialFailed,
                WriteDialReason
  <1>2. CASE CandidateConnects \/ WriteInProgress
    BY <1>2 DEF CandidateConnects, WriteInProgress
  <1>3. ASSUME NEW e \in Enders, CallEnds(e) \/ Ending(e) PROVE HangUpIsExplained'
    BY <1>3 DEF CallEnds, Ending, ReadForEnd, WriteCompleted, StopAfterEnd
  <1>4. CASE DialoutFails \/ PipelineCrashes
    BY <1>4 DEF DialoutFails, PipelineCrashes
  <1>5. ASSUME NEW f \in Failers, Failing(f) PROVE HangUpIsExplained'
    BY <1>5 DEF Failing, WriteFailed, WriteFailReason, StopAfterFailure
  <1>6. ASSUME NEW c \in Cancels, ReadForCancel(c) \/ Cancelling(c)
        PROVE  HangUpIsExplained'
    BY <1>6 DEF ReadForCancel, Cancelling, WriteCancelled, WriteCancelReason, HangUp
  <1>7. CASE BotStops \/ RequestReport \/ WriteProcessed \/ DbFault \/ Restart
    BY <1>7 DEF BotStops, RequestReport, WriteProcessed, DbFault, Restart
  <1>8. CASE UNCHANGED vars
    BY <1>8 DEF vars
  <1> QED
    BY <1>1, <1>2, <1>3, <1>4, <1>5, <1>6, <1>7, <1>8 DEF Next

\* Without faults, a task that writes an outcome keeps owing its reason until
\* it has written it, and no reason is ever erased.
LEMMA OutcomeIsExplainedStep ==
  TypeOK /\ FreshDial /\ NoCrashYet /\ HangUpIsExplained /\ OutcomeIsExplained /\ [Next]_vars
     => OutcomeIsExplained'
  <1> SUFFICES ASSUME TypeOK, FreshDial, NoCrashYet, HangUpIsExplained, OutcomeIsExplained,
                      [Next]_vars
               PROVE  OutcomeIsExplained'
    OBVIOUS
  <1> USE DEF TypeOK, FreshDial, NoCrashYet, HangUpIsExplained, OutcomeIsExplained, OwesReason
  <1>1. CASE Placing
    BY <1>1 DEF Placing, DialReturns, DialRaises, WriteDialling, WriteDialFailed,
                WriteDialReason, WriteStatus, Failers, FailingStates
  <1>2. CASE CandidateConnects \/ WriteInProgress
    BY <1>2 DEF CandidateConnects, WriteInProgress, WriteStatus
  <1>3. ASSUME NEW e \in Enders, CallEnds(e) \/ Ending(e) PROVE OutcomeIsExplained'
    BY <1>3 DEF CallEnds, Ending, ReadForEnd, WriteCompleted, StopAfterEnd, WriteStatus
  <1>4. CASE DialoutFails
    BY <1>4 DEF DialoutFails, Failers, FailingStates
  <1>5. CASE PipelineCrashes
    <2>1. \A f \in Failers : failing[f] = "reason" => failing'[f] = "reason"
      BY <1>5 DEF PipelineCrashes
    <2> QED
      BY <1>5, <2>1 DEF PipelineCrashes
  <1>6. ASSUME NEW f \in Failers, Failing(f) PROVE OutcomeIsExplained'
    BY <1>6 DEF Failing, WriteFailed, WriteFailReason, StopAfterFailure, WriteStatus
  <1>7. ASSUME NEW c \in Cancels, ReadForCancel(c) \/ Cancelling(c) PROVE OutcomeIsExplained'
    <2>1. CASE HangUp(c)
      <3>1. reason' = reason /\ reason # "none"
        BY <1>7, <2>1 DEF HangUp
      <3> QED
        BY <3>1
    <2>2. CASE ReadForCancel(c) \/ WriteCancelled(c) \/ WriteCancelReason(c)
      BY <1>7, <2>2 DEF ReadForCancel, WriteCancelled, WriteCancelReason, WriteStatus,
                        CancellingStates
    <2> QED
      BY <1>7, <2>1, <2>2 DEF Cancelling
  <1>8. CASE BotStops \/ RequestReport \/ WriteProcessed
    BY <1>8 DEF BotStops, RequestReport, WriteProcessed, WriteStatus
  <1>9. CASE DbFault \/ Restart
    BY <1>9, BoundsAssumption DEF BoundsAssumption, DbFault, Restart
  <1>10. CASE UNCHANGED vars
    BY <1>10 DEF vars
  <1> QED
    BY <1>1, <1>2, <1>3, <1>4, <1>5, <1>6, <1>7, <1>8, <1>9, <1>10 DEF Next

BrowserOrder == /\ UrlFollowsDial
                /\ PickupFollowsUrl
                /\ StampFollowsDial

\* In a browser call the dial is recorded before the candidate can come.
LEMMA BrowserOrderStep ==
  TypeOK /\ BrowserOrder /\ [Next]_vars => BrowserOrder'
  <1> SUFFICES ASSUME TypeOK, BrowserOrder, [Next]_vars PROVE BrowserOrder'
    OBVIOUS
  <1> USE DEF TypeOK, BrowserOrder, UrlFollowsDial, PickupFollowsUrl, StampFollowsDial,
              Browser, WriteStatus, StopBot
  <1>1. CASE Placing
    BY <1>1 DEF Placing, DialReturns, DialRaises, WriteDialling, WriteDialFailed,
                WriteDialReason
  <1>2. CASE CandidateConnects \/ WriteInProgress
    BY <1>2 DEF CandidateConnects, WriteInProgress
  <1>3. ASSUME NEW e \in Enders, CallEnds(e) \/ Ending(e) PROVE BrowserOrder'
    BY <1>3 DEF CallEnds, Ending, ReadForEnd, WriteCompleted, StopAfterEnd
  <1>4. CASE DialoutFails \/ PipelineCrashes
    BY <1>4 DEF DialoutFails, PipelineCrashes
  <1>5. ASSUME NEW f \in Failers, Failing(f) PROVE BrowserOrder'
    BY <1>5 DEF Failing, WriteFailed, WriteFailReason, StopAfterFailure
  <1>6. ASSUME NEW c \in Cancels, ReadForCancel(c) \/ Cancelling(c) PROVE BrowserOrder'
    BY <1>6 DEF ReadForCancel, Cancelling, WriteCancelled, WriteCancelReason, HangUp, RunnerIsCut
  <1>7. CASE BotStops \/ RequestReport \/ WriteProcessed
    BY <1>7 DEF BotStops, RequestReport, WriteProcessed
  <1>8. CASE DbFault
    BY <1>8 DEF DbFault
  <1>9. CASE Restart
    BY <1>9 DEF Restart
  <1>10. CASE UNCHANGED vars
    BY <1>10 DEF vars
  <1> QED
    BY <1>1, <1>2, <1>3, <1>4, <1>5, <1>6, <1>7, <1>8, <1>9, <1>10 DEF Next

\* The invariant is inductive.
LEMMA NextIInv == IInv /\ [Next]_vars => IInv'
  BY NextTypeOK, FreshStep, NoOrphanBotStep, HangUpIsExplainedStep, OutcomeIsExplainedStep,
     BrowserOrderStep
  DEF IInv, Fresh, BrowserOrder

\* The invariant holds throughout every call.
LEMMA SpecIInv == Spec => []IInv
  BY InitIInv, NextIInv, PTL DEF Spec

-----------------------------------------------------------------------------
(* The theorems.                                                           *)

\* Every running bot can be hung up, whatever tasks interleave, whichever of
\* their database calls fail and however often the process restarts.
THEOREM NeverOrphanBot == Spec => []NoOrphanBot
  <1>1. IInv => NoOrphanBot
    BY DEF IInv
  <1> QED
    BY <1>1, SpecIInv, PTL

\* While the database answers and the process lives, a failed or cancelled
\* row has its reason or a task that is about to write it.
THEOREM AlwaysExplained == Spec => []OutcomeIsExplained
  <1>1. IInv => OutcomeIsExplained
    BY DEF IInv
  <1> QED
    BY <1>1, SpecIInv, PTL

\* In a browser call the dial never overwrites the time of the pick-up.
THEOREM PickupTimeStays == Spec => PickupTimeKept
  <1>1. IInv /\ [Next]_vars => (Browser /\ startedAt = "pickup" => startedAt' = "pickup")
    <2> SUFFICES ASSUME IInv, [Next]_vars, Browser, startedAt = "pickup"
                 PROVE  startedAt' = "pickup"
      OBVIOUS
    <2> USE DEF WriteStatus
    <2>1. CASE Placing
      BY <2>1 DEF Placing, DialReturns, DialRaises, WriteDialling, WriteDialFailed,
                  WriteDialReason, IInv, StampFollowsDial
    <2>2. CASE CandidateConnects \/ WriteInProgress
      BY <2>2 DEF CandidateConnects, WriteInProgress
    <2>3. ASSUME NEW e \in Enders, CallEnds(e) \/ Ending(e) PROVE startedAt' = "pickup"
      BY <2>3 DEF CallEnds, Ending, ReadForEnd, WriteCompleted, StopAfterEnd
    <2>4. CASE DialoutFails \/ PipelineCrashes
      BY <2>4 DEF DialoutFails, PipelineCrashes
    <2>5. ASSUME NEW f \in Failers, Failing(f) PROVE startedAt' = "pickup"
      BY <2>5 DEF Failing, WriteFailed, WriteFailReason, StopAfterFailure
    <2>6. ASSUME NEW c \in Cancels, ReadForCancel(c) \/ Cancelling(c)
          PROVE  startedAt' = "pickup"
      BY <2>6 DEF ReadForCancel, Cancelling, WriteCancelled, WriteCancelReason, HangUp, RunnerIsCut
    <2>7. CASE BotStops \/ RequestReport \/ WriteProcessed \/ DbFault \/ Restart
      BY <2>7 DEF BotStops, RequestReport, WriteProcessed, DbFault, Restart
    <2>8. CASE UNCHANGED vars
      BY <2>8 DEF vars
    <2> QED
      BY <2>1, <2>2, <2>3, <2>4, <2>5, <2>6, <2>7, <2>8 DEF Next
  <1>2. (Browser /\ startedAt = "pickup" => startedAt' = "pickup")
           => [Browser /\ startedAt = "pickup" => startedAt' = "pickup"]_vars
    OBVIOUS
  <1> QED
    BY <1>1, <1>2, SpecIInv, PTL DEF Spec, PickupTimeKept

\* A step of the call is a step of the row, or changes nothing its readers see.
LEMMA RowStep == IInv /\ [Next]_vars => [Row!Next]_(Row!rowVars)
  <1> SUFFICES ASSUME IInv, [Next]_vars PROVE [Row!Next]_(Row!rowVars)
    OBVIOUS
  <1> USE DEF Row!Next, Row!Dialled, Row!PickedUp, Row!Forgo, Row!Conclude, Row!rowVars,
              Row!Outcomes, Row!Statuses, WriteStatus
  <1>1. CASE Placing
    BY <1>1 DEF Placing, DialReturns, DialRaises, WriteDialling, WriteDialFailed,
                WriteDialReason
  <1>2. CASE CandidateConnects
    BY <1>2 DEF CandidateConnects, IInv, PickupOnce
  <1>3. CASE WriteInProgress
    BY <1>3 DEF WriteInProgress, IInv, PickupFollowsUrl, UrlFollowsDial
  <1>4. ASSUME NEW e \in Enders, CallEnds(e) \/ Ending(e)
        PROVE  [Row!Next]_(Row!rowVars)
    BY <1>4 DEF CallEnds, Ending, ReadForEnd, WriteCompleted, StopAfterEnd
  <1>5. CASE DialoutFails \/ PipelineCrashes
    BY <1>5 DEF DialoutFails, PipelineCrashes
  <1>6. ASSUME NEW f \in Failers, Failing(f) PROVE [Row!Next]_(Row!rowVars)
    BY <1>6 DEF Failing, WriteFailed, WriteFailReason, StopAfterFailure
  <1>7. ASSUME NEW c \in Cancels, ReadForCancel(c) \/ Cancelling(c)
        PROVE  [Row!Next]_(Row!rowVars)
    BY <1>7 DEF ReadForCancel, Cancelling, WriteCancelled, WriteCancelReason, HangUp, RunnerIsCut
  <1>8. CASE BotStops \/ RequestReport \/ WriteProcessed
    BY <1>8 DEF BotStops, RequestReport, WriteProcessed
  <1>9. CASE DbFault
    BY <1>9 DEF DbFault
  <1>10. CASE Restart
    BY <1>10 DEF Restart
  <1>11. CASE UNCHANGED vars
    BY <1>11 DEF vars
  <1> QED
    BY <1>1, <1>2, <1>3, <1>4, <1>5, <1>6, <1>7, <1>8, <1>9, <1>10, <1>11 DEF Next

\* CallLifecycle implements SessionRow: the row moves the way its readers may
\* assume it does.
THEOREM ImplementsRow == Spec => RowSpec
  <1>1. Init => Row!Init
    BY DEF Init, Row!Init
  <1> QED
    BY <1>1, RowStep, SpecIInv, PTL DEF Spec, RowSpec, Row!Spec

-----------------------------------------------------------------------------
(* What has been left behind when a handler returns: the safety halves of  *)
(* EndStopsBot, EndIsRecorded and FailureIsRecorded.                       *)

\* on_call_ended and on_call_failed are not called before the dial returns,
\* and neither has returned while the bot still runs: the listener swallows
\* its errors, so that the pipeline is cancelled whatever the database does.
NothingEndedYet == placing = "scheduled" => \A e \in Enders : ending[e] = "idle"
EndLeavesNoBot == \A e \in Enders : ending[e] = "done" => bot # "running"
FailureLeavesNoBot == \A f \in Failers : failing[f] = "done" => bot # "running"

\* Every status that ends the call is written together with its ended_at.
OutcomeIsStamped == status \in Terminal => endedAt
HangUpIsStamped == \A c \in Cancels : cancelling[c] \in {"reason", "hangup"} => endedAt

\* While the database answers and the process lives, the handler that has come
\* to the end of its writes leaves the end of the call in the row, and a failure
\* its reason: its own, or that of the cancel request that cut it short.
Undisturbed == dbFaults = 0 /\ restarts = 0
EndLeavesStamp ==
  Undisturbed => \A e \in Enders : ending[e] \in {"stop", "done"} => endedAt
FailureLeavesReason ==
  Undisturbed =>
    /\ \A f \in Failers : failing[f] \in {"reason", "stop", "done"} => endedAt
    /\ \A f \in Failers : failing[f] \in {"stop", "done"} => reason # "none"
    /\ placing = "reason" => endedAt

NoBotLeft == NothingEndedYet /\ EndLeavesNoBot /\ FailureLeavesNoBot
Recorded == OutcomeIsStamped /\ HangUpIsStamped /\ EndLeavesStamp /\ FailureLeavesReason

\* A bot starts once, before anything can end; what marks a handler as returned
\* cancels the bot first, and a runner is only cut when its pipeline has stopped.
LEMMA NoBotLeftStep == IInv /\ NoBotLeft /\ [Next]_vars => NoBotLeft'
  <1> SUFFICES ASSUME IInv, NoBotLeft, [Next]_vars PROVE NoBotLeft'
    OBVIOUS
  <1> USE DEF IInv, TypeOK, FreshDial, NoCrashYet, NoBotLeft, NothingEndedYet, EndLeavesNoBot,
              FailureLeavesNoBot, StopBot
  <1>1. CASE Placing
    BY <1>1 DEF Placing, DialReturns, DialRaises, WriteDialling, WriteDialFailed,
                WriteDialReason
  <1>2. CASE CandidateConnects \/ WriteInProgress
    BY <1>2 DEF CandidateConnects, WriteInProgress
  <1>3. ASSUME NEW e \in Enders, CallEnds(e) \/ Ending(e) PROVE NoBotLeft'
    <2>1. CASE CallEnds(e)
      BY <1>3, <2>1 DEF CallEnds, MayEnd, Enders
    <2>2. CASE Ending(e)
      BY <1>3, <2>2 DEF Ending, ReadForEnd, WriteCompleted, StopAfterEnd
    <2> QED
      BY <1>3, <2>1, <2>2
  <1>4. CASE DialoutFails \/ PipelineCrashes
    BY <1>4 DEF DialoutFails, PipelineCrashes
  <1>5. ASSUME NEW f \in Failers, Failing(f) PROVE NoBotLeft'
    BY <1>5 DEF Failing, WriteFailed, WriteFailReason, StopAfterFailure
  <1>6. ASSUME NEW c \in Cancels, ReadForCancel(c) \/ Cancelling(c) PROVE NoBotLeft'
    BY <1>6 DEF ReadForCancel, Cancelling, WriteCancelled, WriteCancelReason, HangUp, RunnerIsCut
  <1>7. CASE BotStops \/ RequestReport \/ WriteProcessed
    BY <1>7 DEF BotStops, RequestReport, WriteProcessed
  <1>8. CASE DbFault
    BY <1>8 DEF DbFault
  <1>9. CASE Restart
    BY <1>9 DEF Restart
  <1>10. CASE UNCHANGED vars
    BY <1>10 DEF vars
  <1> QED
    BY <1>1, <1>2, <1>3, <1>4, <1>5, <1>6, <1>7, <1>8, <1>9, <1>10 DEF Next

\* A stamp and a reason are never erased, so what a handler has left stays
\* whatever the others go on to write.
LEMMA RecordedStep == IInv /\ Recorded /\ [Next]_vars => Recorded'
  <1> SUFFICES ASSUME IInv, Recorded, [Next]_vars PROVE Recorded'
    OBVIOUS
  <1> USE DEF IInv, TypeOK, FreshDial, Recorded, OutcomeIsStamped, HangUpIsStamped,
              EndLeavesStamp, FailureLeavesReason, Undisturbed, Terminal, WriteStatus
  <1>1. CASE Placing
    BY <1>1 DEF Placing, DialReturns, DialRaises, WriteDialling, WriteDialFailed,
                WriteDialReason
  <1>2. CASE CandidateConnects \/ WriteInProgress
    BY <1>2 DEF CandidateConnects, WriteInProgress
  <1>3. ASSUME NEW e \in Enders, CallEnds(e) \/ Ending(e) PROVE Recorded'
    BY <1>3 DEF CallEnds, Ending, ReadForEnd, WriteCompleted, StopAfterEnd, HonouredOnEnd
  <1>4. CASE DialoutFails \/ PipelineCrashes
    BY <1>4 DEF DialoutFails, PipelineCrashes
  <1>5. ASSUME NEW f \in Failers, Failing(f) PROVE Recorded'
    BY <1>5 DEF Failing, WriteFailed, WriteFailReason, StopAfterFailure
  <1>6. ASSUME NEW c \in Cancels, ReadForCancel(c) \/ Cancelling(c) PROVE Recorded'
    <2>1. CASE HangUp(c)
      <3>1. endedAt /\ reason # "none"
        BY <1>6, <2>1 DEF HangUp, HangUpIsExplained
      <3>2. endedAt' = endedAt /\ reason' = reason
        BY <2>1 DEF HangUp
      <3> QED
        BY <3>1, <3>2
    <2>2. CASE ReadForCancel(c)
      BY <1>6, <2>2 DEF ReadForCancel
    <2>3. CASE WriteCancelled(c) \/ WriteCancelReason(c)
      BY <1>6, <2>3 DEF WriteCancelled, WriteCancelReason
    <2> QED
      BY <1>6, <2>1, <2>2, <2>3 DEF Cancelling
  <1>7. CASE BotStops \/ RequestReport \/ WriteProcessed
    BY <1>7 DEF BotStops, RequestReport, WriteProcessed
  <1>8. CASE DbFault
    <2>1. dbFaults' # 0
      BY <1>8, BoundsAssumption DEF DbFault, BoundsAssumption
    <2>2. /\ UNCHANGED <<status, endedAt>>
          /\ \A c \in Cancels : cancelling'[c] \in {"reason", "hangup"}
                                  => cancelling[c] \in {"reason", "hangup"}
      BY <1>8 DEF DbFault
    <2> QED
      BY <2>1, <2>2
  <1>9. CASE Restart
    <2>1. restarts' # 0
      BY <1>9, BoundsAssumption DEF Restart, BoundsAssumption
    <2>2. /\ UNCHANGED <<status, endedAt>>
          /\ \A c \in Cancels : cancelling'[c] \notin {"reason", "hangup"}
      BY <1>9 DEF Restart
    <2> QED
      BY <2>1, <2>2
  <1>10. CASE UNCHANGED vars
    BY <1>10 DEF vars
  <1> QED
    BY <1>1, <1>2, <1>3, <1>4, <1>5, <1>6, <1>7, <1>8, <1>9, <1>10 DEF Next

\* When on_call_ended or on_call_failed has returned, from whatever source and
\* whatever its database calls did, the bot of the call is not running.
THEOREM ReturnedMeansStopped == Spec => [](EndLeavesNoBot /\ FailureLeavesNoBot)
  <1>1. Init => NoBotLeft
    BY DEF Init, NoBotLeft, NothingEndedYet, EndLeavesNoBot, FailureLeavesNoBot
  <1>2. NoBotLeft => EndLeavesNoBot /\ FailureLeavesNoBot
    BY DEF NoBotLeft
  <1> QED
    BY <1>1, <1>2, NoBotLeftStep, SpecIInv, PTL DEF Spec

\* A row that is over for the candidate's page has its ended_at, and, while the
\* database answers and the process lives, so has a call whose end was handled
\* and a failed one whose failure was handled, which has its reason too.
THEOREM EndingsAreRecorded ==
  Spec => [](OutcomeIsStamped /\ EndLeavesStamp /\ FailureLeavesReason)
  <1>1. Init => Recorded
    BY DEF Init, Recorded, OutcomeIsStamped, HangUpIsStamped, EndLeavesStamp,
           FailureLeavesReason, Terminal
  <1>2. Recorded => OutcomeIsStamped /\ EndLeavesStamp /\ FailureLeavesReason
    BY DEF Recorded
  <1> QED
    BY <1>1, <1>2, RecordedStep, SpecIInv, PTL DEF Spec

-----------------------------------------------------------------------------
(* The outcome stays.                                                      *)

\* The dial and the pick-up have used their chance to write the row, and the
\* row shows an outcome.
RowIsOver == /\ placing \notin {"scheduled", "dialling"}
             /\ pickup = "done"
             /\ status \in Outcomes

\* Once the dial and the pick-up have had their chance, a row that shows an
\* outcome never goes back to pending, dialling or in_progress: nothing revives
\* a call whose candidate has been told that it is over.
THEOREM OverForGood == Spec => [](RowIsOver => [](status \in Outcomes))
  <1>1. IInv /\ RowIsOver /\ [Next]_vars => RowIsOver'
    <2> SUFFICES ASSUME IInv, RowIsOver, [Next]_vars PROVE RowIsOver'
      OBVIOUS
    <2> QED
      BY RowStep DEF RowIsOver, Row!Next, Row!Dialled, Row!PickedUp, Row!Forgo, Row!Conclude,
                     Row!rowVars, Row!Outcomes, Row!Statuses, Outcomes, Statuses
  <1>2. RowIsOver => status \in Outcomes
    BY DEF RowIsOver
  <1> QED
    BY <1>1, <1>2, SpecIInv, PTL DEF Spec

-----------------------------------------------------------------------------
(* The hang-up of a cancel request: the safety half of CancelStopsBot.     *)

\* No connection is registered before the dial returns.
NoConnectionYet == placing = "scheduled" => ~connection

\* Cancel request c is under way or over, the dial is no longer to come, and
\* unless a database call has raised, the request is not over before the bot is.
ReachesBot(c) ==
  /\ placing # "scheduled"
  /\ cancelling[c] # "idle"
  /\ cancelling[c] = "done" /\ dbFaults = 0 => bot # "running"

LEMMA NoConnectionYetStep == NoConnectionYet /\ [Next]_vars => NoConnectionYet'
  BY DEF NoConnectionYet, Next, vars, Placing, DialReturns, DialRaises, WriteDialling,
         WriteDialFailed, WriteDialReason, CandidateConnects, WriteInProgress, CallEnds, Ending,
         ReadForEnd, WriteCompleted, StopAfterEnd, DialoutFails, PipelineCrashes, Failing,
         WriteFailed, WriteFailReason, StopAfterFailure, ReadForCancel, Cancelling,
         WriteCancelled, WriteCancelReason, HangUp, BotStops, RequestReport, WriteProcessed,
         DbFault, Restart

\* The dial is the only step that starts a bot.
LEMMA BotStartsOnce == placing # "scheduled" /\ bot # "running" /\ [Next]_vars => bot' # "running"
  BY DEF Next, vars, StopBot, Placing, DialReturns, DialRaises, WriteDialling,
         WriteDialFailed, WriteDialReason, CandidateConnects, WriteInProgress, CallEnds, Ending,
         ReadForEnd, WriteCompleted, StopAfterEnd, DialoutFails, PipelineCrashes, Failing,
         WriteFailed, WriteFailReason, StopAfterFailure, ReadForCancel, Cancelling,
         WriteCancelled, WriteCancelReason, HangUp, BotStops, RequestReport, WriteProcessed,
         DbFault, Restart

\* The hang-up finds the connection of any bot that runs.
LEMMA ReachesBotStep ==
  ASSUME NEW c \in Cancels PROVE IInv /\ ReachesBot(c) /\ [Next]_vars => ReachesBot(c)'
  <1> SUFFICES ASSUME IInv, ReachesBot(c), [Next]_vars PROVE ReachesBot(c)'
    OBVIOUS
  <1>1. placing' # "scheduled"
    BY DEF ReachesBot, Next, vars, Placing, DialReturns, DialRaises, WriteDialling,
           WriteDialFailed, WriteDialReason, CandidateConnects, WriteInProgress, CallEnds, Ending,
           ReadForEnd, WriteCompleted, StopAfterEnd, DialoutFails, PipelineCrashes, Failing,
           WriteFailed, WriteFailReason, StopAfterFailure, ReadForCancel, Cancelling,
           WriteCancelled, WriteCancelReason, HangUp, BotStops, RequestReport, WriteProcessed,
           DbFault, Restart
  <1> USE DEF IInv, TypeOK, ReachesBot
  <1>2. ASSUME NEW d \in Cancels, ReadForCancel(d) \/ WriteCancelled(d) \/ WriteCancelReason(d)
        PROVE  ReachesBot(c)'
    BY <1>1, <1>2 DEF ReadForCancel, WriteCancelled, WriteCancelReason
  <1>3. ASSUME NEW d \in Cancels, HangUp(d) PROVE ReachesBot(c)'
    <2>1. bot' # "running"
      BY <1>3 DEF HangUp, StopBot, NoOrphanBot
    <2>2. cancelling'[c] # "idle"
      BY <1>3 DEF HangUp
    <2> QED
      BY <1>1, <2>1, <2>2
  <1>4. CASE DbFault
    <2>1. dbFaults' # 0 /\ cancelling'[c] # "idle"
      BY <1>4, BoundsAssumption DEF DbFault, BoundsAssumption
    <2> QED
      BY <1>1, <2>1
  <1>5. CASE Restart
    BY <1>1, <1>5 DEF Restart
  <1>6. CASE UNCHANGED <<cancelling, dbFaults>>
    BY <1>1, <1>6, BotStartsOnce
  <1>7. \/ \E d \in Cancels : ReadForCancel(d) \/ WriteCancelled(d) \/ WriteCancelReason(d)
        \/ \E d \in Cancels : HangUp(d)
        \/ DbFault \/ Restart
        \/ UNCHANGED <<cancelling, dbFaults>>
    BY DEF Next, vars, Placing, DialReturns, DialRaises, WriteDialling, WriteDialFailed,
           WriteDialReason, CandidateConnects, WriteInProgress, CallEnds, Ending,
           ReadForEnd, WriteCompleted, StopAfterEnd, DialoutFails, PipelineCrashes, Failing,
           WriteFailed, WriteFailReason, StopAfterFailure, Cancelling, BotStops, RequestReport,
           WriteProcessed
  <1> QED
    BY <1>2, <1>3, <1>4, <1>5, <1>6, <1>7

\* A cancel request that is under way while the connection is registered does
\* not return before the bot has been told to stop, unless a database call raises:
\* whoever else cancels, ends or fails the call in the meantime.  (One that found
\* no connection may return while the dial goes on: CancelledCallHasNoBot.)
THEOREM CancelReachesBot ==
  ASSUME NEW c \in Cancels
  PROVE  Spec => [](cancelling[c] \in {"cancelled", "user_ended", "reason", "hangup"} /\ connection
                      => [](cancelling[c] = "done" /\ dbFaults = 0 => bot # "running"))
  <1>1. Init => NoConnectionYet
    BY DEF Init, NoConnectionYet
  <1>2. /\ NoConnectionYet
        /\ cancelling[c] \in {"cancelled", "user_ended", "reason", "hangup"} /\ connection
        => ReachesBot(c)
    BY DEF NoConnectionYet, ReachesBot
  <1>3. ReachesBot(c) => (cancelling[c] = "done" /\ dbFaults = 0 => bot # "running")
    BY DEF ReachesBot
  <1>4. IInv /\ ReachesBot(c) /\ [Next]_vars => ReachesBot(c)'
    BY ReachesBotStep
  <1> QED
    BY <1>1, <1>2, <1>3, <1>4, NoConnectionYetStep, SpecIInv, PTL DEF Spec

=============================================================================
