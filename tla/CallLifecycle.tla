--------------------------- MODULE CallLifecycle ---------------------------
(***************************************************************************)
(* The life of one assessment call: its row in assessment_sessions, the    *)
(* CallManager that writes the row, and the bot that the voice transport   *)
(* runs for it.  Sessions share no state (_connections, _active and the    *)
(* table are all keyed by the session id), so one session is modelled.     *)
(*                                                                         *)
(* Every listener call, API request and background task is a coroutine of  *)
(* one event loop.  It keeps control between two awaits and loses it at    *)
(* each database call, so each of them is modelled as a small program      *)
(* whose steps are its database calls: between two steps of one, any other *)
(* may run.  A step applies one statement and carries out the Python code  *)
(* that follows the previous one.                                          *)
(*                                                                         *)
(* Abstracted: time (a timer may fire whenever it is armed), the number of *)
(* times an event of one kind is delivered (once), the error texts, the    *)
(* tokens and the URLs.  "user_ended" stands for both reasons a cancel     *)
(* request may carry (user_ended, browser_closed).                         *)
(***************************************************************************)
EXTENDS SessionStatus, Naturals, FiniteSets

CONSTANTS
  Cancels,        \* the cancel requests that may arrive
  DialingMethod,  \* "browser" (LiveKit) or "pstn" (Daily dial-out)
  MaxEnds,        \* bound: calls of on_call_ended
  MaxDbFaults,    \* bound: database calls that raise
  MaxRestarts     \* bound: times the voice-engine process is restarted

ASSUME DialingMethodAssumption == DialingMethod \in {"browser", "pstn"}
ASSUME BoundsAssumption ==
  MaxEnds \in Nat /\ MaxDbFaults \in Nat /\ MaxRestarts \in Nat

Browser == DialingMethod = "browser"

\* The sources of on_call_ended and of on_call_failed.
Enders == {"participant_left", "dialout_stopped", "bot_hangup"}
Failers == {"dial_rejected", "dialout_error", "pipeline_crashed"}

VARIABLES
  status, startedAt, endedAt, reason, joinUrl,  \* the row
  placing,      \* _place_call
  pickup,       \* on_call_connected
  ending,       \* on_call_ended, by source
  failing,      \* on_call_failed, by source
  cancelling,   \* cancel_call, by request
  reporting,    \* the post-call pipeline
  connection,   \* the session has an entry in CallManager._connections
  bot,          \* the bot in the transport's _active entry
  notified,     \* BasicCallBot._connected_notified
  dbFaults, restarts

row == <<status, startedAt, endedAt, reason, joinUrl>>
tasks == <<placing, pickup, ending, failing, cancelling, reporting>>
call == <<connection, bot, notified>>
env == <<dbFaults, restarts>>
vars == <<row, tasks, call, env>>

PlacingStates == {"scheduled", "dialling", "failed", "reason", "done"}
PickupStates == {"idle", "write", "done"}
EndingStates == {"idle", "read", "write", "stop", "done"}
FailingStates == {"idle", "write", "reason", "stop", "done"}
CancellingStates == {"idle", "cancelled", "user_ended", "reason", "hangup", "done"}
ReportingStates == {"idle", "write", "done"}

\* The type of every variable.
TypeOK ==
  /\ status \in Statuses
  /\ startedAt \in {"none", "dial", "pickup"}
  /\ endedAt \in BOOLEAN
  /\ reason \in {"none", "transport_error", "user_ended"}
  /\ joinUrl \in BOOLEAN
  /\ placing \in PlacingStates
  /\ pickup \in PickupStates
  /\ ending \in [Enders -> EndingStates]
  /\ failing \in [Failers -> FailingStates]
  /\ cancelling \in [Cancels -> CancellingStates]
  /\ reporting \in ReportingStates
  /\ connection \in BOOLEAN
  /\ bot \in {"none", "running", "stopping", "stopped"}
  /\ notified \in BOOLEAN
  /\ dbFaults \in 0..MaxDbFaults
  /\ restarts \in 0..MaxRestarts

\* trigger_call has created the row and scheduled _place_call.
Init ==
  /\ status = "pending" /\ startedAt = "none" /\ endedAt = FALSE
  /\ reason = "none" /\ joinUrl = FALSE
  /\ placing = "scheduled"
  /\ pickup = "idle"
  /\ ending = [e \in Enders |-> "idle"]
  /\ failing = [f \in Failers |-> "idle"]
  /\ cancelling = [c \in Cancels |-> "idle"]
  /\ reporting = "idle"
  /\ connection = FALSE /\ bot = "none" /\ notified = FALSE
  /\ dbFaults = 0 /\ restarts = 0

-----------------------------------------------------------------------------
(* The row.                                                                *)

\* update_session_status: the status is overwritten whatever it was; a stamp
\* that is not given keeps its value.
WriteStatus(new, started, ended) ==
  /\ status' = new
  /\ startedAt' = IF started = "none" THEN startedAt ELSE started
  /\ endedAt' = (endedAt \/ ended)

\* task.cancel() on the bot's pipeline; nothing happens to one that is over.
StopBot == bot' = IF bot = "running" THEN "stopping" ELSE bot

-----------------------------------------------------------------------------
(* _place_call.  From the start of the bot to the registration of the      *)
(* connection the task does not lose control.                              *)

\* Mutation: the address of the room is handed out before the dial is recorded.
DialReturns_EarlyUrl ==
  /\ placing = "scheduled"
  /\ placing' = "dialling"
  /\ connection' = TRUE
  /\ bot' = "running"
  /\ joinUrl' = Browser
  /\ UNCHANGED <<status, startedAt, endedAt, reason, pickup, ending, failing,
                 cancelling, reporting, notified, env>>

DialReturns ==
  /\ placing = "scheduled"
  /\ placing' = "dialling"
  /\ connection' = TRUE
  /\ \/ bot' = "running" /\ UNCHANGED failing
     \/ failing' = [failing EXCEPT !["dial_rejected"] = "write"] /\ UNCHANGED bot
  /\ UNCHANGED <<row, pickup, ending, cancelling, reporting, notified, env>>

DialRaises ==
  /\ placing = "scheduled"
  /\ placing' = "failed"
  /\ UNCHANGED <<row, pickup, ending, failing, cancelling, reporting, call, env>>

WriteDialling ==
  /\ placing = "dialling"
  /\ WriteStatus("dialling", "dial", FALSE)
  /\ joinUrl' = Browser
  /\ placing' = "done"
  /\ UNCHANGED <<reason, pickup, ending, failing, cancelling, reporting, call, env>>

WriteDialFailed ==
  /\ placing = "failed"
  /\ WriteStatus("failed", "none", TRUE)
  /\ placing' = "reason"
  /\ UNCHANGED <<reason, joinUrl, pickup, ending, failing, cancelling, reporting, call, env>>

WriteDialReason ==
  /\ placing = "reason"
  /\ reason' = "transport_error"
  /\ placing' = "done"
  /\ UNCHANGED <<status, startedAt, endedAt, joinUrl, pickup, ending, failing,
                 cancelling, reporting, call, env>>

Placing == DialReturns \/ DialRaises \/ WriteDialling \/ WriteDialFailed \/ WriteDialReason

-----------------------------------------------------------------------------
(* on_call_connected.  The browser learns the room from the row, which the *)
(* page polls; a telephone rings as soon as the bot has joined its room.   *)

\* Mutation: _connected_notified is not tested.
CandidateConnects_Again ==
  /\ bot = "running"
  /\ Browser => joinUrl
  /\ notified' = TRUE
  /\ pickup' = "write"
  /\ UNCHANGED <<row, placing, ending, failing, cancelling, reporting, connection, bot, env>>

CandidateConnects ==
  /\ bot = "running"
  /\ ~notified
  /\ Browser => joinUrl
  /\ notified' = TRUE
  /\ pickup' = "write"
  /\ UNCHANGED <<row, placing, ending, failing, cancelling, reporting, connection, bot, env>>

WriteInProgress ==
  /\ pickup = "write"
  /\ WriteStatus("in_progress", "pickup", FALSE)
  /\ pickup' = "done"
  /\ UNCHANGED <<reason, joinUrl, placing, ending, failing, cancelling, reporting, call, env>>

-----------------------------------------------------------------------------
(* on_call_ended.                                                          *)

\* What has to be the case for the transport or the script to report the end.
\* The script outlives the pipeline: its reply timer is a task of its own that
\* nothing cancels.  BasicCallBot's waits for the candidate of a browser call;
\* SFIACallBot's starts with the pipeline, and may end before anybody has come.
MayEnd(e) ==
  CASE e = "participant_left" -> bot = "running" /\ notified
    [] e = "dialout_stopped"  -> bot = "running" /\ ~Browser
    [] e = "bot_hangup"       -> bot # "none"

CallEnds(e) ==
  /\ ending[e] = "idle"
  /\ MayEnd(e)
  /\ Cardinality({other \in Enders : ending[other] # "idle"}) < MaxEnds
  /\ ending' = [ending EXCEPT ![e] = "read"]
  /\ UNCHANGED <<row, placing, pickup, failing, cancelling, reporting, call, env>>

ReadForEnd(e) ==
  /\ ending[e] = "read"
  /\ ending' = [ending EXCEPT ![e] = IF status \in HonouredOnEnd THEN "stop" ELSE "write"]
  /\ UNCHANGED <<row, placing, pickup, failing, cancelling, reporting, call, env>>

\* Mutation: ended_at is not passed.
WriteCompleted_NoStamp(e) ==
  /\ ending[e] = "write"
  /\ WriteStatus("completed", "none", FALSE)
  /\ ending' = [ending EXCEPT ![e] = "stop"]
  /\ UNCHANGED <<reason, joinUrl, placing, pickup, failing, cancelling, reporting, call, env>>

WriteCompleted(e) ==
  /\ ending[e] = "write"
  /\ WriteStatus("completed", "none", TRUE)
  /\ ending' = [ending EXCEPT ![e] = "stop"]
  /\ UNCHANGED <<reason, joinUrl, placing, pickup, failing, cancelling, reporting, call, env>>

\* Mutation: the handler does not cancel the pipeline task.
StopAfterEnd_NoStop(e) ==
  /\ ending[e] = "stop"
  /\ ending' = [ending EXCEPT ![e] = "done"]
  /\ UNCHANGED <<row, placing, pickup, failing, cancelling, reporting, call, env>>

StopAfterEnd(e) ==
  /\ ending[e] = "stop"
  /\ ending' = [ending EXCEPT ![e] = "done"]
  /\ StopBot
  /\ UNCHANGED <<row, placing, pickup, failing, cancelling, reporting, connection, notified, env>>

Ending(e) == ReadForEnd(e) \/ WriteCompleted(e) \/ StopAfterEnd(e)

-----------------------------------------------------------------------------
(* on_call_failed.                                                         *)

DialoutFails ==
  /\ ~Browser
  /\ bot = "running"
  /\ failing["dialout_error"] = "idle"
  /\ failing' = [failing EXCEPT !["dialout_error"] = "write"]
  /\ UNCHANGED <<row, placing, pickup, ending, cancelling, reporting, call, env>>

PipelineCrashes ==
  /\ bot = "running"
  /\ bot' = "stopped"
  /\ failing' = [failing EXCEPT !["pipeline_crashed"] = "write"]
  /\ UNCHANGED <<row, placing, pickup, ending, cancelling, reporting, connection, notified, env>>

\* Mutation: on_call_failed does not go on to set_termination.
WriteFailed_NoReason(f) ==
  /\ failing[f] = "write"
  /\ WriteStatus("failed", "none", TRUE)
  /\ failing' = [failing EXCEPT ![f] = "stop"]
  /\ UNCHANGED <<reason, joinUrl, placing, pickup, ending, cancelling, reporting, call, env>>

WriteFailed(f) ==
  /\ failing[f] = "write"
  /\ WriteStatus("failed", "none", TRUE)
  /\ failing' = [failing EXCEPT ![f] = "reason"]
  /\ UNCHANGED <<reason, joinUrl, placing, pickup, ending, cancelling, reporting, call, env>>

WriteFailReason(f) ==
  /\ failing[f] = "reason"
  /\ reason' = "transport_error"
  /\ failing' = [failing EXCEPT ![f] = "stop"]
  /\ UNCHANGED <<status, startedAt, endedAt, joinUrl, placing, pickup, ending,
                 cancelling, reporting, call, env>>

StopAfterFailure(f) ==
  /\ failing[f] = "stop"
  /\ failing' = [failing EXCEPT ![f] = "done"]
  /\ StopBot
  /\ UNCHANGED <<row, placing, pickup, ending, cancelling, reporting, connection, notified, env>>

Failing(f) == WriteFailed(f) \/ WriteFailReason(f) \/ StopAfterFailure(f)

-----------------------------------------------------------------------------
(* cancel_call.                                                            *)

ReadForCancel(c) ==
  /\ cancelling[c] = "idle"
  /\ cancelling' = [cancelling EXCEPT ![c] =
                      IF status \in PreCall THEN "cancelled" ELSE "user_ended"]
  /\ UNCHANGED <<row, placing, pickup, ending, failing, reporting, call, env>>

WriteCancelled(c) ==
  /\ cancelling[c] \in {"cancelled", "user_ended"}
  /\ WriteStatus(cancelling[c], "none", TRUE)
  /\ cancelling' = [cancelling EXCEPT ![c] = "reason"]
  /\ UNCHANGED <<reason, joinUrl, placing, pickup, ending, failing, reporting, call, env>>

\* Mutation: cancel_call returns before the hangup.
WriteCancelReason_NoHangUp(c) ==
  /\ cancelling[c] = "reason"
  /\ reason' = "user_ended"
  /\ cancelling' = [cancelling EXCEPT ![c] = "done"]
  /\ UNCHANGED <<status, startedAt, endedAt, joinUrl, placing, pickup, ending,
                 failing, reporting, call, env>>

WriteCancelReason(c) ==
  /\ cancelling[c] = "reason"
  /\ reason' = "user_ended"
  /\ cancelling' = [cancelling EXCEPT ![c] = "hangup"]
  /\ UNCHANGED <<status, startedAt, endedAt, joinUrl, placing, pickup, ending,
                 failing, reporting, call, env>>

\* bot.cancel() waits five seconds for the runner task and then cancels it, in
\* the midst of on_call_failed if the pipeline has crashed.
RunnerIsCut ==
  /\ failing["pipeline_crashed"] \in {"write", "reason"}
  /\ failing' = [failing EXCEPT !["pipeline_crashed"] = "done"]

\* Mutation: the entry is popped and the transport is not told.
HangUp_Silent(c) ==
  /\ cancelling[c] = "hangup"
  /\ cancelling' = [cancelling EXCEPT ![c] = "done"]
  /\ connection' = FALSE
  /\ UNCHANGED <<row, placing, pickup, ending, failing, reporting, bot, notified, env>>

\* The entry is popped; hangup stops the bot only if there was one.
HangUp(c) ==
  /\ cancelling[c] = "hangup"
  /\ cancelling' = [cancelling EXCEPT ![c] = "done"]
  /\ connection' = FALSE
  /\ IF connection THEN /\ StopBot
                        /\ RunnerIsCut \/ UNCHANGED failing
                   ELSE UNCHANGED <<bot, failing>>
  /\ UNCHANGED <<row, placing, pickup, ending, reporting, notified, env>>

Cancelling(c) == WriteCancelled(c) \/ WriteCancelReason(c) \/ HangUp(c)

-----------------------------------------------------------------------------
(* The end of the bot, and the report.                                     *)

\* The runner has wound up, or was cancelled for good after five seconds.
BotStops ==
  /\ bot = "stopping"
  /\ bot' = "stopped"
  /\ UNCHANGED <<row, tasks, connection, notified, env>>

\* POST /process; it needs a transcript, so somebody must have been connected.
RequestReport ==
  /\ reporting = "idle"
  /\ notified
  /\ reporting' = "write"
  /\ UNCHANGED <<row, placing, pickup, ending, failing, cancelling, call, env>>

WriteProcessed ==
  /\ reporting = "write"
  /\ WriteStatus("processed", "none", FALSE)
  /\ reporting' = "done"
  /\ UNCHANGED <<reason, joinUrl, placing, pickup, ending, failing, cancelling, call, env>>

-----------------------------------------------------------------------------
(* The environment's failures.                                             *)

\* A database call raises.  _place_call turns that of its first write into the
\* failed path; the listener swallows it and its caller goes on to stop the
\* bot; cancel_call and the pipeline give up with an error response.
DbFault ==
  /\ dbFaults < MaxDbFaults
  /\ dbFaults' = dbFaults + 1
  /\ \/ /\ \/ placing = "dialling" /\ placing' = "failed"
           \/ placing \in {"failed", "reason"} /\ placing' = "done"
        /\ UNCHANGED <<pickup, ending, failing, cancelling, reporting>>
     \/ /\ pickup = "write" /\ pickup' = "done"
        /\ UNCHANGED <<placing, ending, failing, cancelling, reporting>>
     \/ /\ \E e \in Enders : /\ ending[e] \in {"read", "write"}
                             /\ ending' = [ending EXCEPT ![e] = "stop"]
        /\ UNCHANGED <<placing, pickup, failing, cancelling, reporting>>
     \/ /\ \E f \in Failers : /\ failing[f] \in {"write", "reason"}
                              /\ failing' = [failing EXCEPT ![f] = "stop"]
        /\ UNCHANGED <<placing, pickup, ending, cancelling, reporting>>
     \/ /\ \E c \in Cancels : /\ cancelling[c] \in {"cancelled", "user_ended", "reason"}
                              /\ cancelling' = [cancelling EXCEPT ![c] = "done"]
        /\ UNCHANGED <<placing, pickup, ending, failing, reporting>>
     \/ /\ reporting = "write" /\ reporting' = "done"
        /\ UNCHANGED <<placing, pickup, ending, failing, cancelling>>
  /\ UNCHANGED <<row, call, restarts>>

\* The process dies and starts again: the row is all that survives, and
\* nothing at start-up looks at the rows of calls that were under way.
Restart ==
  /\ restarts < MaxRestarts
  /\ restarts' = restarts + 1
  /\ placing' = "done"
  /\ pickup' = "done"
  /\ ending' = [e \in Enders |-> "done"]
  /\ failing' = [f \in Failers |-> "done"]
  /\ cancelling' = [c \in Cancels |-> IF cancelling[c] = "idle" THEN "idle" ELSE "done"]
  /\ reporting' = IF reporting = "idle" THEN "idle" ELSE "done"
  /\ connection' = FALSE
  /\ bot' = "none"
  /\ UNCHANGED <<row, notified, dbFaults>>

-----------------------------------------------------------------------------

Next ==
  \/ Placing
  \/ CandidateConnects \/ WriteInProgress
  \/ \E e \in Enders : CallEnds(e) \/ Ending(e)
  \/ DialoutFails \/ PipelineCrashes
  \/ \E f \in Failers : Failing(f)
  \/ \E c \in Cancels : ReadForCancel(c) \/ Cancelling(c)
  \/ BotStops
  \/ RequestReport \/ WriteProcessed
  \/ DbFault \/ Restart

\* The event loop runs every coroutine that is ready and the database answers
\* or raises; what candidates, networks and operators do is not fair.
Fairness ==
  /\ WF_vars(Placing)
  /\ WF_vars(WriteInProgress)
  /\ \A e \in Enders : WF_vars(Ending(e))
  /\ \A f \in Failers : WF_vars(Failing(f))
  /\ \A c \in Cancels : WF_vars(Cancelling(c))
  /\ WF_vars(BotStops)
  /\ WF_vars(WriteProcessed)

Spec == Init /\ [][Next]_vars /\ Fairness
-----------------------------------------------------------------------------
(* Properties.                                                             *)

\* Every bot that is running can be hung up: CallManager still holds the
\* connection that cancel_call needs to reach it.  (The dial and cancel
\* programs share _connections, and a write of either may fail.)
NoOrphanBot == bot = "running" => connection

\* A row that says failed, cancelled or user_ended says why, or the task that
\* will say why is still at it: status and reason are two statements of up to
\* four concurrent tasks, and only a failed write or a restart separates them.
OwesReason == \/ placing = "reason"
              \/ \E f \in Failers : failing[f] = "reason"
              \/ \E c \in Cancels : cancelling[c] = "reason"
OutcomeIsExplained ==
  (status \in {"failed", "cancelled", "user_ended"} /\ dbFaults = 0 /\ restarts = 0)
     => (reason # "none" \/ OwesReason)

\* In a browser call the time of the pick-up, once recorded, is never replaced
\* by that of the dial: the candidate cannot come before the dial is recorded,
\* because the address of the room is in the same write.
PickupTimeKept == [][Browser /\ startedAt = "pickup" => startedAt' = "pickup"]_vars

\* The row behaves as its readers may assume (SessionRow).
Row == INSTANCE SessionRow WITH
         DialFirst <- Browser,
         dialDone <- placing \notin {"scheduled", "dialling"},
         pickupDone <- pickup = "done"
RowSpec == Row!Spec

\* Whatever ends the call, the bot goes away, even when the database fails:
\* the listener swallows its errors so that the pipeline is stopped.
EndStopsBot == (\E e \in Enders : ending[e] = "read") ~> bot # "running"

\* A cancel request that found a registered connection stops the bot, unless
\* the request died of a database error before it got to the hangup.
CancelStopsBot ==
  (connection /\ \E c \in Cancels : cancelling[c] \in {"cancelled", "user_ended"})
     ~> (bot # "running" \/ dbFaults > 0)

\* An end or a failure that was reported is recorded in the row.  A hang-up may
\* cut the record of a crash short, but only when the row has its own reason.
EndIsRecorded ==
  (\E e \in Enders : ending[e] = "read") ~> (endedAt \/ dbFaults > 0 \/ restarts > 0)
FailureIsRecorded ==
  (placing = "failed" \/ \E f \in Failers : failing[f] = "write")
     ~> (reason # "none" /\ endedAt) \/ dbFaults > 0 \/ restarts > 0

-----------------------------------------------------------------------------
(* A statement of the source that the code does not keep.                   *)

\* cancel_call: "Hang up the bot so it leaves the LiveKit room".
CancelledCallHasNoBot ==
  (dbFaults = 0 /\ \E c \in Cancels : cancelling[c] = "done") => bot # "running"
=============================================================================
