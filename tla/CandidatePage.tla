--------------------------- MODULE CandidatePage ---------------------------
(***************************************************************************)
(* The candidate's page during a call (CallStateDisplay.tsx), the API      *)
(* routes it uses and the columns they write.  The page polls the status   *)
(* of the session, measures how long its tab is hidden while the call is   *)
(* live, and asks for the end of the call when the candidate presses       *)
(* Cancel or closes the tab.  It decides all of this by the status it last *)
(* showed, which may be stale: the call goes on meanwhile.                 *)
(*                                                                         *)
(* The page is modelled from the moment a tab shows the call, until it     *)
(* shows it no longer: back at the form, closed, or showing another call.  *)
(* The intake form stays on the page during a call, and a second           *)
(* submission puts another call in the place of this one, which goes on.   *)
(* Nothing of the display is reset then, so that a tab may show this call  *)
(* with what an earlier one has left: its status until the first answer,   *)
(* the start of an absence, a cancel request without an answer yet.  (A    *)
(* trigger request whose answer is lost makes a call that no tab shows.)   *)
(*                                                                         *)
(* What the call does to the row is the abstract specification SessionRow, *)
(* which CallLifecycle implements, so every schedule of the call is among  *)
(* the behaviours here.                                                    *)
(*                                                                         *)
(* Abstracted: the time between two polls (a poll that is due is sent at   *)
(* some time), the phase and time stamp of an absence, and what the page   *)
(* looks like.  The web server passes requests on unchanged; it drops the  *)
(* body of a cancel request, which only carries the reason.                *)
(***************************************************************************)
EXTENDS SessionStatus, Naturals

CONSTANTS
  DialFirst,    \* SessionRow's: a browser call is picked up after the dial
  Durations,    \* lengths of an absence
  MaxEvents,    \* _FOCUS_SUSPICIOUS_MAX_EVENTS
  MaxAway,      \* _FOCUS_SUSPICIOUS_MAX_AWAY_MS
  MaxAbsences,  \* bound: times the tab is hidden
  MaxFaults     \* bound: requests of the page that fail

ASSUME DurationsAssumption == Durations \subseteq Nat
ASSUME ThresholdsAssumption == MaxEvents \in Nat \ {0} /\ MaxAway \in Nat \ {0}
ASSUME LimitsAssumption == MaxAbsences \in Nat /\ MaxFaults \in Nat

VARIABLES
  status, dialDone, pickupDone,             \* the row, as in SessionRow
  focusEvents, focusAway, focusSuspicious,  \* the row: number, total, verdict
  longest,   \* history: the longest single absence in the row
  page,      \* "open", "form" (back at the intake form), "closed", or
             \* "replaced": the tab shows another call
  shown,     \* the status shown; "pending" in a new tab before the first answer
  poll,      \* "due", "sent", "answered", "stopped", or "gone" with the page
  answer,    \* the status carried by the answer; "pending" without one
  hidden,    \* the tab is hidden
  lostAt,    \* focusLostAtRef is set
  posts,     \* focus-event requests under way, by the duration they report
  request,   \* the cancel requests of the button and of the beacon; "earlier"
             \* while the button waits for one that was about an earlier call
  absences, faults

rowVars == <<status, dialDone, pickupDone>>
focusVars == <<focusEvents, focusAway, focusSuspicious, longest>>
pollVars == <<shown, poll, answer>>
tabVars == <<hidden, lostAt, posts, absences>>
vars == <<rowVars, focusVars, page, pollVars, tabVars, request, faults>>

Row == INSTANCE SessionRow

Requests == {"button", "beacon"}

\* The page takes these for a call that is still on: isLive of the beacon.
Live == {"pending", "dialling", "in_progress"}

\* The type of every variable.
TypeOK ==
  /\ status \in Statuses /\ dialDone \in BOOLEAN /\ pickupDone \in BOOLEAN
  /\ focusEvents \in Nat /\ focusAway \in Nat /\ focusSuspicious \in BOOLEAN
  /\ longest \in Nat
  /\ page \in {"open", "form", "closed", "replaced"}
  /\ shown \in Statuses /\ answer \in Statuses
  /\ poll \in {"due", "sent", "answered", "stopped", "gone"}
  /\ hidden \in BOOLEAN /\ lostAt \in BOOLEAN
  /\ posts \in [Durations -> Nat]
  /\ request \in [Requests -> {"idle", "earlier", "sent", "cancelled", "user_ended",
                               "answered", "lost"}]
  /\ absences \in 0..MaxAbsences /\ faults \in 0..MaxFaults

\* The answer to the trigger request has come, and the tab shows the call, in a
\* new display or in the one it has shown an earlier call in.
Init ==
  /\ Row!Init
  /\ focusEvents = 0 /\ focusAway = 0 /\ focusSuspicious = FALSE /\ longest = 0
  /\ page = "open"
  /\ shown \in Statuses /\ poll = "due" /\ answer = "pending"
  /\ hidden \in BOOLEAN /\ lostAt \in BOOLEAN
  /\ posts = [d \in Durations |-> 0]
  /\ \E waits \in {"idle", "earlier"} :
       request = [r \in Requests |-> IF r = "button" THEN waits ELSE "idle"]
  /\ absences = 0 /\ faults = 0

\* The dial, the pick-up and whatever ends the call.
CallGoesOn ==
  /\ Row!Dialled \/ Row!PickedUp \/ Row!Forgo \/ Row!Conclude
  /\ UNCHANGED <<focusVars, page, pollVars, tabVars, request, faults>>

Fault == faults < MaxFaults /\ faults' = faults + 1

-----------------------------------------------------------------------------
(* The poll.  There is never more than one status request under way: the   *)
(* timer of the next is set when the last has been dealt with.             *)

SendPoll ==
  /\ poll = "due"
  /\ poll' = "sent"
  /\ UNCHANGED <<rowVars, focusVars, page, shown, answer, tabVars, request, faults>>

\* GET status.
AnswerPoll ==
  /\ poll = "sent"
  /\ poll' = "answered"
  /\ answer' = status
  /\ UNCHANGED <<rowVars, focusVars, page, shown, tabVars, request, faults>>

\* Mutant: an error leaves no timer behind.
PollFails_NoRetry ==
  /\ poll \in {"sent", "answered"}
  /\ poll' = "stopped" /\ answer' = "pending"
  /\ Fault
  /\ UNCHANGED <<rowVars, focusVars, page, shown, tabVars, request>>

\* The request or its answer is lost, or the answer is an error: "retrying".
PollFails ==
  /\ poll \in {"sent", "answered"}
  /\ poll' = "due" /\ answer' = "pending"
  /\ Fault
  /\ UNCHANGED <<rowVars, focusVars, page, shown, tabVars, request>>

ShowAnswer ==
  /\ poll = "answered"
  /\ shown' = answer /\ answer' = "pending"
  /\ poll' = IF answer \in Terminal THEN "stopped" ELSE "due"
  /\ UNCHANGED <<rowVars, focusVars, page, tabVars, request, faults>>

-----------------------------------------------------------------------------
(* Focus monitoring.                                                       *)

\* The visibilitychange listener is there only while the page shows a live call.
Listening == page = "open" /\ shown = "in_progress"

Hide ==
  /\ page = "open" /\ ~hidden
  /\ absences < MaxAbsences
  /\ absences' = absences + 1
  /\ hidden' = TRUE
  /\ lostAt' = (lostAt \/ Listening)
  /\ UNCHANGED <<rowVars, focusVars, page, pollVars, posts, request, faults>>

\* An absence that began or ends while the call is not shown live goes unseen.
ComeBack(d) ==
  /\ page = "open" /\ hidden
  /\ hidden' = FALSE
  /\ IF Listening /\ lostAt
       THEN lostAt' = FALSE /\ posts' = [posts EXCEPT ![d] = @ + 1]
       ELSE UNCHANGED <<lostAt, posts>>
  /\ UNCHANGED <<rowVars, focusVars, page, pollVars, absences, request, faults>>

\* Mutant: the verdict is computed from the row as it was before the event.
AppendFocusEvent_Before(d) ==
  /\ posts[d] > 0
  /\ posts' = [posts EXCEPT ![d] = @ - 1]
  /\ focusEvents' = focusEvents + 1
  /\ focusAway' = focusAway + d
  /\ longest' = IF d > longest THEN d ELSE longest
  /\ focusSuspicious' = \/ focusSuspicious
                        \/ focusEvents >= MaxEvents
                        \/ focusAway >= MaxAway
  /\ UNCHANGED <<rowVars, page, pollVars, hidden, lostAt, absences, request, faults>>

\* POST focus-event; append_focus_event is one statement in one adapter and
\* one critical section in the other.  Requests arrive in any order, and at
\* any time after the absence.
AppendFocusEvent(d) ==
  /\ posts[d] > 0
  /\ posts' = [posts EXCEPT ![d] = @ - 1]
  /\ focusEvents' = focusEvents + 1
  /\ focusAway' = focusAway + d
  /\ longest' = IF d > longest THEN d ELSE longest
  /\ focusSuspicious' = \/ focusSuspicious
                        \/ focusEvents + 1 >= MaxEvents
                        \/ focusAway + d >= MaxAway
  /\ UNCHANGED <<rowVars, page, pollVars, hidden, lostAt, absences, request, faults>>

\* Non-critical: nobody tries again.
LosePost(d) ==
  /\ posts[d] > 0
  /\ posts' = [posts EXCEPT ![d] = @ - 1]
  /\ UNCHANGED <<rowVars, focusVars, page, pollVars, hidden, lostAt, absences, request, faults>>

-----------------------------------------------------------------------------
(* The end of the call, as the candidate asks for it.                      *)

PressCancel ==
  /\ page = "open"
  /\ shown \notin Terminal
  /\ request["button"] = "idle"
  /\ request' = [request EXCEPT !["button"] = "sent"]
  /\ UNCHANGED <<rowVars, focusVars, page, pollVars, tabVars, faults>>

\* The display of this call goes, and what it keeps of the call with it.
Leave(to) ==
  /\ page' = to
  /\ poll' = "gone" /\ answer' = "pending"
  /\ hidden' = FALSE /\ lostAt' = FALSE
  /\ UNCHANGED <<shown, posts, absences>>

\* handleIntake during the call: the tab shows another call from now on, and no
\* request is made about this one.
Resubmit ==
  /\ page = "open"
  /\ Leave("replaced")
  /\ UNCHANGED <<rowVars, focusVars, request, faults>>

\* Mutant: only a page that shows the call connected sends the beacon.
CloseTab_Connected ==
  /\ page = "open"
  /\ Leave("closed")
  /\ request' = IF shown = "in_progress"
                  THEN [request EXCEPT !["beacon"] = "sent"] ELSE request
  /\ UNCHANGED <<rowVars, focusVars, faults>>

\* beforeunload: the beacon is sent if the status shown is one of a live call.
CloseTab ==
  /\ page = "open"
  /\ Leave("closed")
  /\ request' = IF shown \in Live
                  THEN [request EXCEPT !["beacon"] = "sent"] ELSE request
  /\ UNCHANGED <<rowVars, focusVars, faults>>

\* cancel_call reads the row ...
ReadForCancel(r) ==
  /\ request[r] = "sent"
  /\ request' = [request EXCEPT ![r] = IF status \in PreCall THEN "cancelled" ELSE "user_ended"]
  /\ UNCHANGED <<rowVars, focusVars, page, pollVars, tabVars, faults>>

\* ... and writes the outcome it decided on, whatever the row says by now.
WriteCancelled(r) ==
  /\ request[r] \in {"cancelled", "user_ended"}
  /\ status' = request[r]
  /\ request' = [request EXCEPT ![r] = "answered"]
  /\ UNCHANGED <<dialDone, pickupDone, focusVars, page, pollVars, tabVars, faults>>

\* The page looks only for an answer, not whether it is an error: an error takes
\* the candidate back to the form like a success.  Without any answer the button
\* can be pressed again.  Nobody waits for the answer to a beacon.
CancelFails(r) ==
  /\ \/ /\ request[r] \in {"sent", "cancelled", "user_ended"}
        /\ \E fate \in IF r = "button" THEN {"answered", "idle"} ELSE {"lost"} :
             request' = [request EXCEPT ![r] = fate]
     \/ request[r] = "earlier" /\ request' = [request EXCEPT ![r] = "idle"]
  /\ Fault
  /\ UNCHANGED <<rowVars, focusVars, page, pollVars, tabVars>>

\* The answer to a cancel request closes whatever call the tab shows, this one
\* also if the request was about an earlier one.  "Return to start" is offered
\* by the status shown, stale or not.
BackToForm ==
  /\ page = "open"
  /\ request["button"] \in {"answered", "earlier"} \/ shown = "completed"
  /\ Leave("form")
  /\ UNCHANGED <<rowVars, focusVars, request, faults>>

-----------------------------------------------------------------------------

Cancelling(r) == ReadForCancel(r) \/ WriteCancelled(r)

Next ==
  \/ CallGoesOn
  \/ SendPoll \/ AnswerPoll \/ PollFails \/ ShowAnswer
  \/ Hide
  \/ \E d \in Durations : ComeBack(d) \/ AppendFocusEvent(d) \/ LosePost(d)
  \/ PressCancel \/ Resubmit \/ CloseTab \/ BackToForm
  \/ \E r \in Requests : Cancelling(r) \/ CancelFails(r)

\* The timer of a poll fires and every request is served; what the candidate
\* and the call do is not fair.
Fairness ==
  /\ WF_vars(SendPoll) /\ WF_vars(AnswerPoll) /\ WF_vars(ShowAnswer)
  /\ \A r \in Requests : WF_vars(Cancelling(r))

Spec == Init /\ [][Next]_vars /\ Fairness
-----------------------------------------------------------------------------
(* Properties.                                                             *)

\* A session is marked suspicious when its row has as many absences as the
\* threshold says or any single absence over the limit, as the port promises:
\* never an event late, in whichever order the requests of several absences
\* arrive.  (append_focus_event adds the new event to a row that does not have
\* it yet.  It marks more sessions than promised: it holds the total against
\* the limit, and an absence of exactly the limit counts.)
DocumentedAbsencesFlagged ==
  focusEvents >= MaxEvents \/ longest > MaxAway => focusSuspicious

\* Once the dial and the pick-up can write no more and the row has one of the
\* four statuses that the page takes for the end, a page that stays open shows
\* one of them and polls no more, however many polls fail on the way and
\* whatever an earlier call has left on it.  It may be another than the row's
\* last.  A row that is "processed" before the page has asked is no end to the
\* page: it goes on as if the call were being dialled.
PageLearnsTheEnd ==
  (page = "open" /\ status \in Terminal /\ dialDone /\ pickupDone)
     ~> ((poll = "stopped" /\ shown \in Terminal) \/ page # "open" \/ status = "processed")

\* Closing the tab on a call that it shows as live ends the call, though what it
\* shows may be stale, or what it said of an earlier call: the beacon leaves an
\* outcome in the row unless it is lost.  (A dial or pick-up that is still to be
\* written may overwrite the outcome, so both must be over.)  This is about the
\* call in the tab: one that another submission of the form has replaced, or
\* that the answer to an earlier cancel has closed, gets no beacon and goes on.
PageKnowsNoEnd ==
  page = "open" /\ shown \in Live /\ (poll = "answered" => answer \in Live)
ClosedTabEndsCall ==
  (PageKnowsNoEnd /\ dialDone /\ pickupDone)
     ~> (status \in Outcomes \/ request["beacon"] = "lost" \/ [](page # "closed"))
=============================================================================
