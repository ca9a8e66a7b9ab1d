------------------------- MODULE CandidatePageProofs -------------------------
(***************************************************************************)
(* Proofs about CandidatePage: its types, the verdict on the candidate's   *)
(* absences, and that the page with its requests leaves the session row    *)
(* within the abstract specification SessionRow, so that a reader of the   *)
(* row may go on assuming it.  Then what the page makes of the end of the  *)
(* call: it polls on until it shows one; what it shows after it has shown  *)
(* the call live is true; and a tab that is closed while it shows the call *)
(* leaves none without an outcome or a request to give it one.             *)
(***************************************************************************)
EXTENDS CandidatePage, TLAPS

LEMMA StatusSets ==
  /\ Terminal \subseteq Statuses
  /\ Outcomes \subseteq Statuses
  /\ Live \subseteq Statuses
  /\ {"cancelled", "user_ended"} \subseteq Outcomes
  /\ Row!Outcomes = Outcomes
  BY DEF Terminal, Live, Outcomes, Statuses, Row!Outcomes, Row!Statuses

LEMMA LiveOrOver == \A s \in Statuses : s \in Live <=> s \notin Outcomes
  BY DEF Live, Outcomes, Statuses

LEMMA InitType == Init => TypeOK
  <1> SUFFICES ASSUME Init PROVE TypeOK
    OBVIOUS
  <1>1. 0 \in 0..MaxAbsences /\ 0 \in 0..MaxFaults
    BY LimitsAssumption
  <1> QED
    BY <1>1, StatusSets DEF Init, TypeOK, Row!Init, Statuses, Requests

LEMMA FaultType == ASSUME TypeOK, Fault PROVE faults' \in 0..MaxFaults
  BY LimitsAssumption DEF TypeOK, Fault

\* The posts in flight, one less and one more.
LEMMA PostTaken ==
  ASSUME NEW d \in Durations, TypeOK, posts[d] > 0
  PROVE  [posts EXCEPT ![d] = @ - 1] \in [Durations -> Nat]
  BY DEF TypeOK

LEMMA PostSent ==
  ASSUME NEW d \in Durations, TypeOK
  PROVE  [posts EXCEPT ![d] = @ + 1] \in [Durations -> Nat]
  BY DEF TypeOK

LEMMA TypeStep == TypeOK /\ [Next]_vars => TypeOK'
  <1> SUFFICES ASSUME TypeOK, [Next]_vars PROVE TypeOK'
    OBVIOUS
  <1>1. CASE CallGoesOn
    <2>1. status' \in Statuses /\ dialDone' \in BOOLEAN /\ pickupDone' \in BOOLEAN
      BY <1>1, StatusSets DEF CallGoesOn, TypeOK, Live, Row!Dialled, Row!PickedUp, Row!Forgo,
                            Row!Conclude
    <2> QED
      BY <1>1, <2>1 DEF CallGoesOn, TypeOK, focusVars, pollVars, tabVars
  <1>2. CASE SendPoll \/ AnswerPoll \/ ShowAnswer
    BY <1>2, StatusSets DEF SendPoll, AnswerPoll, ShowAnswer, TypeOK, Live, rowVars, focusVars,
                            tabVars
  <1>3. CASE PollFails
    BY <1>3, FaultType, StatusSets DEF PollFails, TypeOK, Live, rowVars, focusVars, tabVars
  <1>4. CASE Hide
    <2>1. absences' \in 0..MaxAbsences
      BY <1>4, LimitsAssumption DEF Hide, TypeOK
    <2>2. lostAt' \in BOOLEAN
      BY <1>4 DEF Hide, TypeOK, Listening
    <2> QED
      BY <1>4, <2>1, <2>2 DEF Hide, TypeOK, rowVars, focusVars, pollVars
  <1>5. ASSUME NEW d \in Durations, ComeBack(d) PROVE TypeOK'
    <2>1. lostAt' \in BOOLEAN /\ posts' \in [Durations -> Nat]
      <3>1. CASE Listening /\ lostAt
        <4>1. lostAt' = FALSE /\ posts' = [posts EXCEPT ![d] = @ + 1]
          BY <1>5, <3>1 DEF ComeBack
        <4>2. posts' \in [Durations -> Nat]
          BY <4>1, PostSent
        <4> QED
          BY <4>1, <4>2
      <3>2. CASE ~(Listening /\ lostAt)
        <4>1. UNCHANGED <<lostAt, posts>>
          BY <1>5, <3>2 DEF ComeBack
        <4> QED
          BY <4>1 DEF TypeOK
      <3> QED
        BY <3>1, <3>2
    <2> QED
      BY <1>5, <2>1 DEF ComeBack, TypeOK, rowVars, focusVars, pollVars
  <1>6. ASSUME NEW d \in Durations, AppendFocusEvent(d) PROVE TypeOK'
    <2>1. posts' \in [Durations -> Nat]
      BY <1>6, PostTaken DEF AppendFocusEvent
    <2>2. focusEvents' \in Nat /\ focusAway' \in Nat /\ longest' \in Nat
      BY <1>6, DurationsAssumption DEF AppendFocusEvent, TypeOK
    <2>3. focusSuspicious' \in BOOLEAN
      BY <1>6 DEF AppendFocusEvent, TypeOK
    <2> QED
      BY <1>6, <2>1, <2>2, <2>3 DEF AppendFocusEvent, TypeOK, rowVars, pollVars
  <1>7. ASSUME NEW d \in Durations, LosePost(d) PROVE TypeOK'
    <2>1. posts' \in [Durations -> Nat]
      BY <1>7, PostTaken DEF LosePost
    <2> QED
      BY <1>7, <2>1 DEF LosePost, TypeOK, rowVars, focusVars, pollVars
  <1>8. CASE PressCancel \/ Resubmit \/ CloseTab \/ BackToForm
    BY <1>8, StatusSets DEF PressCancel, Resubmit, CloseTab, BackToForm, Leave, TypeOK, Live, rowVars,
                            focusVars, pollVars, tabVars
  <1>9. ASSUME NEW r \in Requests, Cancelling(r) PROVE TypeOK'
    <2>1. status' \in Statuses
      BY <1>9, StatusSets DEF Cancelling, ReadForCancel, WriteCancelled, TypeOK, rowVars
    <2> QED
      BY <1>9, <2>1 DEF Cancelling, ReadForCancel, WriteCancelled, TypeOK, rowVars, focusVars,
                       pollVars, tabVars
  <1>10. ASSUME NEW r \in Requests, CancelFails(r) PROVE TypeOK'
    <2>1. faults' \in 0..MaxFaults
      BY <1>10, FaultType DEF CancelFails
    <2>2. request' \in [Requests -> {"idle", "earlier", "sent", "cancelled", "user_ended",
                                     "answered", "lost"}]
      BY <1>10 DEF CancelFails, TypeOK
    <2> QED
      BY <1>10, <2>1, <2>2 DEF CancelFails, TypeOK, rowVars, focusVars, pollVars, tabVars
  <1>11. CASE UNCHANGED vars
    BY <1>11 DEF vars, TypeOK, rowVars, focusVars, pollVars, tabVars
  <1> QED
    BY <1>1, <1>2, <1>3, <1>4, <1>5, <1>6, <1>7, <1>8, <1>9, <1>10, <1>11 DEF Next

\* Every variable of the page and the row keeps its type, for every set of
\* durations, every threshold and every bound.
THEOREM TypeCorrect == Spec => []TypeOK
  BY InitType, TypeStep, PTL DEF Spec

-----------------------------------------------------------------------------

\* No absence is longer than all of them, and the statement never misses one of
\* its own two thresholds.
VerdictInv ==
  /\ longest <= focusAway
  /\ focusEvents >= MaxEvents \/ focusAway >= MaxAway => focusSuspicious

LEMMA VerdictStep == TypeOK /\ VerdictInv /\ [Next]_vars => VerdictInv'
  <1> SUFFICES ASSUME TypeOK, VerdictInv, [Next]_vars PROVE VerdictInv'
    OBVIOUS
  <1>1. ASSUME NEW d \in Durations, AppendFocusEvent(d) PROVE VerdictInv'
    <2>1. /\ focusEvents' = focusEvents + 1 /\ focusAway' = focusAway + d
          /\ longest' = IF d > longest THEN d ELSE longest
      BY <1>1 DEF AppendFocusEvent
    <2>2. longest' <= focusAway'
      BY <2>1, DurationsAssumption DEF TypeOK, VerdictInv
    <2>3. focusEvents' >= MaxEvents \/ focusAway' >= MaxAway => focusSuspicious'
      BY <1>1, <2>1 DEF AppendFocusEvent
    <2> QED
      BY <2>2, <2>3 DEF VerdictInv
  <1>2. ASSUME UNCHANGED focusVars PROVE VerdictInv'
    BY <1>2 DEF VerdictInv, focusVars
  <1>3. (\E d \in Durations : AppendFocusEvent(d)) \/ UNCHANGED focusVars
    BY DEF Next, vars, focusVars, CallGoesOn, SendPoll, AnswerPoll, PollFails, ShowAnswer, Hide,
           ComeBack, LosePost, PressCancel, Resubmit, CloseTab, BackToForm, Cancelling, ReadForCancel,
           WriteCancelled, CancelFails
  <1> QED
    BY <1>1, <1>2, <1>3

\* No session with as many absences as the threshold says, or with a single one
\* over the limit, goes unmarked, in whatever order the requests come and for
\* every value of the thresholds; although the statement that decides it never
\* looks at a single absence, only at their number and their total.  (The first
\* row has no event, so the thresholds must be positive.)
THEOREM VerdictCorrect == Spec => []DocumentedAbsencesFlagged
  <1>1. Init => VerdictInv
    BY ThresholdsAssumption DEF Init, VerdictInv
  <1>2. TypeOK /\ VerdictInv => DocumentedAbsencesFlagged
    BY ThresholdsAssumption DEF TypeOK, VerdictInv, DocumentedAbsencesFlagged
  <1> QED
    BY <1>1, <1>2, InitType, TypeStep, VerdictStep, PTL DEF Spec

-----------------------------------------------------------------------------

LEMMA RowStep == [Next]_vars => [Row!Next]_(Row!rowVars)
  <1> SUFFICES ASSUME [Next]_vars PROVE [Row!Next]_(Row!rowVars)
    OBVIOUS
  <1>1. CASE CallGoesOn
    BY <1>1 DEF CallGoesOn, Row!Next
  <1>2. ASSUME NEW r \in Requests, WriteCancelled(r) PROVE [Row!Next]_(Row!rowVars)
    <2>1. status' \in Outcomes
      BY <1>2, StatusSets DEF WriteCancelled
    <2> QED
      BY <1>2, <2>1, StatusSets DEF WriteCancelled, Row!Next, Row!Conclude
  <1>3. CallGoesOn \/ (\E r \in Requests : WriteCancelled(r)) \/ UNCHANGED rowVars
    BY DEF Next, vars, rowVars, SendPoll, AnswerPoll, PollFails, ShowAnswer, Hide, ComeBack,
           AppendFocusEvent, LosePost, PressCancel, Resubmit, CloseTab, BackToForm, Leave,
           Cancelling, ReadForCancel, CancelFails
  <1>4. CASE UNCHANGED rowVars
    BY <1>4 DEF rowVars, Row!rowVars
  <1> QED
    BY <1>1, <1>2, <1>3, <1>4

\* The page's cancel requests, stale and repeated ones included, stay within
\* what SessionRow allows: cancel_call only ever adds an outcome.
THEOREM PageKeepsRow == Spec => Row!Spec
  <1>1. Init => Row!Init
    BY DEF Init
  <1> QED
    BY <1>1, RowStep, PTL DEF Spec, Row!Spec
-----------------------------------------------------------------------------
(* The polling, and the end of the call as the page knows it: the safety   *)
(* halves of PageLearnsTheEnd and ClosedTabEndsCall.                       *)

\* An open page has a status request under way, or due, until it shows an end
\* of the call that it stops for; a page that is left has none.
PollGoesOn ==
  IF page = "open" THEN poll # "gone" /\ (poll = "stopped" => shown \in Terminal)
                   ELSE poll = "gone"

\* The beacon is only sent by the closing of the tab, and a tab that was closed
\* without it did not show a live call.
BeaconIsSent ==
  /\ request["beacon"] # "earlier"
  /\ page = "open" => request["beacon"] = "idle"
  /\ page = "closed" => request["beacon"] # "idle" \/ shown \notin Live

LEMMA PollGoesOnStep == PollGoesOn /\ [Next]_vars => PollGoesOn'
  <1> SUFFICES ASSUME PollGoesOn, [Next]_vars PROVE PollGoesOn'
    OBVIOUS
  <1> USE DEF PollGoesOn
  <1>1. CASE SendPoll \/ AnswerPoll \/ PollFails
    BY <1>1 DEF SendPoll, AnswerPoll, PollFails
  <1>2. CASE ShowAnswer
    BY <1>2 DEF ShowAnswer
  <1>3. CASE Resubmit \/ CloseTab \/ BackToForm
    BY <1>3 DEF Resubmit, CloseTab, BackToForm, Leave
  <1>4. CASE UNCHANGED <<page, shown, poll>>
    BY <1>4
  <1>5. \/ SendPoll \/ AnswerPoll \/ PollFails \/ ShowAnswer \/ Resubmit \/ CloseTab \/ BackToForm
        \/ UNCHANGED <<page, shown, poll>>
    BY DEF Next, vars, pollVars, CallGoesOn, Hide, ComeBack, AppendFocusEvent, LosePost,
           PressCancel, Cancelling, ReadForCancel, WriteCancelled, CancelFails
  <1> QED
    BY <1>1, <1>2, <1>3, <1>4, <1>5

LEMMA BeaconIsSentStep ==
  TypeOK /\ PollGoesOn /\ BeaconIsSent /\ [Next]_vars => BeaconIsSent'
  <1> SUFFICES ASSUME TypeOK, PollGoesOn, BeaconIsSent, [Next]_vars PROVE BeaconIsSent'
    OBVIOUS
  <1> USE DEF BeaconIsSent, TypeOK, Requests
  <1>1. CASE PressCancel
    BY <1>1 DEF PressCancel, pollVars
  <1>2. CASE CloseTab
    BY <1>2 DEF CloseTab, Leave
  <1>3. CASE Resubmit \/ BackToForm
    BY <1>3 DEF Resubmit, BackToForm, Leave
  <1>4. ASSUME NEW r \in Requests, Cancelling(r) \/ CancelFails(r) PROVE BeaconIsSent'
    BY <1>4 DEF Cancelling, ReadForCancel, WriteCancelled, CancelFails, pollVars
  <1>5. CASE ShowAnswer
    <2>1. page = "open" /\ UNCHANGED <<page, request>>
      BY <1>5 DEF ShowAnswer, PollGoesOn
    <2> QED
      BY <1>5, <2>1
  <1>6. CASE UNCHANGED <<page, shown, request>>
    BY <1>6
  <1>7. \/ PressCancel \/ Resubmit \/ CloseTab \/ BackToForm \/ ShowAnswer
        \/ (\E r \in Requests : Cancelling(r) \/ CancelFails(r))
        \/ UNCHANGED <<page, shown, request>>
    BY DEF Next, vars, pollVars, CallGoesOn, SendPoll, AnswerPoll, PollFails, Hide, ComeBack,
           AppendFocusEvent, LosePost
  <1> QED
    BY <1>1, <1>2, <1>3, <1>4, <1>5, <1>6, <1>7

PageInv == TypeOK /\ PollGoesOn /\ BeaconIsSent

LEMMA SpecPageInv == Spec => []PageInv
  <1>1. Init => PageInv
    BY InitType DEF Init, PageInv, PollGoesOn, BeaconIsSent, Requests
  <1>2. PageInv /\ [Next]_vars => PageInv'
    BY TypeStep, PollGoesOnStep, BeaconIsSentStep DEF PageInv
  <1> QED
    BY <1>1, <1>2, PTL DEF Spec

\* However many polls fail, and whatever an earlier call has left on the page,
\* a page that is open and shows none of the four ends polls on, one request at
\* a time; a page that has been left polls no more.
THEOREM PollNeverStalls == Spec => []PollGoesOn
  <1>1. PageInv => PollGoesOn
    BY DEF PageInv
  <1> QED
    BY <1>1, SpecPageInv, PTL

\* The dial and the pick-up can write the row no more.
RowSettled == dialDone /\ pickupDone

\* Nothing but an outcome is written any more.
LEMMA SettledStep ==
  RowSettled /\ [Next]_vars => RowSettled' /\ (status \in Outcomes => status' \in Outcomes)
  <1> SUFFICES ASSUME RowSettled, [Next]_vars
               PROVE  RowSettled' /\ (status \in Outcomes => status' \in Outcomes)
    OBVIOUS
  <1> QED
    BY RowStep, StatusSets
    DEF RowSettled, Row!Next, Row!Dialled, Row!PickedUp, Row!Forgo, Row!Conclude, Row!rowVars

\* The call is over in the row, or the beacon that will end it has been sent
\* and has not been answered: it is under way or it was lost.
CallIsEnded == status \in Outcomes \/ request["beacon"] \notin {"idle", "answered"}

\* Whatever the page has learned of the end, and whatever the beacon's answer
\* says of it, is true of the row.
KnowsWhatIs == /\ RowSettled
               /\ shown \in Outcomes => status \in Outcomes
               /\ poll = "answered" /\ answer \in Outcomes => status \in Outcomes
               /\ request["beacon"] = "answered" => status \in Outcomes

LEMMA KnowsWhatIsStep == PageInv /\ KnowsWhatIs /\ [Next]_vars => KnowsWhatIs'
  <1> SUFFICES ASSUME PageInv, KnowsWhatIs, [Next]_vars PROVE KnowsWhatIs'
    OBVIOUS
  <1>1. RowSettled' /\ (status \in Outcomes => status' \in Outcomes)
    BY SettledStep DEF KnowsWhatIs
  <1>2. /\ shown' \in Outcomes => status' \in Outcomes
        /\ poll' = "answered" /\ answer' \in Outcomes => status' \in Outcomes
    <2>1. CASE SendPoll \/ AnswerPoll \/ PollFails \/ ShowAnswer
      BY <1>1, <2>1 DEF SendPoll, AnswerPoll, PollFails, ShowAnswer, KnowsWhatIs, rowVars
    <2>2. CASE Resubmit \/ CloseTab \/ BackToForm
      BY <1>1, <2>2 DEF Resubmit, CloseTab, BackToForm, Leave, KnowsWhatIs
    <2>3. CASE UNCHANGED pollVars
      BY <1>1, <2>3 DEF pollVars, KnowsWhatIs
    <2>4. \/ SendPoll \/ AnswerPoll \/ PollFails \/ ShowAnswer \/ Resubmit \/ CloseTab \/ BackToForm
          \/ UNCHANGED pollVars
      BY DEF Next, vars, pollVars, CallGoesOn, Hide, ComeBack, AppendFocusEvent, LosePost,
             PressCancel, Cancelling, ReadForCancel, WriteCancelled, CancelFails
    <2> QED
      BY <2>1, <2>2, <2>3, <2>4
  <1>3. request'["beacon"] = "answered" => status' \in Outcomes
    <2> USE DEF PageInv, TypeOK, Requests
    <2>1. CASE PressCancel
      BY <1>1, <2>1 DEF PressCancel, KnowsWhatIs
    <2>2. CASE CloseTab
      BY <1>1, <2>2 DEF CloseTab, KnowsWhatIs
    <2>3. ASSUME NEW r \in Requests, ReadForCancel(r) \/ CancelFails(r)
          PROVE  request'["beacon"] = "answered" => status' \in Outcomes
      BY <1>1, <2>3 DEF ReadForCancel, CancelFails, KnowsWhatIs
    <2>4. ASSUME NEW r \in Requests, WriteCancelled(r)
          PROVE  status' \in Outcomes
      BY <2>4, StatusSets DEF WriteCancelled
    <2>5. CASE UNCHANGED request
      BY <1>1, <2>5 DEF KnowsWhatIs
    <2>6. \/ PressCancel \/ CloseTab \/ UNCHANGED request
          \/ \E r \in Requests : ReadForCancel(r) \/ CancelFails(r) \/ WriteCancelled(r)
      BY DEF Next, vars, CallGoesOn, SendPoll, AnswerPoll, PollFails, ShowAnswer, Hide, ComeBack,
             AppendFocusEvent, LosePost, Resubmit, BackToForm, Cancelling
    <2> QED
      BY <2>1, <2>2, <2>3, <2>4, <2>5, <2>6
  <1> QED
    BY <1>1, <1>2, <1>3 DEF KnowsWhatIs

LEMMA KnowsFromLive == PageInv /\ PageKnowsNoEnd /\ RowSettled => KnowsWhatIs
  <1> SUFFICES ASSUME PageInv, PageKnowsNoEnd, RowSettled PROVE KnowsWhatIs
    OBVIOUS
  <1>1. shown \notin Outcomes /\ (poll = "answered" => answer \notin Outcomes)
    BY LiveOrOver DEF PageInv, TypeOK, PageKnowsNoEnd
  <1>2. request["beacon"] = "idle"
    BY DEF PageInv, BeaconIsSent, PageKnowsNoEnd
  <1> QED
    BY <1>1, <1>2 DEF KnowsWhatIs

\* A page that has shown the call live since the dial and the pick-up have had
\* their chance never shows it over while its row has no outcome: answers are
\* late, but never about another call or a state that was taken back.
THEOREM ShownEndIsReal ==
  Spec => [](PageKnowsNoEnd /\ RowSettled => [](shown \in Outcomes => status \in Outcomes))
  <1>1. KnowsWhatIs => (shown \in Outcomes => status \in Outcomes)
    BY DEF KnowsWhatIs
  <1> QED
    BY <1>1, KnowsFromLive, SpecPageInv, KnowsWhatIsStep, PTL DEF Spec

\* From a page that shows the call live, once the dial and the pick-up have had
\* their chance: a tab that is closed on this call, then or later, and whatever
\* the page was told in between, leaves no call behind that has neither an
\* outcome nor a beacon to give it one.  (A page that shows what an earlier call
\* has left may show an end before its first answer, and is closed without a
\* beacon; a call that another has replaced is not in the tab any more.)
THEOREM ClosedTabLeavesNoCall ==
  Spec => [](PageKnowsNoEnd /\ RowSettled => [](page = "closed" => CallIsEnded))
  <1>1. PageInv /\ KnowsWhatIs => (page = "closed" => CallIsEnded)
    BY LiveOrOver DEF PageInv, TypeOK, BeaconIsSent, KnowsWhatIs, CallIsEnded
  <1> QED
    BY <1>1, KnowsFromLive, SpecPageInv, KnowsWhatIsStep, PTL DEF Spec
=============================================================================
