--------------------- MODULE ScriptedConversationProofs ---------------------
(***************************************************************************)
(* Theorems about the scripted conversation, for every number of           *)
(* transcriptions and for both kinds of call.                              *)
(*                                                                         *)
(* The argument.  The debounce and the guard both end the reply, but each  *)
(* of them leaves "waiting_for_reply" in the statement in which it looks   *)
(* at the state, so that at most one of them ever runs _on_reply_complete. *)
(* IInv says so (OneCloser) and ties what has been said to the progress of *)
(* that one task (SaidSoFar).  OnItsWay adds that there is always a task   *)
(* left to bring the conversation to its end.                              *)
(***************************************************************************)
EXTENDS ScriptedConversation, SequenceTheorems, TLAPS

Acks == {"ack", "fallback_ack"}

Unanswered == \A c \in Closers : closing[c] = "none"

\* Before the reply is complete, the handler of the StartFrame is in charge.
Opening ==
  /\ start \in {"idle", "waiting", "settling"} => state = "idle" /\ said = <<>>
  /\ start = "greeting" => state = "speaking_greeting" /\ said = <<"intro">>
  /\ start = "cancelled" => state \in {"idle", "speaking_greeting"}
                            /\ said \in {<<>>, <<"intro">>}
  /\ start = "done" /\ Unanswered => state = "waiting_for_reply" /\ said = <<"intro">>
  /\ start # "done" => guard = "none" /\ debounce = {} /\ Unanswered

OneCloser ==
  /\ \A c, d \in Closers : closing[c] # "none" /\ closing[d] # "none" => c = d
  /\ ~Unanswered => state \notin {"idle", "speaking_greeting", "waiting_for_reply"}

SaidSoFar ==
  \A c \in Closers :
    /\ closing[c] = "generating_ack" => said = <<"intro">> /\ ~ended
    /\ closing[c] = "speaking_ack" => ~ended /\ \E a \in Acks : said = <<"intro", a>>
    /\ closing[c] \in {"speaking_goodbye", "ending"}
         => ~ended /\ \E a \in Acks : said = <<"intro", a, "goodbye">>
    /\ closing[c] \in {"reporting", "done"}
         => ended /\ \E a \in Acks : said = <<"intro", a, "goodbye", "end">>

Reported ==
  /\ Unanswered => ~ended
  /\ reports = 1 => \E c \in Closers : closing[c] = "done"

ReplyRead ==
  /\ \A c \in Closers : closing[c] = "none" => reply[c] = 0
  /\ \A c \in Closers : reply[c] > 0 => reply[c] = heard

Attended ==
  WaitForParticipant /\ (start \in {"settling", "greeting", "done"} \/ said # <<>>) => joined

IInv == /\ TypeOK /\ Opening /\ OneCloser /\ SaidSoFar /\ Reported /\ ReplyRead /\ Attended

-----------------------------------------------------------------------------

Frames == {"intro", "ack", "fallback_ack", "goodbye", "end"}

LEMMA Sequel ==
  ASSUME NEW a \in Acks
  PROVE  /\ Append(<<>>, "intro") = <<"intro">>
         /\ Append(<<"intro">>, a) = <<"intro", a>>
         /\ Append(<<"intro", a>>, "goodbye") = <<"intro", a, "goodbye">>
         /\ Append(<<"intro", a, "goodbye">>, "end") = <<"intro", a, "goodbye", "end">>
  <1> a \in Frames /\ "intro" \in Frames /\ "goodbye" \in Frames /\ "end" \in Frames
    BY DEF Acks, Frames
  <1>1. Append(<<>>, "intro") = <<"intro">>
    OBVIOUS
  <1>2. /\ <<"intro">> \in Seq(Frames) /\ <<"intro", a>> \in Seq(Frames)
        /\ <<"intro", a, "goodbye">> \in Seq(Frames)
        /\ <<"intro", a, "goodbye", "end">> \in Seq(Frames)
    OBVIOUS
  <1>3. Append(<<"intro">>, a) = <<"intro", a>>
    <2> DEFINE s == Append(<<"intro">>, a)
    <2>1. s \in Seq(Frames) /\ Len(s) = 2
      BY <1>2
    <2>2. \A i \in 1..2 : s[i] = <<"intro", a>>[i]
      BY <1>2
    <2> QED
      BY <1>2, <2>1, <2>2, SeqEqual
  <1>4. Append(<<"intro", a>>, "goodbye") = <<"intro", a, "goodbye">>
    <2> DEFINE s == Append(<<"intro", a>>, "goodbye")
    <2>1. s \in Seq(Frames) /\ Len(s) = 3
      BY <1>2
    <2>2. \A i \in 1..3 : s[i] = <<"intro", a, "goodbye">>[i]
      BY <1>2
    <2> QED
      BY <1>2, <2>1, <2>2, SeqEqual
  <1>5. Append(<<"intro", a, "goodbye">>, "end") = <<"intro", a, "goodbye", "end">>
    <2> DEFINE s == Append(<<"intro", a, "goodbye">>, "end")
    <2>1. s \in Seq(Frames) /\ Len(s) = 4
      BY <1>2
    <2>2. \A i \in 1..4 : s[i] = <<"intro", a, "goodbye", "end">>[i]
      BY <1>2
    <2> QED
      BY <1>2, <2>1, <2>2, SeqEqual
  <1> QED
    BY <1>1, <1>3, <1>4, <1>5

\* Whatever is said is said, and of the right type.
LEMMA SaidSomething ==
  ASSUME NEW s \in Seq({"intro", "ack", "fallback_ack", "goodbye", "end"}),
         NEW x \in {"intro", "ack", "fallback_ack", "goodbye", "end"}
  PROVE  /\ Append(s, x) \in Seq({"intro", "ack", "fallback_ack", "goodbye", "end"})
         /\ Append(s, x) # <<>>
  OBVIOUS

LEMMA InitIInv == Init => IInv
  <1> SUFFICES ASSUME Init PROVE IInv
    OBVIOUS
  <1> USE DEF Init
  <1>1. TypeOK
    <2>1. 0 \in 0..MaxFinals
      BY MaxFinalsAssumption DEF MaxFinalsAssumption
    <2>2. closing \in [Closers -> ClosingStates] /\ reply \in [Closers -> 0..MaxFinals]
      BY <2>1 DEF ClosingStates
    <2>3. said \in Seq({"intro", "ack", "fallback_ack", "goodbye", "end"}) /\ state \in States
      BY DEF States
    <2>4. reports \in 0..1 /\ heard \in 0..MaxFinals /\ debounce \subseteq {"latest", "outdated"}
      BY <2>1
    <2> QED
      BY <2>2, <2>3, <2>4 DEF TypeOK
  <1>2. Opening /\ OneCloser /\ SaidSoFar /\ Reported /\ ReplyRead /\ Attended
    BY DEF Opening, OneCloser, SaidSoFar, Reported, ReplyRead, Attended, Unanswered, Closers
  <1> QED
    BY <1>1, <1>2 DEF IInv

\* One step per action, and under it one per conjunct of the invariant.
LEMMA NextIInv == IInv /\ [Next]_vars => IInv'
  <1> SUFFICES ASSUME IInv, [Next]_vars PROVE IInv'
    OBVIOUS
  <1> USE DEF IInv, TypeOK, Opening, OneCloser, SaidSoFar, Reported, ReplyRead, Attended,
             States, ClosingStates, Closers, Unanswered, Acks, script, listening, finishing
  <1>1. CASE StartFrame
    BY <1>1, WaitForParticipantAssumption DEF StartFrame, WaitForParticipantAssumption
  <1>2. CASE ParticipantJoined
    BY <1>2 DEF ParticipantJoined
  <1>3. CASE ParticipantReady
    BY <1>3 DEF ParticipantReady
  <1>4. CASE Greet
    BY <1>4, Sequel, SaidSomething DEF Greet
  <1>5. CASE Listen
    BY <1>5 DEF Listen
  <1>6. CASE BufferReply
    BY <1>6, MaxFinalsAssumption DEF BufferReply, MaxFinalsAssumption
  <1>7. CASE PingDebounce
    BY <1>7 DEF PingDebounce
  <1>8. ASSUME NEW d \in {"latest", "outdated"}, FinaliseReply(d)
        PROVE  IInv'
    BY <1>8, MaxFinalsAssumption DEF FinaliseReply, OnReplyComplete, MaxFinalsAssumption
  <1>9. CASE ReplyTimeout
    BY <1>9, MaxFinalsAssumption DEF ReplyTimeout, OnReplyComplete, MaxFinalsAssumption
  <1>10. ASSUME NEW c \in Closers, SpeakAck(c)
         PROVE  IInv'
    BY <1>10, Sequel, SaidSomething DEF SpeakAck
  <1>11. ASSUME NEW c \in Closers, SpeakGoodbye(c)
         PROVE  IInv'
    BY <1>11, Sequel, SaidSomething DEF SpeakGoodbye
  <1>12. ASSUME NEW c \in Closers, SleepForSpeech(c)
         PROVE  IInv'
    BY <1>12 DEF SleepForSpeech
  <1>13. ASSUME NEW c \in Closers, End(c)
         PROVE  IInv'
    <2>1. /\ closing[c] = "ending" /\ ~ended
          /\ closing' = [closing EXCEPT ![c] = "reporting"]
          /\ ended' /\ said' = Append(said, "end")
          /\ UNCHANGED <<state, start, joined, listening, reply, reports, pipeline>>
      BY <1>13 DEF End
    <2>2. PICK a \in Acks : said = <<"intro", a, "goodbye">>
      BY <2>1
    <2>3. said' = <<"intro", a, "goodbye", "end">>
      BY <2>1, <2>2, Sequel
    <2>4. said' # <<>> /\ TypeOK'
      BY <2>1, SaidSomething
    <2> QED
      BY <2>1, <2>3, <2>4
  <1>14. ASSUME NEW c \in Closers, ReportEnd(c)
         PROVE  IInv'
    BY <1>14 DEF ReportEnd
  <1>15. CASE PipelineOver
    BY <1>15 DEF PipelineOver
  <1>16. CASE UNCHANGED vars
    BY <1>16 DEF vars
  <1> QED
    BY <1>1, <1>2, <1>3, <1>4, <1>5, <1>6, <1>7, <1>8, <1>9, <1>10,
       <1>11, <1>12, <1>13, <1>14, <1>15, <1>16 DEF Next, Closing

\* Types.
THEOREM TypeCorrect == Spec => []TypeOK
  <1>1. IInv => TypeOK
    BY DEF IInv
  <1> QED
    BY InitIInv, NextIInv, <1>1, PTL DEF Spec

\* The candidate hears the script once and in order.
THEOREM ScriptIsSaidOnce == Spec => []SaysTheScript
  <1>1. IInv => SaysTheScript
    <2> SUFFICES ASSUME IInv PROVE SaysTheScript
      OBVIOUS
    <2>1. CASE Unanswered
      BY <2>1 DEF IInv, TypeOK, Opening, SaysTheScript, Sayings
    <2>2. CASE ~Unanswered
      <3>1. PICK c \in Closers : closing[c] # "none"
        BY <2>2 DEF Unanswered
      <3>2. closing[c] \in ClosingStates \ {"none"}
        BY <3>1 DEF IInv, TypeOK
      <3> QED
        BY <3>2 DEF IInv, SaidSoFar, ClosingStates, Acks, SaysTheScript, Sayings
    <2> QED
      BY <2>1, <2>2
  <1> QED
    BY InitIInv, NextIInv, <1>1, PTL DEF Spec

\* The acknowledgement of a reply is for everything that was heard.
THEOREM WholeReplyIsAnswered == Spec => []ReplyIsWhole
  <1>1. IInv => ReplyIsWhole
    BY DEF IInv, ReplyRead, ReplyIsWhole
  <1> QED
    BY InitIInv, NextIInv, <1>1, PTL DEF Spec

\* The bot speaks, and hangs up, to somebody.
THEOREM CandidateIsThere == Spec => []SpeaksToSomebody
  <1>1. IInv => SpeaksToSomebody
    <2> SUFFICES ASSUME IInv, WaitForParticipant, reports > 0 PROVE said # <<>>
      BY DEF IInv, Attended, SpeaksToSomebody
    <2>1. PICK c \in Closers : closing[c] = "done"
      BY DEF IInv, TypeOK, Reported
    <2> QED
      BY <2>1 DEF IInv, SaidSoFar
  <1> QED
    BY InitIInv, NextIInv, <1>1, PTL DEF Spec

\* Only one debounce task is ever asleep, and it is the latest.
NoneOutdated == debounce \subseteq {"latest"}

LEMMA DebounceIsLatest == Spec => []NoneOutdated
  <1>1. Init => NoneOutdated
    BY DEF Init, NoneOutdated
  <1>2. NoneOutdated /\ [Next]_vars => NoneOutdated'
    BY DEF NoneOutdated, Next, vars, script, listening, finishing, StartFrame,
           ParticipantJoined, ParticipantReady, Greet, Listen, BufferReply, PingDebounce,
           FinaliseReply, ReplyTimeout, Closing, SpeakAck, SpeakGoodbye, SleepForSpeech,
           End, ReportEnd, PipelineOver
  <1> QED
    BY <1>1, <1>2, PTL DEF Spec

\* The candidate is not cut short.
THEOREM PauseIsRespected == Spec => PauseRespected
  <1>1. ASSUME TypeOK, NoneOutdated, [Next]_vars,
               closing["debounce"] = "none", closing'["debounce"] # "none"
        PROVE  "latest" \notin debounce'
    <2>1. ASSUME NEW c \in Closers, Closing(c)
          PROVE  FALSE
      <3>1. closing[c] # "none" /\ \E v \in ClosingStates : closing' = [closing EXCEPT ![c] = v]
        BY <2>1 DEF Closing, SpeakAck, SpeakGoodbye, SleepForSpeech, End, ReportEnd, ClosingStates
      <3> QED
        BY <1>1, <3>1 DEF TypeOK, Closers
    <2>2. CASE ReplyTimeout
      BY <1>1, <2>2 DEF TypeOK, Closers, ReplyTimeout, OnReplyComplete, finishing
    <2>3. ASSUME NEW d \in {"latest", "outdated"}, FinaliseReply(d)
          PROVE  "latest" \notin debounce'
      BY <1>1, <2>3 DEF NoneOutdated, FinaliseReply
    <2>4. closing' # closing
      BY <1>1
    <2> QED
      BY <1>1, <2>1, <2>2, <2>3, <2>4
         DEF Next, vars, finishing, StartFrame, ParticipantJoined, ParticipantReady, Greet,
             Listen, BufferReply, PingDebounce, PipelineOver
  <1> QED
    BY <1>1, TypeCorrect, DebounceIsLatest, PTL DEF Spec, PauseRespected

-----------------------------------------------------------------------------
(* On the way to the hang-up.                                              *)

\* In every state between the greeting and the report of the end some task is
\* about to go on: the guard sleeps, or one closer is where the state says.
OnItsWay ==
  /\ state = "waiting_for_reply" => guard = "sleeping"
  /\ state \in {"generating_ack", "speaking_ack", "speaking_goodbye"}
       => \E c \in Closers : closing[c] = state
  /\ state = "ending"
       => reports > 0 \/ \E c \in Closers : closing[c] \in {"ending", "reporting"}

LEMMA OnItsWayStep == IInv /\ OnItsWay /\ [Next]_vars => OnItsWay'
  <1> SUFFICES ASSUME IInv, OnItsWay, [Next]_vars PROVE OnItsWay'
    OBVIOUS
  <1> USE DEF IInv, TypeOK, OnItsWay, script, listening, finishing
  <1>1. CASE StartFrame \/ ParticipantJoined \/ ParticipantReady \/ PipelineOver
    BY <1>1 DEF StartFrame, ParticipantJoined, ParticipantReady, PipelineOver
  <1>2. CASE Greet \/ Listen
    BY <1>2 DEF Greet, Listen
  <1>3. CASE BufferReply \/ PingDebounce
    BY <1>3 DEF BufferReply, PingDebounce
  <1>4. ASSUME NEW d \in {"latest", "outdated"}, FinaliseReply(d) PROVE OnItsWay'
    BY <1>4 DEF FinaliseReply, OnReplyComplete, Closers
  <1>5. CASE ReplyTimeout
    BY <1>5 DEF ReplyTimeout, OnReplyComplete, Closers
  <1>6. ASSUME NEW c \in Closers, SpeakAck(c) \/ SpeakGoodbye(c) \/ SleepForSpeech(c)
        PROVE  OnItsWay'
    BY <1>6 DEF SpeakAck, SpeakGoodbye, SleepForSpeech
  <1>7. ASSUME NEW c \in Closers, End(c) PROVE OnItsWay'
    <2>1. ~ended
      BY <1>7 DEF End, SaidSoFar
    <2>2. closing'[c] = "reporting" /\ UNCHANGED <<state, guard>>
      BY <1>7, <2>1 DEF End, listening
    <2>3. \A d \in Closers : d # c => closing[d] = "none"
      BY <1>7 DEF End, OneCloser
    <2>4. state \notin {"generating_ack", "speaking_ack", "speaking_goodbye"}
      BY <1>7, <2>3 DEF End
    <2> QED
      BY <2>2, <2>4
  <1>8. ASSUME NEW c \in Closers, ReportEnd(c) PROVE OnItsWay'
    <2>1. reports' > 0 /\ UNCHANGED <<state, guard>>
      BY <1>8 DEF ReportEnd, listening
    <2>2. \A d \in Closers : d # c => closing[d] = "none"
      BY <1>8 DEF ReportEnd, OneCloser
    <2>3. state \notin {"generating_ack", "speaking_ack", "speaking_goodbye"}
      BY <1>8, <2>2 DEF ReportEnd
    <2> QED
      BY <2>1, <2>3
  <1>9. CASE UNCHANGED vars
    BY <1>9 DEF vars
  <1> QED
    BY <1>1, <1>2, <1>3, <1>4, <1>5, <1>6, <1>7, <1>8, <1>9 DEF Next, Closing

\* A bot that has begun to listen is never left without a task that takes the
\* conversation on to the hang-up, whatever was said and whether or not the
\* pipeline is still there: the part of HangsUp that is not fairness.
THEOREM NeverLeftHanging == Spec => []OnItsWay
  <1>1. Init => OnItsWay
    BY DEF Init, OnItsWay
  <1> QED
    BY InitIInv, NextIInv, OnItsWayStep, <1>1, PTL DEF Spec
=============================================================================
