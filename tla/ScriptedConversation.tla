------------------------ MODULE ScriptedConversation ------------------------
(***************************************************************************)
(* ScriptedConversation of flows/basic_call_bot.py: the script of the      *)
(* basic call.  The bot says its greeting and its question, waits for the  *)
(* candidate's reply, acknowledges it, says goodbye and reports the end of *)
(* the call, which is the "bot_hangup" of module CallLifecycle.            *)
(*                                                                         *)
(* Three kinds of coroutine share its state: the handler of the StartFrame *)
(* (start), the debounce of the reply (a task that is cancelled and made   *)
(* again at every sign of speech) and the guard that gives up on a reply.  *)
(* The last two both run _on_reply_complete.  Each loses control at its    *)
(* awaits only.  The debounce and the guard are tasks of their own: they   *)
(* go on when the pipeline has been cancelled.                             *)
(*                                                                         *)
(* Abstracted: time (a timer fires when it is armed, and nobody assumes    *)
(* which one of two fires first), the words (a final transcription is      *)
(* counted), the audio that is still playing.                              *)
(***************************************************************************)
EXTENDS Naturals, Sequences

CONSTANTS
  WaitForParticipant,  \* the greeting waits for the candidate (LiveKit)
  MaxFinals            \* bound: final transcriptions heard

ASSUME WaitForParticipantAssumption == WaitForParticipant \in BOOLEAN
ASSUME MaxFinalsAssumption == MaxFinals \in Nat

\* The tasks that run _on_reply_complete.
Closers == {"debounce", "guard"}

VARIABLES
  state,     \* ConversationState
  start,     \* _start_conversation
  joined,    \* on_participant_joined has been called
  debounce,  \* the sleeping _finalise_reply_after_pause tasks: "latest" since
             \* the last sign of speech, "outdated" older than that
  guard,     \* _reply_timeout_guard
  heard,     \* the length of _reply_buffer
  closing,   \* _on_reply_complete, by task
  reply,     \* the finals in the reply it was given
  said,      \* the frames pushed downstream
  ended,     \* _ended
  reports,   \* the calls of on_call_ended
  pipeline   \* "running", or "over": ended, crashed or cancelled

script == <<state, said, ended, reports>>
listening == <<debounce, guard, heard>>
finishing == <<closing, reply>>
vars == <<script, start, joined, listening, finishing, pipeline>>

States == {"idle", "speaking_greeting", "waiting_for_reply", "generating_ack",
           "speaking_ack", "speaking_goodbye", "ending"}
ClosingStates == {"none", "generating_ack", "speaking_ack", "speaking_goodbye",
                  "ending", "reporting", "done"}

\* What may have been said after each number of steps of the script.
Sayings == {<<>>, <<"intro">>}
           \cup {<<"intro", a>> : a \in {"ack", "fallback_ack"}}
           \cup {<<"intro", a, "goodbye">> : a \in {"ack", "fallback_ack"}}
           \cup {<<"intro", a, "goodbye", "end">> : a \in {"ack", "fallback_ack"}}

\* The type of every variable.  SPEAKING_QUESTION is in the enumeration "for
\* backwards compatibility but is no longer visited".
TypeOK ==
  /\ state \in States
  /\ start \in {"idle", "waiting", "settling", "greeting", "done", "cancelled"}
  /\ joined \in BOOLEAN
  /\ debounce \subseteq {"latest", "outdated"}
  /\ guard \in {"none", "sleeping", "done"}
  /\ heard \in 0..MaxFinals
  /\ closing \in [Closers -> ClosingStates]
  /\ reply \in [Closers -> 0..MaxFinals]
  /\ said \in Seq({"intro", "ack", "fallback_ack", "goodbye", "end"})
  /\ ended \in BOOLEAN
  /\ reports \in 0..1
  /\ pipeline \in {"running", "over"}

Init ==
  /\ state = "idle" /\ start = "idle" /\ joined = FALSE
  /\ debounce = {} /\ guard = "none" /\ heard = 0
  /\ closing = [c \in Closers |-> "none"]
  /\ reply = [c \in Closers |-> 0]
  /\ said = <<>> /\ ended = FALSE /\ reports = 0
  /\ pipeline = "running"

-----------------------------------------------------------------------------
(* _start_conversation, in the handler of the StartFrame.                  *)

\* Mutation: the bot does not wait for the candidate.
StartFrame_NoWait ==
  /\ pipeline = "running"
  /\ start = "idle"
  /\ start' = "settling"
  /\ UNCHANGED <<script, joined, listening, finishing, pipeline>>

StartFrame ==
  /\ pipeline = "running"
  /\ start = "idle"
  /\ start' = IF WaitForParticipant THEN "waiting" ELSE "settling"
  /\ UNCHANGED <<script, joined, listening, finishing, pipeline>>

\* on_participant_joined: the room has its first participant.
ParticipantJoined ==
  /\ pipeline = "running"
  /\ ~joined
  /\ joined' = TRUE
  /\ UNCHANGED <<script, start, listening, finishing, pipeline>>

\* The event is set, and the second that the browser is given begins.
ParticipantReady ==
  /\ start = "waiting"
  /\ joined
  /\ start' = "settling"
  /\ UNCHANGED <<script, joined, listening, finishing, pipeline>>

Greet ==
  /\ start = "settling"
  /\ start' = "greeting"
  /\ state' = "speaking_greeting"
  /\ said' = Append(said, "intro")
  /\ UNCHANGED <<joined, listening, finishing, ended, reports, pipeline>>

Listen ==
  /\ start = "greeting"
  /\ start' = "done"
  /\ state' = "waiting_for_reply"
  /\ guard' = "sleeping"
  /\ UNCHANGED <<joined, debounce, heard, finishing, said, ended, reports, pipeline>>

-----------------------------------------------------------------------------
(* Transcription frames.                                                   *)

\* Mutation: a final is buffered whatever the state.
BufferReply_AnyState ==
  /\ pipeline = "running"
  /\ heard < MaxFinals
  /\ heard' = heard + 1
  /\ debounce' = {"latest"}
  /\ UNCHANGED <<script, start, joined, guard, finishing, pipeline>>

\* Mutation: the sleeping debounce task is not cancelled.
BufferReply_NoCancel ==
  /\ pipeline = "running"
  /\ state = "waiting_for_reply"
  /\ heard < MaxFinals
  /\ heard' = heard + 1
  /\ debounce' = {"latest"} \cup {"outdated" : d \in debounce}
  /\ UNCHANGED <<script, start, joined, guard, finishing, pipeline>>

\* A final transcription: buffered, and the debounce starts over.  The ones
\* that come when nobody waits for a reply, and the empty ones, are dropped.
BufferReply ==
  /\ pipeline = "running"
  /\ state = "waiting_for_reply"
  /\ heard < MaxFinals
  /\ heard' = heard + 1
  /\ debounce' = {"latest"}
  /\ UNCHANGED <<script, start, joined, guard, finishing, pipeline>>

\* An interim transcription: the debounce, if one is asleep, starts over.
PingDebounce ==
  /\ pipeline = "running"
  /\ state = "waiting_for_reply"
  /\ debounce # {}
  /\ debounce' = {"latest"}
  /\ UNCHANGED <<script, start, joined, guard, heard, finishing, pipeline>>

-----------------------------------------------------------------------------
(* The end of the reply.                                                   *)

\* The first statements of _on_reply_complete, in task c, for n finals.
OnReplyComplete(c, n) ==
  /\ state' = "generating_ack"
  /\ closing' = [closing EXCEPT ![c] = "generating_ack"]
  /\ reply' = [reply EXCEPT ![c] = n]

\* The pause is over for a sleeping debounce task.
FinaliseReply(d) ==
  /\ d \in debounce
  /\ debounce' = debounce \ {d}
  /\ IF state = "waiting_for_reply" /\ heard > 0
       THEN OnReplyComplete("debounce", heard)
       ELSE UNCHANGED <<state, finishing>>
  /\ UNCHANGED <<start, joined, guard, heard, said, ended, reports, pipeline>>

\* Mutation: the guard does not look at the state.
ReplyTimeout_AnyState ==
  /\ guard = "sleeping"
  /\ guard' = "done"
  /\ OnReplyComplete("guard", 0)
  /\ UNCHANGED <<start, joined, debounce, heard, said, ended, reports, pipeline>>

\* Mutation: the guard leaves a reply that has begun to the debounce.
ReplyTimeout_OnlySilence ==
  /\ guard = "sleeping"
  /\ guard' = "done"
  /\ IF state = "waiting_for_reply" /\ heard = 0
       THEN OnReplyComplete("guard", 0)
       ELSE UNCHANGED <<state, finishing>>
  /\ UNCHANGED <<start, joined, debounce, heard, said, ended, reports, pipeline>>

\* The guard gives up on the reply, whatever is in the buffer.
ReplyTimeout ==
  /\ guard = "sleeping"
  /\ guard' = "done"
  /\ IF state = "waiting_for_reply" THEN OnReplyComplete("guard", 0)
                                    ELSE UNCHANGED <<state, finishing>>
  /\ UNCHANGED <<start, joined, debounce, heard, said, ended, reports, pipeline>>

\* _generate_ack has returned.  Without a reply or a provider, and when the
\* provider times out, fails or answers nothing, it is the fallback.
SpeakAck(c) ==
  /\ closing[c] = "generating_ack"
  /\ closing' = [closing EXCEPT ![c] = "speaking_ack"]
  /\ state' = "speaking_ack"
  /\ \/ said' = Append(said, "fallback_ack")
     \/ reply[c] > 0 /\ said' = Append(said, "ack")
  /\ UNCHANGED <<start, joined, listening, reply, ended, reports, pipeline>>

SpeakGoodbye(c) ==
  /\ closing[c] = "speaking_ack"
  /\ closing' = [closing EXCEPT ![c] = "speaking_goodbye"]
  /\ state' = "speaking_goodbye"
  /\ said' = Append(said, "goodbye")
  /\ UNCHANGED <<start, joined, listening, reply, ended, reports, pipeline>>

\* The sleep that lets the audio be heard begins.
SleepForSpeech(c) ==
  /\ closing[c] = "speaking_goodbye"
  /\ closing' = [closing EXCEPT ![c] = "ending"]
  /\ state' = "ending"
  /\ UNCHANGED <<start, joined, listening, reply, said, ended, reports, pipeline>>

\* _end, up to the EndFrame.
End(c) ==
  /\ closing[c] = "ending"
  /\ IF ended
       THEN /\ closing' = [closing EXCEPT ![c] = "done"]
            /\ UNCHANGED <<ended, said>>
       ELSE /\ closing' = [closing EXCEPT ![c] = "reporting"]
            /\ ended' = TRUE
            /\ said' = Append(said, "end")
  /\ UNCHANGED <<state, start, joined, listening, reply, reports, pipeline>>

\* on_call_ended: the bot reports its own hang-up.
ReportEnd(c) ==
  /\ closing[c] = "reporting"
  /\ closing' = [closing EXCEPT ![c] = "done"]
  /\ reports' = reports + 1
  /\ UNCHANGED <<state, start, joined, listening, reply, said, ended, pipeline>>

Closing(c) == SpeakAck(c) \/ SpeakGoodbye(c) \/ SleepForSpeech(c) \/ End(c) \/ ReportEnd(c)

\* The call is over for another reason (or because of the EndFrame): frames no
\* longer come, and a StartFrame that is still being handled is abandoned.
PipelineOver ==
  /\ pipeline = "running"
  /\ pipeline' = "over"
  /\ start' = IF start = "done" THEN "done" ELSE "cancelled"
  /\ UNCHANGED <<script, joined, listening, finishing>>

Next ==
  \/ StartFrame \/ ParticipantJoined \/ ParticipantReady \/ Greet \/ Listen
  \/ BufferReply \/ PingDebounce
  \/ \E d \in {"latest", "outdated"} : FinaliseReply(d)
  \/ ReplyTimeout
  \/ \E c \in Closers : Closing(c)
  \/ PipelineOver

\* The event loop runs what is ready, and the guard's sleep is never restarted.
\* The debounce is not fair: speech may put it off for ever.
Fairness ==
  /\ WF_vars(StartFrame) /\ WF_vars(ParticipantReady) /\ WF_vars(Greet) /\ WF_vars(Listen)
  /\ WF_vars(ReplyTimeout)
  /\ \A c \in Closers : WF_vars(Closing(c))

Spec == Init /\ [][Next]_vars /\ Fairness

-----------------------------------------------------------------------------
(* Properties.                                                             *)

\* Whichever of the two timers ends the reply, and however late the other one
\* fires, the candidate hears the script once, in order: no second
\* acknowledgement, nothing after the end.
SaysTheScript == said \in Sayings

\* The acknowledgement of a reply is for everything that was heard: nothing is
\* added to the buffer once it has been read.
ReplyIsWhole == \A c \in Closers : reply[c] > 0 => reply[c] = heard

\* The candidate is not cut short: the debounce that ends the reply began to
\* sleep after the last sign of speech.
PauseRespected ==
  [][closing["debounce"] = "none" /\ closing'["debounce"] # "none"
        => "latest" \notin debounce']_vars

\* In a room that starts empty the bot speaks, and so hangs up, only once the
\* candidate is there: what CallLifecycle assumes of a browser call.
SpeaksToSomebody == WaitForParticipant /\ (said # <<>> \/ reports > 0) => joined

\* A bot that listens hangs up in the end: silence, endless speech, a dead
\* language model or a pipeline that is over do not keep it from it.
HangsUp == state = "waiting_for_reply" ~> reports > 0
=============================================================================
