---------------------------- MODULE WhisperStream ----------------------------
(***************************************************************************)
(* The speech recognition client of adapters/stt/whisper_stt_service.py: a *)
(* frame processor that keeps one WebSocket to a WhisperLive server, sends *)
(* it the audio of the call and pushes the server's completed segments     *)
(* downstream as final transcriptions.                                     *)
(*                                                                         *)
(* The server repeats its last completed segments in every message, and    *)
(* the client skips as many as it has pushed before (_completed_count).    *)
(* The count, the socket and the ready flag belong to the processor, and   *)
(* every connection has a receive task of its own: when the socket is lost *)
(* on the sending side, the next audio frame connects again while the old  *)
(* task still reads what the old connection had buffered.                  *)
(*                                                                         *)
(* Abstracted: audio (a frame is sent or dropped and changes nothing       *)
(* else), interim transcriptions, the texts (a segment is its number), the *)
(* clock (a wait may end by its timeout at any time).  The processor       *)
(* handles one frame at a time.  The server is external: it answers in     *)
(* order and may close a connection at any time.                           *)
(***************************************************************************)
EXTENDS Integers, Sequences

CONSTANTS
  Window,          \* send_last_n_segments of the handshake
  MaxConnections,  \* bound: connections opened
  MaxSegments      \* bound: segments completed per connection

ASSUME WindowAssumption == Window \in Nat \ {0}
ASSUME MaxConnectionsAssumption == MaxConnections \in Nat \ {0}
ASSUME MaxSegmentsAssumption == MaxSegments \in Nat

Connections == 1..MaxConnections

VARIABLES
  proc,        \* what process_frame is doing
  opened,      \* connections opened so far: _recv_task is the task of the last
  ws,          \* _ws: the connection audio is sent to, or 0
  ready,       \* _server_ready
  count,       \* _completed_count
  task,        \* _receive_loop, by connection
  batch,       \* the slice of a message that a task is pushing
  out,         \* the finals pushed downstream, by connection
  hello,       \* SERVER_READY, by connection
  sent,        \* messages: segments completed when each was sent
  rd,          \* messages read
  closed,      \* the server has closed the connection
  overlapped   \* history: a connection was opened while an older task was alive

client == <<proc, opened, ws, ready, count>>
tasks == <<task, batch, out, rd>>
server == <<hello, sent, closed>>
vars == <<client, tasks, server, overlapped>>

NoBatch == [next |-> 0, upto |-> 0, size |-> 0]
Alive(c) == task[c] \in {"starting", "reading", "pushing"}

\* Segments completed on connection c, as far as the server has said.
Heard(c) == IF sent[c] = <<>> THEN 0 ELSE sent[c][Len(sent[c])]

TypeOK ==
  /\ proc \in {"new", "opening", "awaiting", "running", "stopping", "ended"}
  /\ opened \in 0..MaxConnections
  /\ ws \in 0..MaxConnections
  /\ ready \in BOOLEAN
  /\ count \in Nat
  /\ task \in [Connections -> {"none", "starting", "reading", "pushing", "done"}]
  /\ batch \in [Connections -> [next : Nat, upto : Nat, size : Nat]]
  /\ out \in [Connections -> Seq(Nat)]
  /\ hello \in [Connections -> {"none", "sent", "read"}]
  /\ sent \in [Connections -> Seq(1..MaxSegments)]
  /\ rd \in [Connections -> Nat]
  /\ closed \in [Connections -> BOOLEAN]
  /\ overlapped \in BOOLEAN

Init ==
  /\ proc = "new"
  /\ opened = 0
  /\ ws = 0
  /\ ready = FALSE
  /\ count = 0
  /\ task = [c \in Connections |-> "none"]
  /\ batch = [c \in Connections |-> NoBatch]
  /\ out = [c \in Connections |-> <<>>]
  /\ hello = [c \in Connections |-> "none"]
  /\ sent = [c \in Connections |-> <<>>]
  /\ rd = [c \in Connections |-> 0]
  /\ closed = [c \in Connections |-> FALSE]
  /\ overlapped = FALSE

-----------------------------------------------------------------------------
(* The processor: process_frame, _connect and _disconnect. *)

\* Mutant: the count is kept from one connection to the next.
ConnectStarts_KeepCount ==
  /\ \/ proc = "new"
     \/ proc = "running" /\ ws = 0
  /\ opened < MaxConnections
  /\ proc' = "opening"
  /\ ready' = FALSE
  /\ overlapped' = (overlapped \/ \E c \in Connections : Alive(c))
  /\ UNCHANGED <<opened, ws, count, tasks, server>>

\* _connect, up to the await of websockets.connect: for the StartFrame, and
\* for an audio frame that finds no socket once the cooldown has elapsed.
ConnectStarts ==
  /\ \/ proc = "new"
     \/ proc = "running" /\ ws = 0
  /\ opened < MaxConnections
  /\ proc' = "opening"
  /\ ready' = FALSE
  /\ count' = 0
  /\ overlapped' = (overlapped \/ \E c \in Connections : Alive(c))
  /\ UNCHANGED <<opened, ws, tasks, server>>

\* The connection is open: its task is created and the handshake is sent.
ConnectOpens ==
  /\ proc = "opening"
  /\ proc' = "awaiting"
  /\ opened' = opened + 1
  /\ ws' = opened + 1
  /\ task' = [task EXCEPT ![opened + 1] = "starting"]
  /\ UNCHANGED <<ready, count, batch, out, rd, server, overlapped>>

\* connect or the send of the handshake raises.
ConnectFails ==
  /\ \/ proc = "opening"
     \/ proc = "awaiting" /\ closed[opened] /\ hello[opened] = "none"
  /\ proc' = "running"
  /\ ws' = 0
  /\ UNCHANGED <<opened, ready, count, tasks, server, overlapped>>

\* The wait for SERVER_READY ends, answered or after 15 s ("proceeding anyway").
ConnectReturns ==
  /\ proc = "awaiting"
  /\ task[opened] # "starting"
  /\ proc' = "running"
  /\ UNCHANGED <<opened, ws, ready, count, tasks, server, overlapped>>

\* The send of an audio frame raises.
SendFails ==
  /\ proc = "running"
  /\ ws # 0
  /\ ready
  /\ closed[ws]
  /\ ws' = 0
  /\ UNCHANGED <<proc, opened, ready, count, tasks, server, overlapped>>

\* EndFrame or CancelFrame: _disconnect sends END_OF_AUDIO and waits for the
\* task of the last connection.
Disconnect ==
  /\ proc = "running"
  /\ proc' = "stopping"
  /\ UNCHANGED <<opened, ws, ready, count, tasks, server, overlapped>>

\* Mutant: the wait for the task times out and the task is left running.
Disconnected_NoCancel ==
  /\ proc = "stopping"
  /\ proc' = "ended"
  /\ ws' = 0
  /\ UNCHANGED <<opened, ready, count, tasks, server, overlapped>>

\* The task is done, or is cancelled after 10 s; then the socket is closed and
\* the frame goes on downstream.
Disconnected ==
  /\ proc = "stopping"
  /\ proc' = "ended"
  /\ ws' = 0
  /\ task' = IF opened > 0 THEN [task EXCEPT ![opened] = "done"] ELSE task
  /\ UNCHANGED <<opened, ready, count, batch, out, rd, server, overlapped>>

-----------------------------------------------------------------------------
(* The receive task of connection c. *)

\* The task begins: with the socket gone, "async for raw in None" raises.
RecvStarts(c) ==
  /\ task[c] = "starting"
  /\ task' = [task EXCEPT ![c] = IF ws = c THEN "reading" ELSE "done"]
  /\ ws' = IF ws = c THEN ws ELSE 0
  /\ UNCHANGED <<proc, opened, ready, count, batch, out, rd, server, overlapped>>

ReadReady(c) ==
  /\ task[c] = "reading"
  /\ hello[c] = "sent"
  /\ hello' = [hello EXCEPT ![c] = "read"]
  /\ ready' = TRUE
  /\ UNCHANGED <<proc, opened, ws, count, tasks, sent, closed, overlapped>>

\* The completed segments of a message sent after n: the last Window of 1..n.
Skipped(n) == IF n > Window THEN n - Window ELSE 0

\* completed[self._completed_count:] is taken when the message is read.
ReadMessage(c) ==
  /\ task[c] = "reading"
  /\ hello[c] = "read"
  /\ rd[c] < Len(sent[c])
  /\ LET n == sent[c][rd[c] + 1]
         skipped == Skipped(n)
     IN  batch' = [batch EXCEPT ![c] = [next |-> skipped + count + 1,
                                        upto |-> n,
                                        size |-> n - skipped]]
  /\ rd' = [rd EXCEPT ![c] = @ + 1]
  /\ task' = [task EXCEPT ![c] = "pushing"]
  /\ UNCHANGED <<client, out, server, overlapped>>

PushFinal(c) ==
  /\ task[c] = "pushing"
  /\ batch[c].next <= batch[c].upto
  /\ out' = [out EXCEPT ![c] = Append(@, batch[c].next)]
  /\ batch' = [batch EXCEPT ![c].next = @ + 1]
  /\ UNCHANGED <<client, task, rd, server, overlapped>>

\* self._completed_count = len(completed), after the last push.
MessageDone(c) ==
  /\ task[c] = "pushing"
  /\ batch[c].next > batch[c].upto
  /\ count' = batch[c].size
  /\ task' = [task EXCEPT ![c] = "reading"]
  /\ UNCHANGED <<proc, opened, ws, ready, batch, out, rd, server, overlapped>>

\* Mutant: the loop ends at the close, with messages still buffered.
RecvEnds_Early(c) ==
  /\ task[c] = "reading"
  /\ closed[c]
  /\ task' = [task EXCEPT ![c] = "done"]
  /\ ws' = 0
  /\ UNCHANGED <<proc, opened, ready, count, batch, out, rd, server, overlapped>>

\* The connection is closed and read to its end: _ws is given up, whichever
\* connection it is by now.
RecvEnds(c) ==
  /\ task[c] = "reading"
  /\ closed[c]
  /\ hello[c] # "sent"
  /\ rd[c] = Len(sent[c])
  /\ task' = [task EXCEPT ![c] = "done"]
  /\ ws' = 0
  /\ UNCHANGED <<proc, opened, ready, count, batch, out, rd, server, overlapped>>

-----------------------------------------------------------------------------
(* The server. *)

SaysReady(c) ==
  /\ c <= opened
  /\ ~closed[c]
  /\ hello[c] = "none"
  /\ hello' = [hello EXCEPT ![c] = "sent"]
  /\ UNCHANGED <<client, tasks, sent, closed, overlapped>>

\* A message after one or more further segments.
Transcribes(c) ==
  /\ hello[c] # "none"
  /\ ~closed[c]
  /\ \E n \in (Heard(c) + 1)..MaxSegments :
       sent' = [sent EXCEPT ![c] = Append(@, n)]
  /\ UNCHANGED <<client, tasks, hello, closed, overlapped>>

Closes(c) ==
  /\ c <= opened
  /\ ~closed[c]
  /\ closed' = [closed EXCEPT ![c] = TRUE]
  /\ UNCHANGED <<client, tasks, hello, sent, overlapped>>

Processor ==
  \/ ConnectStarts \/ ConnectOpens \/ ConnectFails \/ ConnectReturns
  \/ SendFails \/ Disconnect \/ Disconnected

Receiver(c) ==
  \/ RecvStarts(c) \/ ReadReady(c) \/ ReadMessage(c)
  \/ PushFinal(c) \/ MessageDone(c) \/ RecvEnds(c)

Server(c) == SaysReady(c) \/ Transcribes(c) \/ Closes(c)

Next == Processor \/ \E c \in Connections : Receiver(c) \/ Server(c)

\* The event loop runs every task that can go on.
Spec ==
  /\ Init /\ [][Next]_vars
  /\ \A c \in Connections : WF_vars(Receiver(c))

-----------------------------------------------------------------------------
(* Properties. *)

\* While the server's window holds every segment of connection c and no two
\* receive tasks have shared the count.
Undisturbed(c) == ~overlapped /\ Heard(c) <= Window

\* What has been pushed of a connection is its segments from the first on, in
\* order, each once: the arithmetic of _completed_count against the
\* cumulative messages, over reconnections.
FinalsArePrefix ==
  \A c \in Connections :
    Undisturbed(c) => \A i \in 1..Len(out[c]) : out[c][i] = i

\* Every segment the server has completed is pushed, unless the call ends
\* first: also those still buffered when the server closes the connection.
FinalsAreDelivered ==
  \A c \in Connections : \A n \in 1..MaxSegments :
    (Heard(c) >= n) ~> (Len(out[c]) >= n \/ ~Undisturbed(c) \/ proc = "ended")

\* Once the end of the call has gone downstream no transcription follows it,
\* which the pipeline behind the processor would get after its end.
NoFinalAfterEnd == [][proc = "ended" /\ ~overlapped => out' = out]_vars
=============================================================================
