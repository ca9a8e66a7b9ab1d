------------------------- MODULE WhisperStreamProofs -------------------------
(***************************************************************************)
(* Theorems about the speech recognition client, for every window, every   *)
(* number of connections and every number of segments.                     *)
(*                                                                         *)
(* The argument.  As long as no two receive tasks have been alive at once, *)
(* only the task of the last connection can be (OnlyLast), so the count is *)
(* its own.  Messages only grow (Cumulative), and a window that holds      *)
(* every segment skips none; then the count is, between two messages, what *)
(* the last message read said and what has been pushed (Counted).          *)
(* ReceiverCounted is the step where this matters: the slice of a message  *)
(* begins right after the last final that was pushed.                      *)
(*                                                                         *)
(* Order is half of it.  That nothing is missing (NothingLost) needs that  *)
(* a task keeps its socket until it has read what the server has sent,     *)
(* which LosslessInv adds.                                                 *)
(***************************************************************************)
EXTENDS WhisperStream, TLAPS

OnlyLast ==
  ~overlapped =>
    \A c \in Connections :
      Alive(c) => c = opened /\ proc \in {"awaiting", "running", "stopping"}

Unopened ==
  \A c \in Connections :
    c > opened => task[c] = "none" /\ out[c] = <<>> /\ sent[c] = <<>> /\ rd[c] = 0
                  /\ hello[c] = "none"

Cumulative ==
  \A c \in Connections :
    /\ rd[c] <= Len(sent[c])
    /\ \A i, j \in 1..Len(sent[c]) : i <= j => sent[c][i] <= sent[c][j]

\* What the last message that has been read said.
Read(c) == IF rd[c] = 0 THEN 0 ELSE sent[c][rd[c]]

Counted ==
  \A c \in Connections :
    Undisturbed(c) /\ Alive(c) =>
      /\ task[c] = "starting" => rd[c] = 0
      /\ task[c] # "pushing" => count = Read(c) /\ Len(out[c]) = count
      /\ task[c] = "pushing" => /\ rd[c] > 0
                                /\ batch[c].upto = Read(c)
                                /\ batch[c].size = Read(c)
                                /\ batch[c].next = Len(out[c]) + 1
                                /\ batch[c].next <= Read(c) + 1

\* _connect has reset the count, and nobody else counts until it is open.
Fresh == proc = "opening" /\ ~overlapped => count = 0

\* The connections that _connect may still open, and the one it has opened.
Opening ==
  /\ proc = "opening" => opened < MaxConnections
  /\ proc = "awaiting" => opened > 0

IInv ==
  /\ TypeOK /\ Opening /\ OnlyLast /\ Unopened /\ Cumulative /\ Fresh /\ Counted
  /\ FinalsArePrefix

-----------------------------------------------------------------------------

USE WindowAssumption, MaxConnectionsAssumption, MaxSegmentsAssumption

LEMMA InitIInv == Init => IInv
<1> SUFFICES ASSUME Init PROVE IInv
  OBVIOUS
<1>1. TypeOK /\ Opening
  <2>1. NoBatch \in [next : Nat, upto : Nat, size : Nat]
    BY DEF NoBatch
  <2>2. 0 \in 0..MaxConnections /\ <<>> \in Seq(Nat) /\ <<>> \in Seq(1..MaxSegments)
    OBVIOUS
  <2>3. QED BY <2>1, <2>2 DEF Init, TypeOK, Opening
<1>2. OnlyLast /\ Unopened
  BY DEF Init, OnlyLast, Unopened, Alive
<1>3. Cumulative /\ Fresh
  BY DEF Init, Cumulative, Fresh
<1>4. Counted
  BY DEF Init, Counted, Alive
<1>5. FinalsArePrefix
  BY DEF Init, FinalsArePrefix
<1>6. QED BY <1>1, <1>2, <1>3, <1>4, <1>5 DEF IInv

\* What the server has said of a connection, and what a message has left out.
LEMMA HeardNat ==
  ASSUME TypeOK, NEW c \in Connections PROVE Heard(c) \in Nat
BY DEF TypeOK, Heard

\* The variables keep their types.
LEMMA TypeStep == ASSUME TypeOK, Opening, [Next]_vars PROVE TypeOK' /\ Opening'
<1> USE DEF TypeOK, Opening
<1>1. CASE Processor
  <2>1. CASE ConnectStarts
    BY <2>1 DEF ConnectStarts, tasks, server
  <2>2. CASE ConnectOpens
    <3>1. opened + 1 \in Connections
      BY <2>2 DEF ConnectOpens, Connections
    <3>2. QED BY <2>2, <3>1 DEF ConnectOpens, server, Connections
  <2>3. CASE ConnectFails
    BY <2>3 DEF ConnectFails, tasks, server
  <2>4. CASE ConnectReturns
    BY <2>4 DEF ConnectReturns, tasks, server
  <2>5. CASE SendFails
    BY <2>5 DEF SendFails, tasks, server
  <2>6. CASE Disconnect
    BY <2>6 DEF Disconnect, tasks, server
  <2>7. CASE Disconnected
    <3>1. opened > 0 => opened \in Connections
      BY DEF Connections
    <3>2. task' \in [Connections -> {"none", "starting", "reading", "pushing", "done"}]
      BY <2>7, <3>1 DEF Disconnected
    <3>3. ws' = 0 /\ proc' = "ended" /\ 0 \in 0..MaxConnections
      BY <2>7 DEF Disconnected
    <3>4. QED BY <2>7, <3>2, <3>3 DEF Disconnected, server
  <2>8. QED BY <1>1, <2>1, <2>2, <2>3, <2>4, <2>5, <2>6, <2>7 DEF Processor
<1>2. ASSUME NEW c \in Connections, Receiver(c) PROVE TypeOK' /\ Opening'
  <2>1. CASE RecvStarts(c)
    BY <2>1 DEF RecvStarts, server
  <2>2. CASE ReadReady(c)
    BY <2>2 DEF ReadReady, tasks
  <2>3. CASE ReadMessage(c)
    <3> DEFINE n == sent[c][rd[c] + 1]
    <3>1. n \in Nat
      <4>1. sent[c] \in Seq(1..MaxSegments) /\ rd[c] + 1 \in 1..Len(sent[c])
        BY <2>3 DEF ReadMessage
      <4>2. QED BY <4>1
    <3>2. Skipped(n) \in Nat /\ n - Skipped(n) \in Nat
      BY <3>1 DEF Skipped
    <3>3. batch' = [batch EXCEPT ![c] = [next |-> Skipped(n) + count + 1,
                                         upto |-> n, size |-> n - Skipped(n)]]
      BY <2>3 DEF ReadMessage
    <3> HIDE DEF n
    <3>4. batch' \in [Connections -> [next : Nat, upto : Nat, size : Nat]]
      BY <3>1, <3>2, <3>3
    <3>5. QED BY <2>3, <3>4 DEF ReadMessage, client, server
  <2>4. CASE PushFinal(c)
    <3>1. batch[c] \in [next : Nat, upto : Nat, size : Nat]
      OBVIOUS
    <3>2. out' = [out EXCEPT ![c] = Append(@, batch[c].next)]
      BY <2>4 DEF PushFinal
    <3>3. Append(out[c], batch[c].next) \in Seq(Nat)
      BY <3>1
    <3>4. out' \in [Connections -> Seq(Nat)]
      BY <3>2, <3>3
    <3> DEFINE b == batch[c]
    <3>5. batch' = [batch EXCEPT ![c] = [b EXCEPT !.next = @ + 1]]
      BY <2>4 DEF PushFinal
    <3>9. b \in [next : Nat, upto : Nat, size : Nat]
      BY <3>1
    <3> HIDE DEF b
    <3>6. [b EXCEPT !.next = @ + 1] \in [next : Nat, upto : Nat, size : Nat]
      <4>1. b.next + 1 \in Nat
        BY <3>9
      <4>2. QED BY <3>9, <4>1
    <3>7. batch' \in [Connections -> [next : Nat, upto : Nat, size : Nat]]
      BY <3>5, <3>6
    <3>8. QED BY <2>4, <3>4, <3>7 DEF PushFinal, client, server
  <2>5. CASE MessageDone(c)
    BY <2>5 DEF MessageDone, server
  <2>6. CASE RecvEnds(c)
    BY <2>6 DEF RecvEnds, server
  <2>7. QED BY <1>2, <2>1, <2>2, <2>3, <2>4, <2>5, <2>6 DEF Receiver
<1>3. ASSUME NEW c \in Connections, Server(c) PROVE TypeOK' /\ Opening'
  <2>1. CASE SaysReady(c)
    BY <2>1 DEF SaysReady, client, tasks
  <2>2. CASE Transcribes(c)
    <3>1. PICK n \in (Heard(c) + 1)..MaxSegments : sent' = [sent EXCEPT ![c] = Append(@, n)]
      BY <2>2 DEF Transcribes
    <3>2. n \in 1..MaxSegments
      <4>1. Heard(c) \in Nat
        BY HeardNat
      <4>2. QED BY <4>1, MaxSegmentsAssumption
    <3>3. Append(sent[c], n) \in Seq(1..MaxSegments)
      BY <3>2
    <3>4. sent' \in [Connections -> Seq(1..MaxSegments)]
      BY <3>1, <3>3
    <3>5. QED BY <2>2, <3>4 DEF Transcribes, client, tasks
  <2>3. CASE Closes(c)
    BY <2>3 DEF Closes, client, tasks
  <2>4. QED BY <1>3, <2>1, <2>2, <2>3 DEF Server
<1>4. CASE UNCHANGED vars
  BY <1>4 DEF vars, client, tasks, server
<1>5. QED BY <1>1, <1>2, <1>3, <1>4 DEF Next

\* Type correctness.
THEOREM TypeCorrect == Spec => []TypeOK
<1>1. Init => TypeOK /\ Opening
  BY InitIInv DEF IInv
<1>2. TypeOK /\ Opening /\ [Next]_vars => TypeOK' /\ Opening'
  BY TypeStep
<1>3. QED BY <1>1, <1>2, PTL DEF Spec

\* Only the last connection has a live task, and connections not yet opened
\* are blank.
LEMMA OnlyLastStep ==
  ASSUME TypeOK, Opening, OnlyLast, Unopened, [Next]_vars
  PROVE  OnlyLast' /\ Unopened'
<1> USE DEF OnlyLast, Unopened, Alive
<1>1. CASE ConnectOpens
  <2>1. opened + 1 \in Connections /\ opened \in Nat
    BY <1>1 DEF ConnectOpens, Connections, Opening, TypeOK
  <2>2. \A c \in Connections : c \in Nat
    BY DEF Connections
  <2>3. task' = [task EXCEPT ![opened + 1] = "starting"]
    BY <1>1 DEF ConnectOpens
  <2>4. \A c \in Connections : c # opened + 1 => task'[c] = task[c]
    BY <2>3 DEF TypeOK
  <2>5. OnlyLast'
    BY <1>1, <2>1, <2>4 DEF ConnectOpens
  <2>6. ASSUME NEW c \in Connections, c > opened + 1 PROVE c > opened /\ c # opened + 1
    BY <2>1, <2>2, <2>6
  <2>7. Unopened'
    BY <1>1, <2>4, <2>6 DEF ConnectOpens, server
  <2>8. QED BY <2>5, <2>7
<1>2. CASE ConnectStarts \/ ConnectFails \/ ConnectReturns \/ SendFails \/ Disconnect
  BY <1>2 DEF ConnectStarts, ConnectFails, ConnectReturns, SendFails, Disconnect,
              tasks, server
<1>3. CASE Disconnected
  <2>1. opened > 0 => opened \in Connections
    BY DEF Connections, TypeOK
  <2>2. \A c \in Connections : c \in Nat /\ c > 0
    BY DEF Connections
  <2>3. \A c \in Connections : task'[c] = task[c] \/ (task'[c] = "done" /\ c = opened)
    BY <1>3, <2>1 DEF Disconnected, TypeOK
  <2>4. \A c \in Connections : ~overlapped => ~Alive(c)'
    BY <1>3, <2>1, <2>2 DEF Disconnected, TypeOK
  <2>5. QED BY <1>3, <2>2, <2>3, <2>4 DEF Disconnected, server, TypeOK
<1>4. ASSUME NEW c \in Connections, Receiver(c) PROVE OnlyLast' /\ Unopened'
  <2>1. Alive(c)
    BY <1>4 DEF Receiver, RecvStarts, ReadReady, ReadMessage, PushFinal, MessageDone,
                RecvEnds
  <2>2. /\ UNCHANGED <<proc, opened, sent, overlapped>>
        /\ \A d \in Connections \ {c} :
             task'[d] = task[d] /\ out'[d] = out[d] /\ rd'[d] = rd[d] /\ hello'[d] = hello[d]
    BY <1>4 DEF Receiver, RecvStarts, ReadReady, ReadMessage, PushFinal, MessageDone,
                RecvEnds, TypeOK, tasks, client, server
  <2>3. ~(c > opened)
    BY <2>1
  <2>4. QED BY <2>1, <2>2, <2>3
<1>5. ASSUME NEW c \in Connections, Server(c) PROVE OnlyLast' /\ Unopened'
  <2>1. CASE SaysReady(c)
    <3>1. c \in Nat /\ opened \in Nat
      BY DEF Connections, TypeOK
    <3>2. c > opened => FALSE
      BY <2>1, <3>1 DEF SaysReady
    <3>3. \A d \in Connections \ {c} : hello'[d] = hello[d]
      BY <2>1 DEF SaysReady, TypeOK
    <3>4. UNCHANGED <<proc, opened, task, out, sent, rd, overlapped>>
      BY <2>1 DEF SaysReady, tasks, client
    <3>5. QED BY <3>2, <3>3, <3>4
  <2>2. CASE Transcribes(c)
    BY <2>2 DEF Transcribes, TypeOK, tasks, client
  <2>3. CASE Closes(c)
    BY <2>3 DEF Closes, tasks, client
  <2>4. QED BY <1>5, <2>1, <2>2, <2>3 DEF Server
<1>6. CASE UNCHANGED vars
  BY <1>6 DEF vars, tasks, client, server
<1>7. QED BY <1>1, <1>2, <1>3, <1>4, <1>5, <1>6 DEF Next, Processor

\* Messages are read in order and never shrink.
LEMMA CumulativeStep ==
  ASSUME TypeOK, Cumulative, [Next]_vars PROVE Cumulative'
<1> USE DEF Cumulative
<1>1. ASSUME NEW c \in Connections, ReadMessage(c) PROVE Cumulative'
  <2>1. sent' = sent /\ rd' = [rd EXCEPT ![c] = @ + 1] /\ rd[c] < Len(sent[c])
    BY <1>1 DEF ReadMessage, server
  <2>2. rd[c] \in Nat /\ Len(sent[c]) \in Nat
    BY DEF TypeOK
  <2>3. \A d \in Connections : rd'[d] = IF d = c THEN rd[c] + 1 ELSE rd[d]
    BY <2>1 DEF TypeOK
  <2>4. QED BY <2>1, <2>2, <2>3
<1>2. ASSUME NEW c \in Connections, Transcribes(c) PROVE Cumulative'
  <2>1. PICK n \in (Heard(c) + 1)..MaxSegments : sent' = [sent EXCEPT ![c] = Append(@, n)]
    BY <1>2 DEF Transcribes
  <2>2. rd' = rd
    BY <1>2 DEF Transcribes, tasks
  <2>3. n \in Nat /\ Heard(c) \in Nat /\ n > Heard(c)
    BY HeardNat
  <2> DEFINE s == sent[c]
  <2>4. s \in Seq(1..MaxSegments) /\ sent'[c] = Append(s, n)
    BY <2>1 DEF TypeOK
  <2>5. \A i \in 1..Len(s) : s[i] \in Nat /\ s[i] <= Heard(c)
    BY <2>4 DEF Heard
  <2>6. \A i, j \in 1..Len(s) : i <= j => s[i] <= s[j]
    OBVIOUS
  <2>7. rd[c] <= Len(s) /\ rd[c] \in Nat
    BY DEF TypeOK
  <2> HIDE DEF s, Cumulative
  <2>8. Len(Append(s, n)) = Len(s) + 1 /\ Len(s) \in Nat
    BY <2>3, <2>4
  <2>9. \A i, j \in 1..Len(Append(s, n)) : i <= j => Append(s, n)[i] <= Append(s, n)[j]
    BY <2>3, <2>4, <2>5, <2>6, <2>8
  <2>10. rd[c] <= Len(Append(s, n))
    BY <2>7, <2>8
  <2>11. \A d \in Connections \ {c} : sent'[d] = sent[d]
    BY <2>1 DEF TypeOK
  <2>12. QED BY <2>2, <2>4, <2>9, <2>10, <2>11 DEF Cumulative
<1>3. CASE UNCHANGED <<sent, rd>>
  BY <1>3
<1>4. Processor => UNCHANGED <<sent, rd>>
  BY DEF Processor, ConnectStarts, ConnectOpens, ConnectFails, ConnectReturns,
         SendFails, Disconnect, Disconnected, tasks, server
<1>5. ASSUME NEW c \in Connections, Receiver(c) PROVE ReadMessage(c) \/ UNCHANGED <<sent, rd>>
  BY <1>5 DEF Receiver, RecvStarts, ReadReady, PushFinal, MessageDone, RecvEnds,
              tasks, server
<1>6. ASSUME NEW c \in Connections, Server(c) PROVE Transcribes(c) \/ UNCHANGED <<sent, rd>>
  BY <1>6 DEF Server, SaysReady, Closes, tasks
<1>7. UNCHANGED vars => UNCHANGED <<sent, rd>>
  BY DEF vars, tasks, server
<1>8. QED BY <1>1, <1>2, <1>3, <1>4, <1>5, <1>6, <1>7 DEF Next

\* The steps of the processor leave the messages and the finals alone, and no
\* task counts on while a connection is being opened.
LEMMA ProcessorCounted ==
  ASSUME IInv, Processor PROVE Counted' /\ FinalsArePrefix' /\ Fresh'
<1> USE DEF IInv
<1>1. /\ UNCHANGED <<sent, rd, out, batch>>
      /\ overlapped' = FALSE => overlapped = FALSE
  BY DEF Processor, ConnectStarts, ConnectOpens, ConnectFails, ConnectReturns,
         SendFails, Disconnect, Disconnected, tasks, server, TypeOK
<1>2. FinalsArePrefix'
  BY <1>1 DEF FinalsArePrefix, Undisturbed, Heard, TypeOK
<1>3. CASE ConnectStarts
  <2>1. overlapped' = FALSE => \A c \in Connections : ~Alive(c)'
    BY <1>3 DEF ConnectStarts, Alive, tasks, TypeOK
  <2>2. Counted'
    BY <2>1, <1>1, <1>3 DEF Counted, Undisturbed, ConnectStarts, TypeOK
  <2>3. QED BY <1>2, <1>3, <2>2 DEF Fresh, ConnectStarts
<1>4. CASE ConnectOpens
  <2>1. opened + 1 \in Connections
    BY <1>4 DEF ConnectOpens, Connections, Opening, TypeOK
  <2>2. opened + 1 > opened
    BY DEF TypeOK
  <2>3. overlapped' = overlapped /\ count' = count
    BY <1>4 DEF ConnectOpens
  <2>4. \A c \in Connections : c # opened + 1 => task'[c] = task[c]
    BY <1>4, <2>1 DEF ConnectOpens, TypeOK
  <2>5. task'[opened + 1] = "starting"
    BY <1>4, <2>1 DEF ConnectOpens, TypeOK
  <2>6. overlapped = FALSE => count = 0 /\ \A c \in Connections : ~Alive(c)
    BY <1>4 DEF ConnectOpens, Fresh, OnlyLast
  <2>7. rd[opened + 1] = 0 /\ out[opened + 1] = <<>>
    BY <2>1, <2>2 DEF Unopened
  <2>8. Counted'
    BY <1>1, <2>1, <2>3, <2>4, <2>5, <2>6, <2>7 DEF Counted, Undisturbed, Alive, Read
  <2>9. QED BY <1>2, <1>4, <2>8 DEF Fresh, ConnectOpens
<1>5. CASE ConnectFails \/ ConnectReturns \/ SendFails \/ Disconnect
  <2>1. UNCHANGED <<task, count, overlapped>> /\ proc' # "opening"
    BY <1>5 DEF ConnectFails, ConnectReturns, SendFails, Disconnect, tasks, server
  <2>2. Counted'
    BY <1>1, <2>1 DEF Counted, Undisturbed, Heard, Alive, Read
  <2>3. QED BY <1>2, <2>1, <2>2 DEF Fresh
<1>6. CASE Disconnected
  <2>1. UNCHANGED <<count, overlapped>> /\ proc' # "opening"
    BY <1>6 DEF Disconnected
  <2>2. \A c \in Connections : task'[c] = task[c] \/ task'[c] = "done"
    BY <1>6 DEF Disconnected, TypeOK
  <2>3. Counted'
    BY <1>1, <2>1, <2>2 DEF Counted, Undisturbed, Heard, Alive, Read
  <2>4. QED BY <1>2, <2>1, <2>3 DEF Fresh
<1>7. QED BY <1>3, <1>4, <1>5, <1>6 DEF Processor

\* A step of a receive task keeps the count in line with what it has read.
LEMMA ReceiverCounted ==
  ASSUME IInv, NEW c \in Connections, Receiver(c)
  PROVE  Counted' /\ FinalsArePrefix' /\ Fresh'
<1> USE DEF IInv
<1>1. Alive(c)
  BY DEF Receiver, RecvStarts, ReadReady, ReadMessage, PushFinal, MessageDone,
         RecvEnds, Alive
<1>2. /\ UNCHANGED <<proc, opened, sent, overlapped>>
      /\ \A d \in Connections \ {c} :
           /\ task'[d] = task[d] /\ out'[d] = out[d]
           /\ rd'[d] = rd[d] /\ batch'[d] = batch[d]
  BY DEF Receiver, RecvStarts, ReadReady, ReadMessage, PushFinal, MessageDone,
         RecvEnds, TypeOK, tasks, client, server
<1>3. ~overlapped => proc # "opening" /\ \A d \in Connections \ {c} : ~Alive(d)
  BY <1>1 DEF OnlyLast
<1>4. Fresh'
  BY <1>2, <1>3 DEF Fresh
<1>5. SUFFICES ASSUME ~overlapped, Heard(c) <= Window
               PROVE  /\ \A i \in 1..Len(out'[c]) : out'[c][i] = i
                      /\ Alive(c)' =>
                           /\ task'[c] = "starting" => rd'[c] = 0
                           /\ task'[c] # "pushing" => /\ count' = Read(c)'
                                                     /\ Len(out'[c]) = count'
                           /\ task'[c] = "pushing" =>
                                /\ rd'[c] > 0
                                /\ batch'[c].upto = Read(c)'
                                /\ batch'[c].size = Read(c)'
                                /\ batch'[c].next = Len(out'[c]) + 1
                                /\ batch'[c].next <= Read(c)' + 1
  <2>1. \A d \in Connections : Undisturbed(d)' = Undisturbed(d)
    BY <1>2 DEF Undisturbed, Heard
  <2>2. \A d \in Connections \ {c} : ~overlapped => ~Alive(d)'
    BY <1>2, <1>3 DEF Alive
  <2>3. Counted'
    BY <1>2, <1>5, <2>1, <2>2 DEF Counted, Undisturbed
  <2>4. FinalsArePrefix'
    BY <1>2, <1>5, <2>1 DEF FinalsArePrefix, Undisturbed
  <2>5. QED BY <1>4, <2>3, <2>4
<1>6. Undisturbed(c) /\ \A i \in 1..Len(out[c]) : out[c][i] = i
  BY <1>5 DEF Undisturbed, FinalsArePrefix
<1>7. CASE RecvStarts(c) \/ ReadReady(c) \/ RecvEnds(c)
  <2>1. UNCHANGED <<count, out, rd, batch>>
    BY <1>7 DEF RecvStarts, ReadReady, RecvEnds, tasks, server
  <2>2. task[c] # "pushing" /\ task'[c] \in {"reading", "done"}
    BY <1>7 DEF RecvStarts, ReadReady, RecvEnds, tasks, TypeOK
  <2>3. QED BY <1>1, <1>2, <1>6, <2>1, <2>2 DEF Counted, Read, Alive
<1>8. CASE ReadMessage(c)
  <2> DEFINE n == sent[c][rd[c] + 1]
  <2>1. task[c] = "reading" /\ rd[c] \in Nat /\ rd[c] + 1 \in 1..Len(sent[c])
    BY <1>8 DEF ReadMessage, TypeOK
  <2>2. n <= Heard(c) /\ n \in Nat /\ Heard(c) \in Nat /\ Len(sent[c]) \in Nat
    <3>1. sent[c] \in Seq(1..MaxSegments)
      BY DEF TypeOK
    <3>2. \A i \in 1..Len(sent[c]) : sent[c][i] \in Nat
      BY <3>1
    <3>3. sent[c] # <<>> /\ Len(sent[c]) \in 1..Len(sent[c])
      BY <3>1, <2>1
    <3>4. n <= sent[c][Len(sent[c])]
      BY <2>1, <3>3 DEF Cumulative
    <3>5. QED BY <3>2, <3>3, <3>4, <2>1 DEF Heard
  <2>3. Skipped(n) = 0
    BY <1>5, <2>2, WindowAssumption DEF Skipped
  <2>4. /\ rd'[c] = rd[c] + 1 /\ out' = out /\ task'[c] = "pushing"
        /\ batch'[c] = [next |-> Skipped(n) + count + 1, upto |-> n, size |-> n - Skipped(n)]
    BY <1>8 DEF ReadMessage, TypeOK
  <2>5. Read(c)' = n
    BY <1>2, <2>1, <2>4 DEF Read
  <2>6. Read(c) <= n /\ count = Read(c) /\ Len(out[c]) = count /\ count \in Nat
    <3>1. count = Read(c) /\ Len(out[c]) = count /\ count \in Nat
      BY <1>1, <1>6, <2>1 DEF Counted, TypeOK
    <3>2. rd[c] > 0 => rd[c] \in 1..Len(sent[c]) /\ rd[c] <= rd[c] + 1
      BY <2>1, <2>2
    <3>3. rd[c] > 0 => sent[c][rd[c]] <= n
      BY <2>1, <3>2 DEF Cumulative
    <3>4. QED BY <2>1, <2>2, <3>1, <3>3 DEF Read
  <2> HIDE DEF n
  <2>7. QED BY <1>6, <2>1, <2>2, <2>3, <2>4, <2>5, <2>6
<1>9. CASE PushFinal(c)
  <2>1. /\ task[c] = "pushing" /\ task' = task /\ rd' = rd
        /\ out'[c] = Append(out[c], batch[c].next)
        /\ batch'[c] = [batch[c] EXCEPT !.next = @ + 1]
        /\ batch[c].next <= batch[c].upto
    BY <1>9 DEF PushFinal, TypeOK
  <2>2. out[c] \in Seq(Nat) /\ batch[c] \in [next : Nat, upto : Nat, size : Nat]
    BY DEF TypeOK
  <2>3. /\ rd[c] > 0 /\ batch[c].upto = Read(c) /\ batch[c].size = Read(c)
        /\ batch[c].next = Len(out[c]) + 1
    BY <1>1, <1>6, <2>1 DEF Counted
  <2>4. Read(c)' = Read(c)
    BY <1>2, <2>1 DEF Read
  <2>5. /\ batch'[c].next = batch[c].next + 1
        /\ batch'[c].upto = batch[c].upto
        /\ batch'[c].size = batch[c].size
    BY <2>1, <2>2
  <2>6. batch[c].next \in Nat /\ batch[c].upto \in Nat
    BY <2>2
  <2>7. /\ Len(out'[c]) = Len(out[c]) + 1
        /\ \A i \in 1..Len(out'[c]) :
             out'[c][i] = IF i = Len(out[c]) + 1 THEN batch[c].next ELSE out[c][i]
    BY <2>1, <2>2, <2>6
  <2>8. Len(out[c]) \in Nat
    BY <2>2
  <2>9. QED BY <1>6, <2>1, <2>3, <2>4, <2>5, <2>6, <2>7, <2>8
<1>10. CASE MessageDone(c)
  <2>1. /\ task[c] = "pushing" /\ task'[c] = "reading" /\ rd' = rd /\ out' = out
        /\ count' = batch[c].size /\ batch[c].next > batch[c].upto
    BY <1>10 DEF MessageDone, TypeOK
  <2>2. /\ batch[c].upto = Read(c) /\ batch[c].size = Read(c)
        /\ batch[c].next = Len(out[c]) + 1 /\ batch[c].next <= Read(c) + 1
    BY <1>1, <1>6, <2>1 DEF Counted
  <2>3. batch[c].upto \in Nat /\ batch[c].next \in Nat /\ Len(out[c]) \in Nat
    BY DEF TypeOK
  <2>4. Read(c)' = Read(c)
    BY <1>2, <2>1 DEF Read
  <2>5. QED BY <1>6, <2>1, <2>2, <2>3, <2>4
<1>11. QED BY <1>7, <1>8, <1>9, <1>10 DEF Receiver

\* The server only adds messages behind those read.
LEMMA ServerCounted ==
  ASSUME IInv, NEW c \in Connections, Server(c)
  PROVE  Counted' /\ FinalsArePrefix' /\ Fresh'
<1> USE DEF IInv
<1>1. UNCHANGED <<proc, count, task, batch, out, rd, overlapped>>
  BY DEF Server, SaysReady, Transcribes, Closes, client, tasks
<1>2. ASSUME NEW d \in Connections PROVE Heard(d) <= Heard(d)' /\ Read(d)' = Read(d)
  <2>0. Heard(d) \in Nat
    BY HeardNat
  <2>1. CASE sent'[d] = sent[d]
    BY <1>1, <2>0, <2>1 DEF Heard, Read
  <2>2. CASE Transcribes(c) /\ d = c
    <3>1. PICK n \in (Heard(c) + 1)..MaxSegments : sent' = [sent EXCEPT ![c] = Append(@, n)]
      BY <2>2 DEF Transcribes
    <3>2. sent[c] \in Seq(1..MaxSegments) /\ rd[c] \in Nat /\ rd[c] <= Len(sent[c])
      BY DEF TypeOK, Cumulative
    <3>3. sent'[c] = Append(sent[c], n)
      BY <3>1 DEF TypeOK
    <3>4. n \in 1..MaxSegments
      BY <2>0, <2>2, <3>1, MaxSegmentsAssumption
    <3>5. /\ Append(sent[c], n) # <<>>
          /\ Append(sent[c], n)[Len(Append(sent[c], n))] = n
          /\ \A i \in 1..Len(sent[c]) : Append(sent[c], n)[i] = sent[c][i]
      BY <3>2, <3>4
    <3>6. Heard(c)' = n
      BY <3>3, <3>5 DEF Heard
    <3>7. rd[c] # 0 => rd[c] \in 1..Len(sent[c])
      BY <3>2
    <3>8. QED BY <1>1, <2>0, <2>2, <3>1, <3>3, <3>5, <3>6, <3>7 DEF Read
  <2>3. Transcribes(c) /\ d # c => sent'[d] = sent[d]
    BY DEF Transcribes, TypeOK
  <2>4. SaysReady(c) \/ Closes(c) => sent'[d] = sent[d]
    BY DEF SaysReady, Closes
  <2>5. QED BY <2>1, <2>2, <2>3, <2>4 DEF Server
<1>3. \A d \in Connections : Heard(d) \in Nat /\ Heard(d)' \in Nat
  <2>1. TypeOK'
    BY TypeStep DEF Next
  <2>2. \A d \in Connections : sent'[d] \in Seq(1..MaxSegments)
    BY <2>1 DEF TypeOK
  <2>3. \A d \in Connections : Heard(d)' \in Nat
    BY <2>2, MaxSegmentsAssumption DEF Heard
  <2>4. QED BY <2>3, HeardNat
<1>4. \A d \in Connections : Undisturbed(d)' => Undisturbed(d)
  BY <1>1, <1>2, <1>3, WindowAssumption DEF Undisturbed
<1>5. FinalsArePrefix'
  BY <1>1, <1>4 DEF FinalsArePrefix
<1>6. Counted'
  BY <1>1, <1>2, <1>4 DEF Counted, Alive
<1>7. QED BY <1>1, <1>5, <1>6 DEF Fresh

LEMMA IInvStep == ASSUME IInv, [Next]_vars PROVE IInv'
<1>1. TypeOK' /\ Opening'
  BY TypeStep DEF IInv
<1>2. OnlyLast' /\ Unopened'
  BY OnlyLastStep DEF IInv
<1>3. Cumulative'
  BY CumulativeStep DEF IInv
<1>4. Counted' /\ FinalsArePrefix' /\ Fresh'
  <2>1. CASE UNCHANGED vars
    BY <2>1 DEF vars, client, tasks, server, IInv, Counted, FinalsArePrefix, Fresh,
                Undisturbed, Heard, Alive, Read
  <2>2. QED BY <2>1, ProcessorCounted, ReceiverCounted, ServerCounted DEF Next
<1>5. QED BY <1>1, <1>2, <1>3, <1>4 DEF IInv

\* What is pushed of a connection is its segments from the first on, in order
\* and each once, for every window and however often the client reconnects.
THEOREM FinalsCorrect == Spec => []FinalsArePrefix
<1>1. IInv /\ [Next]_vars => IInv'
  BY IInvStep
<1>2. IInv => FinalsArePrefix
  BY DEF IInv
<1>3. QED BY InitIInv, <1>1, <1>2, PTL DEF Spec

\* No transcription follows the end of the call: the wait for the receive task
\* ends with that task done or cancelled.
THEOREM EndIsFinal == Spec => NoFinalAfterEnd
<1>1. IInv /\ [Next]_vars => IInv'
  BY IInvStep
<1>2. IInv /\ [Next]_vars => (proc = "ended" /\ ~overlapped => out' = out)
  <2>1. SUFFICES ASSUME IInv, Next, proc = "ended", ~overlapped PROVE out' = out
    BY DEF vars, tasks
  <2>2. \A c \in Connections : ~Alive(c)
    BY <2>1 DEF IInv, OnlyLast
  <2>3. \A c \in Connections : ~PushFinal(c)
    BY <2>2 DEF PushFinal, Alive
  <2>4. QED
    BY <2>1, <2>3
    DEF Next, Processor, ConnectStarts, ConnectOpens, ConnectFails, ConnectReturns,
        SendFails, Disconnect, Disconnected, Receiver, RecvStarts, ReadReady,
        ReadMessage, MessageDone, RecvEnds, Server, SaysReady, Transcribes, Closes,
        tasks, client
<1>3. QED BY InitIInv, <1>1, <1>2, PTL DEF Spec, NoFinalAfterEnd

-----------------------------------------------------------------------------
(* Nothing is lost: the safety half of FinalsAreDelivered.                 *)

\* _server_ready is down from the start of _connect until the new task has read
\* SERVER_READY, and until that task begins nobody takes its socket away but a
\* connection that has been closed before it said a word.
NotReadyYet == proc = "opening" /\ ~overlapped => ~ready
SocketIsKept ==
  \A c \in Connections :
    ~overlapped /\ task[c] = "starting" =>
       ~ready /\ (ws = c \/ (closed[c] /\ hello[c] = "none"))

\* The server transcribes after SERVER_READY.
ReadyFirst == \A c \in Connections : hello[c] = "none" => sent[c] = <<>>

\* A receive task that is over, while the call goes on, has pushed everything its
\* server will ever have said.
NothingLost ==
  \A c \in Connections :
    Undisturbed(c) /\ task[c] = "done" /\ proc # "ended"
       => closed[c] /\ Len(out[c]) = Heard(c)

LosslessInv == IInv /\ NotReadyYet /\ SocketIsKept /\ ReadyFirst /\ NothingLost

\* Only the task of the last connection is alive, so no other takes its socket.
LEMMA SocketStep ==
  ASSUME LosslessInv, [Next]_vars PROVE NotReadyYet' /\ SocketIsKept'
<1> USE DEF LosslessInv, IInv, NotReadyYet, SocketIsKept
<1>1. CASE ConnectStarts
  <2>1. overlapped' = FALSE => \A c \in Connections : ~Alive(c)'
    BY <1>1 DEF ConnectStarts, Alive, tasks, TypeOK
  <2>2. QED BY <1>1, <2>1 DEF ConnectStarts, Alive
<1>2. CASE ConnectOpens
  <2>1. opened + 1 \in Connections
    BY <1>2 DEF ConnectOpens, Connections, Opening, TypeOK
  <2>2. overlapped' = FALSE => ~ready' /\ \A c \in Connections : ~Alive(c)
    BY <1>2 DEF ConnectOpens, OnlyLast
  <2>3. ws' = opened + 1 /\ proc' = "awaiting"
    BY <1>2 DEF ConnectOpens
  <2>4. \A c \in Connections : c # opened + 1 => task'[c] = task[c]
    BY <1>2, <2>1 DEF ConnectOpens, TypeOK
  <2>5. QED BY <2>2, <2>3, <2>4 DEF Alive
<1>3. CASE ConnectFails
  <2>1. ~overlapped => \A c \in Connections :
          task[c] = "starting" => proc = "awaiting" /\ c = opened
    BY <1>3 DEF ConnectFails, OnlyLast, Alive
  <2>2. QED BY <1>3, <2>1 DEF ConnectFails, tasks, server
<1>4. CASE ConnectReturns \/ Disconnect
  BY <1>4 DEF ConnectReturns, Disconnect, tasks, server
<1>5. CASE SendFails
  BY <1>5 DEF SendFails, tasks, server
<1>6. CASE Disconnected
  <2>1. ~overlapped' => \A c \in Connections : ~Alive(c)'
    <3>1. TypeOK' /\ OnlyLast'
      BY <1>6, TypeStep, OnlyLastStep DEF Next, Processor
    <3>2. proc' = "ended"
      BY <1>6 DEF Disconnected
    <3>3. QED BY <3>1, <3>2 DEF OnlyLast
  <2>2. QED BY <1>6, <2>1 DEF Disconnected, Alive
<1>7. ASSUME NEW d \in Connections, Receiver(d) PROVE NotReadyYet' /\ SocketIsKept'
  <2>1. /\ Alive(d)
        /\ UNCHANGED <<proc, overlapped, closed>>
        /\ task'[d] # "starting"
        /\ \A c \in Connections \ {d} : task'[c] = task[c]
    BY <1>7 DEF Receiver, RecvStarts, ReadReady, ReadMessage, PushFinal, MessageDone, RecvEnds,
                Alive, TypeOK, tasks, client, server
  <2>2. ~overlapped => proc # "opening" /\ \A c \in Connections \ {d} : ~Alive(c)
    BY <2>1 DEF OnlyLast
  <2>3. QED BY <2>1, <2>2 DEF Alive
<1>8. ASSUME NEW d \in Connections, Server(d) PROVE NotReadyYet' /\ SocketIsKept'
  <2>1. UNCHANGED <<proc, overlapped, ready, ws, task>>
    BY <1>8 DEF Server, SaysReady, Transcribes, Closes, client, tasks
  <2>2. \A c \in Connections : closed[c] => closed'[c] /\ hello'[c] = hello[c]
    BY <1>8 DEF Server, SaysReady, Transcribes, Closes, TypeOK
  <2>3. QED BY <2>1, <2>2
<1>9. CASE UNCHANGED vars
  BY <1>9 DEF vars, client, tasks, server
<1>10. QED BY <1>1, <1>2, <1>3, <1>4, <1>5, <1>6, <1>7, <1>8, <1>9 DEF Next, Processor

LEMMA ReadyFirstStep ==
  ASSUME TypeOK, ReadyFirst, [Next]_vars PROVE ReadyFirst'
<1> USE DEF ReadyFirst, TypeOK
<1>1. ASSUME NEW d \in Connections, ReadReady(d) \/ SaysReady(d) \/ Transcribes(d)
      PROVE  ReadyFirst'
  BY <1>1 DEF ReadReady, SaysReady, Transcribes
<1>2. CASE UNCHANGED <<hello, sent>>
  BY <1>2
<1>3. \/ \E d \in Connections : ReadReady(d) \/ SaysReady(d) \/ Transcribes(d)
      \/ UNCHANGED <<hello, sent>>
  BY DEF Next, vars, Processor, ConnectStarts, ConnectOpens, ConnectFails, ConnectReturns,
         SendFails, Disconnect, Disconnected, Receiver, RecvStarts, ReadMessage, PushFinal,
         MessageDone, RecvEnds, Server, Closes, server
<1>4. QED BY <1>1, <1>2, <1>3

\* A task ends when it has read its closed connection to the end, or at once on a
\* connection that never said anything; the server of a closed one is silent.
LEMMA NothingLostStep ==
  ASSUME LosslessInv, [Next]_vars PROVE NothingLost'
<1> USE DEF LosslessInv, IInv
<1>1. TypeOK' /\ OnlyLast'
  BY TypeStep, OnlyLastStep
<1>2. CASE Processor
  <2>1. /\ UNCHANGED <<out, sent, closed>>
        /\ overlapped' = FALSE => overlapped = FALSE
    BY <1>2 DEF Processor, ConnectStarts, ConnectOpens, ConnectFails, ConnectReturns,
                SendFails, Disconnect, Disconnected, tasks, server, TypeOK
  <2>2. proc # "ended"
    BY <1>2 DEF Processor, ConnectStarts, ConnectOpens, ConnectFails, ConnectReturns,
                SendFails, Disconnect, Disconnected
  <2>3. proc' = "ended" \/ \A c \in Connections : task'[c] = "done" => task[c] = "done"
    BY <1>2 DEF Processor, ConnectStarts, ConnectOpens, ConnectFails, ConnectReturns,
                SendFails, Disconnect, Disconnected, tasks, TypeOK
  <2>4. QED BY <2>1, <2>2, <2>3 DEF NothingLost, Undisturbed, Heard
<1>3. ASSUME NEW d \in Connections, Receiver(d) PROVE NothingLost'
  <2>1. /\ Alive(d)
        /\ UNCHANGED <<proc, overlapped, sent, closed>>
        /\ \A c \in Connections \ {d} : task'[c] = task[c] /\ out'[c] = out[c]
    BY <1>3 DEF Receiver, RecvStarts, ReadReady, ReadMessage, PushFinal, MessageDone, RecvEnds,
                Alive, TypeOK, tasks, client, server
  <2>2. SUFFICES ASSUME Undisturbed(d), task'[d] = "done"
                 PROVE  closed[d] /\ Len(out'[d]) = Heard(d)
    <3>1. \A c \in Connections : /\ Undisturbed(c)' = Undisturbed(c)
                                 /\ Heard(c)' = Heard(c)
      BY <2>1 DEF Undisturbed, Heard
    <3>2. QED BY <2>1, <2>2, <3>1 DEF NothingLost
  <2>3. CASE RecvStarts(d)
    <3>1. task[d] = "starting" /\ ws # d /\ out' = out
      BY <2>2, <2>3 DEF RecvStarts, TypeOK
    <3>2. closed[d] /\ sent[d] = <<>>
      BY <2>2, <3>1 DEF SocketIsKept, ReadyFirst, Undisturbed
    <3>3. Len(out[d]) = 0
      BY <2>1, <2>2, <3>1 DEF Counted, Read
    <3>4. QED BY <3>1, <3>2, <3>3 DEF Heard
  <2>4. CASE RecvEnds(d)
    <3>1. task[d] = "reading" /\ closed[d] /\ rd[d] = Len(sent[d]) /\ out' = out
      BY <2>4 DEF RecvEnds
    <3>2. Len(out[d]) = Read(d)
      BY <2>1, <2>2, <3>1 DEF Counted
    <3>3. Read(d) = Heard(d)
      <4>1. sent[d] \in Seq(1..MaxSegments)
        BY DEF TypeOK
      <4>2. Len(sent[d]) = 0 <=> sent[d] = <<>>
        BY <4>1
      <4>3. QED BY <3>1, <4>2 DEF Read, Heard
    <3>4. QED BY <3>1, <3>2, <3>3
  <2>5. CASE ReadReady(d) \/ ReadMessage(d) \/ PushFinal(d) \/ MessageDone(d)
    BY <2>2, <2>5 DEF ReadReady, ReadMessage, PushFinal, MessageDone, TypeOK, tasks
  <2>6. QED BY <1>3, <2>3, <2>4, <2>5 DEF Receiver
<1>4. ASSUME NEW d \in Connections, Server(d) PROVE NothingLost'
  <2>1. UNCHANGED <<proc, overlapped, task, out>>
    BY <1>4 DEF Server, SaysReady, Transcribes, Closes, client, tasks
  <2>2. \A c \in Connections : closed[c] => closed'[c] /\ sent'[c] = sent[c]
    BY <1>4 DEF Server, SaysReady, Transcribes, Closes, TypeOK
  <2>3. ASSUME NEW c \in Connections, Undisturbed(c)' PROVE Undisturbed(c)
    <3>1. CASE sent'[c] = sent[c]
      BY <2>1, <2>3, <3>1 DEF Undisturbed, Heard
    <3>2. CASE Transcribes(d) /\ d = c
      <4>1. PICK n \in (Heard(c) + 1)..MaxSegments : sent' = [sent EXCEPT ![c] = Append(@, n)]
        BY <3>2 DEF Transcribes
      <4>2. sent[c] \in Seq(1..MaxSegments) /\ Heard(c) \in Nat
        BY HeardNat DEF TypeOK
      <4>3. n \in 1..MaxSegments /\ n > Heard(c) /\ sent'[c] = Append(sent[c], n)
        BY <4>1, <4>2 DEF TypeOK
      <4>4. Heard(c)' = n
        BY <4>2, <4>3 DEF Heard
      <4>5. QED BY <2>1, <2>3, <4>2, <4>3, <4>4 DEF Undisturbed
    <3>3. Transcribes(d) /\ d # c => sent'[c] = sent[c]
      BY DEF Transcribes, TypeOK
    <3>4. SaysReady(d) \/ Closes(d) => sent'[c] = sent[c]
      BY DEF SaysReady, Closes
    <3>5. QED BY <1>4, <3>1, <3>2, <3>3, <3>4 DEF Server
  <2>4. QED BY <2>1, <2>2, <2>3 DEF NothingLost, Heard
<1>5. CASE UNCHANGED vars
  BY <1>5 DEF vars, client, tasks, server, NothingLost, Undisturbed, Heard
<1>6. QED BY <1>2, <1>3, <1>4, <1>5 DEF Next

\* A receive task that has ended in the course of the call has pushed every
\* segment that its server had completed, what was buffered when the connection
\* closed included: a lost connection loses no transcription.
THEOREM NoFinalIsLost == Spec => []NothingLost
<1>1. Init => LosslessInv
  BY InitIInv
  DEF Init, LosslessInv, NotReadyYet, SocketIsKept, ReadyFirst, NothingLost
<1>2. LosslessInv /\ [Next]_vars => LosslessInv'
  BY IInvStep, SocketStep, ReadyFirstStep, NothingLostStep DEF LosslessInv, IInv
<1>3. LosslessInv => NothingLost
  BY DEF LosslessInv
<1>4. QED BY <1>1, <1>2, <1>3, PTL DEF Spec
=============================================================================
