------------------------- MODULE ServerManagerProofs -------------------------
(***************************************************************************)
(* Theorems about ServerManager.  The inductive invariant has two halves:  *)
(* QueueInv relates the queue of each client, the queue in front of the    *)
(* main transport and what was handed to the host; SocketInv relates the   *)
(* stage of a connection, the operations outstanding on its socket and the *)
(* buffers they use.                                                       *)
(***************************************************************************)
EXTENDS ServerManager, MainTransportProofs

\* Nothing waits without a frame in the queue.
QueueInv ==
  /\ TransportInv
  /\ clients_map_ \subseteq Sids
  /\ BacklogIsServed

\* Before on_connect() has ended nothing was pushed, read or queued, and
\* only the write of the request can be outstanding.
BeforeAnswer(c) == stage[c] # "done" =>
  /\ recv_buffers_[c] = <<>> /\ pushed[c] = 0
  /\ is_reading_[c] /\ reads[c] = 0 /\ ~stopping[c]
  /\ send_buffers_[c] = <<>>
  /\ writes[c] = IF stage[c] = "requesting" THEN 1 ELSE 0

\* is_reading_ is set while a read is outstanding or about to be given up.
Reading(c) ==
  /\ reads[c] <= 1
  /\ reads[c] = 1 => is_reading_[c] /\ ~stopping[c]
  /\ stopping[c] => is_reading_[c]

\* A write of an answered connection is that of the chunk at the front.
Writing(c) ==
  /\ writes[c] <= 1
  /\ writes[c] = 1 /\ stage[c] = "done" => send_buffers_[c] # <<>>

\* A read is outstanding only below queue_max_num, but for the
\* tcp_disconnect of a failed write, which leaves its chunk in the queue.
Backlog(c) ==
  Len(recv_buffers_[c]) <=
    QueueMax - reads[c]
      + (IF writes[c] = 0 /\ send_buffers_[c] # <<>> THEN 1 ELSE 0)

SocketOK(c) == BeforeAnswer(c) /\ Reading(c) /\ Writing(c) /\ Backlog(c)

SocketInv == SocketsTypeOK /\ \A c \in Sids : SocketOK(c)

IInv == QueueInv /\ SocketInv
-----------------------------------------------------------------------------
(* The queues.                                                             *)

\* An entry leaves the map, or one with nothing to send comes into it.
LEMMA MapChangeKeepsQueues ==
  ASSUME QueueInv, clients_map_' \subseteq Sids,
         \A c \in clients_map_' \ clients_map_ : recv_buffers_[c] = <<>>,
         UNCHANGED <<recvVars, implVars, finishing>>
  PROVE  QueueInv'
<1>1. TransportInv' /\ \A d \in Sids : InFlight(d) <=> InFlight(d)'
  BY TransportUntouched DEF QueueInv
<1>2. UNCHANGED recv_buffers_
  BY DEF recvVars
<1>3. BacklogIsServed'
  BY <1>1, <1>2 DEF QueueInv, BacklogIsServed
<1> QED
  BY <1>1, <1>3 DEF QueueInv

\* A push that is sent at once if it is alone.
LEMMA PushKeepsQueues ==
  ASSUME QueueInv, NEW c \in Sids, NEW type \in FrameTypes,
         PushTuple(c, type, recv_buffers_[c] = <<>>),
         UNCHANGED <<clients_map_, finishing>>
  PROVE  QueueInv'
<1>1. TransportInv /\ clients_map_ \subseteq Sids /\ UNCHANGED finishing
  BY DEF QueueInv
<1>2. \A d \in Sids \ {c} : UNCHANGED recv_buffers_[d]
  BY <1>1 DEF PushTuple, TransportInv, QueuesTypeOK
<1>3. CASE recv_buffers_[c] = <<>>
  <2>1. PushTuple(c, type, TRUE)
    BY <1>3 DEF PushTuple
  <2>2. /\ TransportInv' /\ InFlight(c)'
        /\ \A d \in Sids \ {c} : InFlight(d) <=> InFlight(d)'
    BY <1>1, <1>3, <2>1, PushAlone
  <2> QED
    BY <1>1, <1>2, <2>2 DEF QueueInv, BacklogIsServed
<1>4. CASE recv_buffers_[c] # <<>>
  <2>1. PushTuple(c, type, FALSE)
    BY <1>4 DEF PushTuple
  <2>2. TransportInv' /\ \A d \in Sids : InFlight(d) => InFlight(d)'
    BY <1>1, <2>1, PushWaits
  <2> QED
    BY <1>1, <1>2, <1>4, <2>2 DEF QueueInv, BacklogIsServed
<1> QED
  BY <1>3, <1>4

\* The answer is pushed and sent whatever the queue holds; it is empty.
LEMMA AnswerKeepsQueues ==
  ASSUME QueueInv, NEW c \in Sids, recv_buffers_[c] = <<>>, Answer(c)
  PROVE  QueueInv'
<1>1. /\ PushTuple(c, "tcp_connect", TRUE)
      /\ UNCHANGED clients_map_ /\ UNCHANGED finishing
  BY DEF Answer
<1>2. PushTuple(c, "tcp_connect", recv_buffers_[c] = <<>>)
  BY <1>1 DEF PushTuple
<1> QED
  BY <1>1, <1>2, PushKeepsQueues DEF FrameTypes

LEMMA SendDisconnectKeepsQueues ==
  ASSUME QueueInv, NEW c \in Sids, SendDisconnect(c),
         UNCHANGED <<clients_map_, finishing>>
  PROVE  QueueInv'
<1>1. PushTuple(c, "tcp_disconnect", recv_buffers_[c] = <<>>)
  BY DEF SendDisconnect
<1> QED
  BY <1>1, PushKeepsQueues DEF FrameTypes

LEMMA InitQueues == Init => QueueInv
<1> SUFFICES ASSUME Init PROVE QueueInv
  OBVIOUS
<1>1. InitTransport /\ clients_map_ = {}
  BY DEF Init, InitRelay
<1> QED
  BY <1>1, InitKeeps DEF QueueInv, BacklogIsServed

\* The first block of send_complete().
LEMMA SendCompleteKeepsQueues ==
  ASSUME QueueInv, SendComplete
  PROVE  QueueInv'
<1>1. TransportInv /\ clients_map_ \subseteq Sids
  BY DEF QueueInv
<1>2. PICK c \in Sids : c = current_sending_user_
  BY <1>1 DEF TransportInv, QueuesTypeOK
<1>3. /\ finishing = "called" /\ finishing' = "notified"
      /\ UNCHANGED clients_map_ /\ UNCHANGED pushed
      /\ c \in clients_map_ => PopTuple(c, TRUE)
      /\ c \notin clients_map_ => UNCHANGED <<recv_buffers_, implVars>>
  BY <1>2 DEF SendComplete, NotifyMainSocketComplete, clientVars
<1>4. CASE c \notin clients_map_
  <2>1. UNCHANGED <<recvVars, implVars>>
    BY <1>3, <1>4 DEF recvVars
  <2>2. TransportInv' /\ \A d \in Sids \ {c} : InFlight(d) => InFlight(d)'
    BY <1>1, <1>2, <1>3, <2>1, SkipKeeps
  <2> QED
    BY <1>1, <1>3, <1>4, <2>1, <2>2 DEF QueueInv, BacklogIsServed, recvVars
<1>5. CASE c \in clients_map_
  <2>1. /\ TransportInv'
        /\ \A d \in Sids \ {c} : InFlight(d) => InFlight(d)'
        /\ recv_buffers_'[c] # <<>> => InFlight(c)'
    BY <1>1, <1>2, <1>3, <1>5, PopTupleKeeps
  <2>2. \A d \in Sids \ {c} : UNCHANGED recv_buffers_[d]
    BY <1>1, <1>3, <1>5 DEF PopTuple, TransportInv, QueuesTypeOK
  <2> QED
    BY <1>1, <1>3, <2>1, <2>2 DEF QueueInv, BacklogIsServed
<1> QED
  BY <1>4, <1>5

\* The other two steps of a send.
LEMMA FrameStepsKeepQueues ==
  ASSUME QueueInv, HostFinishes \/ SendNext
  PROVE  QueueInv'
<1>1. /\ FinishSend \/ PopFrame
      /\ UNCHANGED clients_map_ /\ UNCHANGED recv_buffers_
  BY DEF HostFinishes, SendNext, FinishSend, PopFrame, clientVars, recvVars
<1>2. TransportInv' /\ \A d \in Sids : InFlight(d) => InFlight(d)'
  BY <1>1, FinishSendKeeps, PopFrameKeeps DEF QueueInv
<1> QED
  BY <1>1, <1>2 DEF QueueInv, BacklogIsServed

\* Steps that touch neither the queues nor the map.
LEMMA OtherStepsKeepQueues ==
  ASSUME QueueInv, UNCHANGED <<clients_map_, recvVars, implVars, finishing>>
  PROVE  QueueInv'
<1>1. clients_map_' \subseteq Sids
  BY DEF QueueInv
<1> QED
  BY <1>1, MapChangeKeepsQueues

\* Every step keeps the invariant of the queues, given that nothing was
\* pushed before the answer.
LEMMA NextKeepsQueues ==
  ASSUME QueueInv, \A c \in Sids : BeforeAnswer(c), [Next]_vars
  PROVE  QueueInv'
<1>1. CASE HostFinishes \/ SendNext
  BY <1>1, FrameStepsKeepQueues
<1>2. CASE SendComplete
  BY <1>2, SendCompleteKeepsQueues
<1>4. CASE PoolExits
  BY <1>4, OtherStepsKeepQueues DEF PoolExits, clientVars
<1>5. ASSUME NEW c \in Sids, Connecting(c) PROVE QueueInv'
  <2>1. CASE Resolved(c)
    BY <2>1, OtherStepsKeepQueues DEF Resolved
  <2>2. CASE ForwardRequest(c)
    BY <2>2, OtherStepsKeepQueues DEF ForwardRequest
  <2>3. CASE ConnectFailed(c)
    BY <2>3, SendDisconnectKeepsQueues DEF ConnectFailed
  <2>4. CASE TunnelConnected(c)
    BY <2>4, AnswerKeepsQueues DEF TunnelConnected, Handler, BeforeAnswer
  <2>5. CASE RequestWritten(c)
    BY <2>5, AnswerKeepsQueues DEF RequestWritten, Handler, BeforeAnswer
  <2> QED
    BY <1>5, <2>1, <2>2, <2>3, <2>4, <2>5 DEF Connecting
<1>6. ASSUME NEW c \in Sids, Relaying(c) PROVE QueueInv'
  <2>1. CASE ReadChunk(c)
    <3>1. /\ PushTuple(c, "tcp_data", recv_buffers_[c] = <<>>)
          /\ UNCHANGED <<clients_map_, finishing>>
      BY <2>1 DEF ReadChunk, clientVars
    <3> QED
      BY <3>1, PushKeepsQueues DEF FrameTypes
  <2>2. CASE StopReading(c)
    BY <2>2, OtherStepsKeepQueues DEF StopReading, clientVars
  <2>3. CASE ReadFailed(c)
    BY <2>3, SendDisconnectKeepsQueues DEF ReadFailed
  <2>4. CASE ChunkWritten(c)
    BY <2>4, OtherStepsKeepQueues DEF ChunkWritten, clientVars
  <2>5. CASE WriteFailed(c)
    BY <2>5, SendDisconnectKeepsQueues DEF WriteFailed
  <2>6. CASE RemoveSelf(c)
    BY <2>6, MapChangeKeepsQueues
       DEF RemoveSelf, RemoveClient, QueueInv
  <2> QED
    BY <1>6, <2>1, <2>2, <2>3, <2>4, <2>5, <2>6 DEF Relaying
<1>7. ASSUME NEW c \in Sids, Peer(c) PROVE QueueInv'
  <2>1. CASE RecvConnect(c)
    <3>1. recv_buffers_[c] = <<>>
      BY <2>1 DEF RecvConnect, BeforeAnswer
    <3> QED
      BY <2>1, <3>1, MapChangeKeepsQueues DEF RecvConnect, QueueInv
  <2>2. CASE RecvData(c)
    BY <2>2, OtherStepsKeepQueues DEF RecvData, clientVars
  <2>3. CASE RecvDisconnect(c)
    BY <2>3, MapChangeKeepsQueues
       DEF RecvDisconnect, RemoveClient, QueueInv
  <2> QED
    BY <1>7, <2>1, <2>2, <2>3 DEF Peer
<1>8. CASE UNCHANGED vars
  BY <1>8, OtherStepsKeepQueues DEF vars, clientVars
<1> QED
  BY <1>1, <1>2, <1>4, <1>5, <1>6, <1>7, <1>8 DEF Next
-----------------------------------------------------------------------------
(* The sockets.                                                            *)

\* A client none of whose variables changes keeps its invariant.
LEMMA Untouched ==
  ASSUME NEW c \in Sids, SocketOK(c),
         UNCHANGED <<stage[c], recv_buffers_[c], pushed[c], is_reading_[c],
                     reads[c], stopping[c], send_buffers_[c], writes[c]>>
  PROVE  SocketOK(c)'
BY DEF SocketOK, BeforeAnswer, Reading, Writing, Backlog

\* The read callback that pushed stops reading at queue_max_num.
LEMMA ReadChunkKeepsSockets ==
  ASSUME QueuesTypeOK, SocketInv, NEW c \in Sids, ReadChunk(c)
  PROVE  SocketInv'
<1>1. /\ \A d \in Sids \ {c} : UNCHANGED <<recv_buffers_[d], pushed[d]>>
      /\ Len(recv_buffers_'[c]) = Len(recv_buffers_[c]) + 1
      /\ Len(recv_buffers_[c]) \in Nat
  <2>1. PushTuple(c, "tcp_data", recv_buffers_[c] = <<>>)
    BY DEF ReadChunk
  <2> QED
    BY <2>1, PushEffect DEF QueuesTypeOK
<1>2. /\ UNCHANGED <<clientVars, is_reading_, writeVars, pool, received>>
      /\ reads[c] > 0
      /\ ReadOnUnlessFull(c, Len(recv_buffers_[c]) + 1)
  BY DEF ReadChunk
<1>3. SocketsTypeOK /\ SocketOK(c)
  BY DEF SocketInv
<1>4. /\ reads' \in [Sids -> Nat] /\ stopping' \in [Sids -> BOOLEAN]
      /\ \A d \in Sids \ {c} : UNCHANGED <<reads[d], stopping[d]>>
      /\ IF Len(recv_buffers_[c]) + 1 < QueueMax
           THEN UNCHANGED <<reads[c], stopping[c]>>
           ELSE reads'[c] = reads[c] - 1 /\ stopping'[c] = TRUE
  <2>1. /\ reads \in [Sids -> Nat] /\ stopping \in [Sids -> BOOLEAN]
        /\ reads[c] - 1 \in Nat
    BY <1>2, <1>3 DEF SocketsTypeOK, RelayTypeOK
  <2>2. CASE Len(recv_buffers_[c]) + 1 < QueueMax
    BY <1>2, <2>1, <2>2 DEF ReadOnUnlessFull
  <2>3. CASE ~(Len(recv_buffers_[c]) + 1 < QueueMax)
    BY <1>2, <2>1, <2>3 DEF ReadOnUnlessFull
  <2> QED
    BY <2>2, <2>3
<1>5. SocketsTypeOK'
  BY <1>2, <1>3, <1>4 DEF SocketsTypeOK, RelayTypeOK, clientVars, writeVars
<1>6. stage[c] = "done" /\ reads[c] = 1
  BY <1>2, <1>3 DEF SocketOK, BeforeAnswer, Reading, SocketsTypeOK, RelayTypeOK
<1>7. SocketOK(c)'
  BY <1>1, <1>2, <1>3, <1>4, <1>6, QueueMaxAssumption
     DEF SocketOK, BeforeAnswer, Reading, Writing, Backlog, clientVars, writeVars
<1>8. \A d \in Sids \ {c} : SocketOK(d)'
  BY <1>1, <1>2, <1>4, Untouched DEF SocketInv, clientVars, writeVars
<1> QED
  BY <1>5, <1>7, <1>8 DEF SocketInv

\* send_disconnect(), called when the pending operation, if any, has failed.
LEMMA SendDisconnectEffect ==
  ASSUME QueuesTypeOK, SocketsTypeOK, NEW c \in Sids, SendDisconnect(c)
  PROVE  /\ \A d \in Sids \ {c} : UNCHANGED <<recv_buffers_[d], pushed[d]>>
         /\ Len(recv_buffers_[c]) \in Nat
         /\ Len(recv_buffers_'[c]) = Len(recv_buffers_[c]) + 1
         /\ removing' \in [Sids -> BOOLEAN]
<1>1. /\ PushTuple(c, "tcp_disconnect", recv_buffers_[c] = <<>>)
      /\ removing' = [removing EXCEPT ![c] = TRUE]
  BY DEF SendDisconnect
<1>2. Len(recv_buffers_[c]) \in Nat
  BY DEF QueuesTypeOK
<1> QED
  BY <1>1, <1>2, PushEffect DEF SocketsTypeOK, RelayTypeOK

LEMMA ReadFailedKeepsSockets ==
  ASSUME QueuesTypeOK, SocketInv, NEW c \in Sids, ReadFailed(c)
  PROVE  SocketInv'
<1>1. SocketsTypeOK /\ SocketOK(c)
  BY DEF SocketInv
<1>2. /\ reads[c] > 0
      /\ reads' = [reads EXCEPT ![c] = @ - 1]
      /\ UNCHANGED <<stage, is_reading_, stopping, writeVars, pool, received>>
      /\ SendDisconnect(c)
  BY DEF ReadFailed
<1>3. /\ \A d \in Sids \ {c} : UNCHANGED <<recv_buffers_[d], pushed[d]>>
      /\ Len(recv_buffers_[c]) \in Nat
      /\ Len(recv_buffers_'[c]) = Len(recv_buffers_[c]) + 1
      /\ removing' \in [Sids -> BOOLEAN]
  BY <1>1, <1>2, SendDisconnectEffect
<1>4. /\ reads' \in [Sids -> Nat] /\ reads'[c] = reads[c] - 1
      /\ \A d \in Sids \ {c} : reads'[d] = reads[d]
  BY <1>1, <1>2 DEF SocketsTypeOK, RelayTypeOK
<1>5. SocketsTypeOK'
  BY <1>1, <1>2, <1>3, <1>4 DEF SocketsTypeOK, RelayTypeOK, writeVars
<1>6. stage[c] = "done" /\ reads[c] = 1
  BY <1>1, <1>2 DEF SocketOK, BeforeAnswer, Reading, SocketsTypeOK, RelayTypeOK
<1>7. SocketOK(c)'
  BY <1>1, <1>2, <1>3, <1>4, <1>6, QueueMaxAssumption
     DEF SocketOK, BeforeAnswer, Reading, Writing, Backlog, writeVars
<1>8. \A d \in Sids \ {c} : SocketOK(d)'
  BY <1>2, <1>3, <1>4, Untouched DEF SocketInv, writeVars
<1> QED
  BY <1>5, <1>7, <1>8 DEF SocketInv

LEMMA WriteFailedKeepsSockets ==
  ASSUME QueuesTypeOK, SocketInv, NEW c \in Sids, WriteFailed(c)
  PROVE  SocketInv'
<1>1. SocketsTypeOK /\ SocketOK(c)
  BY DEF SocketInv
<1>2. /\ stage[c] = "done" /\ writes[c] > 0
      /\ writes' = [writes EXCEPT ![c] = @ - 1]
      /\ UNCHANGED <<stage, readVars, send_buffers_, write_buffer_, written,
                     pool, received>>
      /\ SendDisconnect(c)
  BY DEF WriteFailed, Handler
<1>3. /\ \A d \in Sids \ {c} : UNCHANGED <<recv_buffers_[d], pushed[d]>>
      /\ Len(recv_buffers_[c]) \in Nat
      /\ Len(recv_buffers_'[c]) = Len(recv_buffers_[c]) + 1
      /\ removing' \in [Sids -> BOOLEAN]
  BY <1>1, <1>2, SendDisconnectEffect
<1>4. /\ writes' \in [Sids -> Nat] /\ writes'[c] = writes[c] - 1
      /\ \A d \in Sids \ {c} : writes'[d] = writes[d]
  BY <1>1, <1>2 DEF SocketsTypeOK, RelayTypeOK
<1>5. SocketsTypeOK'
  BY <1>1, <1>2, <1>3, <1>4 DEF SocketsTypeOK, RelayTypeOK, readVars
<1>6. writes[c] = 1 /\ send_buffers_[c] # <<>> /\ reads[c] \in Nat
  BY <1>1, <1>2 DEF SocketOK, Writing, SocketsTypeOK, RelayTypeOK
<1>7. SocketOK(c)'
  BY <1>1, <1>2, <1>3, <1>4, <1>6, QueueMaxAssumption
     DEF SocketOK, BeforeAnswer, Reading, Writing, Backlog, readVars
<1>8. \A d \in Sids \ {c} : SocketOK(d)'
  BY <1>2, <1>3, <1>4, Untouched DEF SocketInv, readVars
<1> QED
  BY <1>5, <1>7, <1>8 DEF SocketInv

LEMMA ConnectFailedKeepsSockets ==
  ASSUME QueuesTypeOK, SocketInv, NEW c \in Sids, ConnectFailed(c)
  PROVE  SocketInv'
<1>1. SocketsTypeOK /\ SocketOK(c)
  BY DEF SocketInv
<1>2. /\ \/ stage[c] \in {"resolving", "connecting"} /\ UNCHANGED writes
         \/ stage[c] = "requesting" /\ writes' = [writes EXCEPT ![c] = @ - 1]
      /\ stage' = [stage EXCEPT ![c] = "done"]
      /\ UNCHANGED <<readVars, send_buffers_, write_buffer_, written, pool,
                     received>>
      /\ SendDisconnect(c)
  BY DEF ConnectFailed, Handler
<1>3. /\ \A d \in Sids \ {c} : UNCHANGED <<recv_buffers_[d], pushed[d]>>
      /\ Len(recv_buffers_'[c]) = Len(recv_buffers_[c]) + 1
      /\ removing' \in [Sids -> BOOLEAN]
  BY <1>1, <1>2, SendDisconnectEffect
<1>4. /\ recv_buffers_[c] = <<>> /\ Len(recv_buffers_[c]) = 0
      /\ is_reading_[c] /\ reads[c] = 0 /\ ~stopping[c]
      /\ send_buffers_[c] = <<>>
      /\ writes[c] = IF stage[c] = "requesting" THEN 1 ELSE 0
  BY <1>1, <1>2 DEF SocketOK, BeforeAnswer
<1>5. /\ writes' \in [Sids -> Nat] /\ writes'[c] = 0
      /\ \A d \in Sids \ {c} : writes'[d] = writes[d]
  <2>1. writes \in [Sids -> Nat]
    BY <1>1 DEF SocketsTypeOK, RelayTypeOK
  <2>2. CASE stage[c] = "requesting"
    BY <1>2, <1>4, <2>1, <2>2
  <2>3. CASE stage[c] # "requesting"
    BY <1>2, <1>4, <2>1, <2>3
  <2> QED
    BY <2>2, <2>3
<1>6. /\ stage'[c] = "done" /\ \A d \in Sids \ {c} : stage'[d] = stage[d]
      /\ stage' \in [Sids -> {"none", "resolving", "connecting", "requesting", "done"}]
  BY <1>1, <1>2 DEF SocketsTypeOK, RelayTypeOK
<1>7. SocketsTypeOK'
  BY <1>1, <1>2, <1>3, <1>5, <1>6 DEF SocketsTypeOK, RelayTypeOK, readVars
<1>8. SocketOK(c)'
  BY <1>2, <1>3, <1>4, <1>5, <1>6, QueueMaxAssumption
     DEF SocketOK, BeforeAnswer, Reading, Writing, Backlog, readVars
<1>9. \A d \in Sids \ {c} : SocketOK(d)'
  BY <1>2, <1>3, <1>5, <1>6, Untouched DEF SocketInv, readVars
<1> QED
  BY <1>7, <1>8, <1>9 DEF SocketInv

\* on_connect() ends with the first read of a connection whose request, if
\* it was forwarded, has been written.
LEMMA AnswerKeepsSockets ==
  ASSUME QueuesTypeOK, SocketInv, NEW c \in Sids, stage[c] # "done",
         Answer(c),
         written' \in [Sids -> Seq(Nat)],
         writes' \in [Sids -> Nat], writes'[c] = 0,
         \A d \in Sids \ {c} : writes'[d] = writes[d]
  PROVE  SocketInv'
<1>1. SocketsTypeOK /\ SocketOK(c)
  BY DEF SocketInv
<1>2. /\ stage' = [stage EXCEPT ![c] = "done"]
      /\ PushTuple(c, "tcp_connect", TRUE)
      /\ reads' = [reads EXCEPT ![c] = @ + 1]
      /\ UNCHANGED <<removing, is_reading_, stopping, send_buffers_,
                     write_buffer_, pool, received>>
  BY DEF Answer, ReadSome
<1>3. /\ \A d \in Sids \ {c} : UNCHANGED <<recv_buffers_[d], pushed[d]>>
      /\ Len(recv_buffers_'[c]) = Len(recv_buffers_[c]) + 1
  BY <1>2, PushEffect
<1>4. /\ recv_buffers_[c] = <<>> /\ Len(recv_buffers_[c]) = 0
      /\ is_reading_[c] /\ reads[c] = 0 /\ ~stopping[c]
      /\ send_buffers_[c] = <<>>
  BY <1>1 DEF SocketOK, BeforeAnswer
<1>5. /\ reads' \in [Sids -> Nat] /\ reads'[c] = 1
      /\ \A d \in Sids \ {c} : reads'[d] = reads[d]
  BY <1>1, <1>2, <1>4 DEF SocketsTypeOK, RelayTypeOK
<1>6. /\ stage'[c] = "done" /\ \A d \in Sids \ {c} : stage'[d] = stage[d]
      /\ stage' \in [Sids -> {"none", "resolving", "connecting", "requesting", "done"}]
  BY <1>1, <1>2 DEF SocketsTypeOK, RelayTypeOK
<1>7. SocketsTypeOK'
  BY <1>1, <1>2, <1>5, <1>6 DEF SocketsTypeOK, RelayTypeOK
<1>8. SocketOK(c)'
  BY <1>2, <1>3, <1>4, <1>5, <1>6, QueueMaxAssumption
     DEF SocketOK, BeforeAnswer, Reading, Writing, Backlog
<1>9. \A d \in Sids \ {c} : SocketOK(d)'
  BY <1>2, <1>3, <1>5, <1>6, Untouched DEF SocketInv
<1> QED
  BY <1>7, <1>8, <1>9 DEF SocketInv

LEMMA ConnectingKeepsSockets ==
  ASSUME QueuesTypeOK, SocketInv, NEW c \in Sids, Connecting(c)
  PROVE  SocketInv'
<1>1. SocketsTypeOK /\ SocketOK(c)
  BY DEF SocketInv
<1>2. CASE Resolved(c)
  <2>1. /\ stage[c] = "resolving" /\ stage' = [stage EXCEPT ![c] = "connecting"]
        /\ UNCHANGED <<removing, readVars, recvVars, writeVars, pool, received>>
    BY <1>2 DEF Resolved, Handler
  <2>2. SocketsTypeOK'
    BY <1>1, <2>1 DEF SocketsTypeOK, RelayTypeOK, readVars, writeVars
  <2>3. SocketOK(c)'
    BY <1>1, <2>1 DEF SocketsTypeOK, RelayTypeOK, SocketOK, BeforeAnswer, Reading, Writing,
                      Backlog, readVars, recvVars, writeVars
  <2>4. \A d \in Sids \ {c} : SocketOK(d)'
    BY <1>1, <2>1, Untouched
       DEF SocketInv, SocketsTypeOK, RelayTypeOK, readVars, recvVars, writeVars
  <2> QED
    BY <2>2, <2>3, <2>4 DEF SocketInv
<1>3. CASE ForwardRequest(c)
  <2>1. /\ stage[c] = "connecting" /\ stage' = [stage EXCEPT ![c] = "requesting"]
        /\ write_buffer_' = [write_buffer_ EXCEPT ![c] = Request]
        /\ writes' = [writes EXCEPT ![c] = @ + 1]
        /\ UNCHANGED <<removing, readVars, recvVars, send_buffers_, written,
                       pool, received>>
    BY <1>3 DEF ForwardRequest, Handler, DoWrite
  <2>2. /\ writes[c] = 0 /\ writes'[c] = 1 /\ writes' \in [Sids -> Nat]
        /\ \A d \in Sids \ {c} : writes'[d] = writes[d]
    BY <1>1, <2>1 DEF SocketOK, BeforeAnswer, SocketsTypeOK, RelayTypeOK
  <2>3. SocketsTypeOK'
    BY <1>1, <2>1, <2>2 DEF SocketsTypeOK, RelayTypeOK, readVars, Request, FirstChunk
  <2>4. SocketOK(c)'
    BY <1>1, <2>1, <2>2
       DEF SocketsTypeOK, RelayTypeOK, SocketOK, BeforeAnswer, Reading, Writing, Backlog,
           readVars, recvVars
  <2>5. \A d \in Sids \ {c} : SocketOK(d)'
    BY <1>1, <2>1, <2>2, Untouched
       DEF SocketInv, SocketsTypeOK, RelayTypeOK, readVars, recvVars
  <2> QED
    BY <2>3, <2>4, <2>5 DEF SocketInv
<1>4. CASE TunnelConnected(c)
  <2>1. stage[c] = "connecting" /\ Answer(c) /\ UNCHANGED <<writes, written>>
    BY <1>4 DEF TunnelConnected, Handler
  <2>2. writes[c] = 0 /\ writes \in [Sids -> Nat] /\ written \in [Sids -> Seq(Nat)]
    BY <1>1, <2>1 DEF SocketOK, BeforeAnswer, SocketsTypeOK, RelayTypeOK
  <2> QED
    BY <2>1, <2>2, AnswerKeepsSockets
<1>5. CASE RequestWritten(c)
  <2>1. /\ stage[c] = "requesting" /\ Answer(c)
        /\ writes' = [writes EXCEPT ![c] = @ - 1]
        /\ written' = [written EXCEPT ![c] = Append(@, write_buffer_[c])]
    BY <1>5 DEF RequestWritten, Handler
  <2>2. writes[c] = 1 /\ writes \in [Sids -> Nat]
    BY <1>1, <2>1 DEF SocketOK, BeforeAnswer, SocketsTypeOK, RelayTypeOK
  <2>3. written' \in [Sids -> Seq(Nat)]
    BY <1>1, <2>1 DEF SocketsTypeOK, RelayTypeOK
  <2>4. /\ writes' \in [Sids -> Nat] /\ writes'[c] = 0
        /\ \A d \in Sids \ {c} : writes'[d] = writes[d]
    BY <2>1, <2>2
  <2> QED
    BY <2>1, <2>3, <2>4, AnswerKeepsSockets
<1> QED
  BY <1>2, <1>3, <1>4, <1>5, ConnectFailedKeepsSockets DEF Connecting

LEMMA StopReadingKeepsSockets ==
  ASSUME SocketInv, NEW c \in Sids, StopReading(c)
  PROVE  SocketInv'
<1>1. SocketsTypeOK /\ SocketOK(c)
  BY DEF SocketInv
<1>2. /\ stopping[c]
      /\ is_reading_' = [is_reading_ EXCEPT ![c] = FALSE]
      /\ stopping' = [stopping EXCEPT ![c] = FALSE]
      /\ UNCHANGED <<clientVars, reads, recvVars, writeVars, pool, received>>
  BY DEF StopReading, ClearReading
<1>3. SocketsTypeOK'
  BY <1>1, <1>2 DEF SocketsTypeOK, RelayTypeOK, clientVars, writeVars
<1>4. SocketOK(c)'
  BY <1>1, <1>2 DEF SocketsTypeOK, RelayTypeOK, SocketOK, BeforeAnswer, Reading, Writing,
                    Backlog, clientVars, recvVars, writeVars
<1>5. \A d \in Sids \ {c} : SocketOK(d)'
  BY <1>1, <1>2, Untouched
     DEF SocketInv, SocketsTypeOK, RelayTypeOK, clientVars, recvVars, writeVars
<1> QED
  BY <1>3, <1>4, <1>5 DEF SocketInv

\* The write callback pops the chunk that was written and writes the next.
LEMMA ChunkWrittenKeepsSockets ==
  ASSUME QueuesTypeOK, SocketInv, NEW c \in Sids, ChunkWritten(c)
  PROVE  SocketInv'
<1> DEFINE rest == Tail(send_buffers_[c])
<1>1. SocketsTypeOK /\ SocketOK(c)
  BY DEF SocketInv
<1>2. /\ stage[c] = "done" /\ writes[c] > 0
      /\ written' = [written EXCEPT ![c] = Append(@, write_buffer_[c])]
      /\ send_buffers_' = [send_buffers_ EXCEPT ![c] = rest]
      /\ rest # <<>> => /\ write_buffer_' = [write_buffer_ EXCEPT ![c] = Head(rest)]
                        /\ UNCHANGED writes
      /\ rest = <<>> => /\ writes' = [writes EXCEPT ![c] = @ - 1]
                        /\ UNCHANGED write_buffer_
      /\ UNCHANGED <<clientVars, readVars, recvVars, pool, received>>
  BY DEF ChunkWritten, PopAndWriteNext, Handler
<1>3. writes[c] = 1 /\ send_buffers_[c] # <<>> /\ send_buffers_[c] \in Seq(Nat)
  BY <1>1, <1>2 DEF SocketOK, Writing, SocketsTypeOK, RelayTypeOK
<1>4. rest \in Seq(Nat) /\ (rest # <<>> => Head(rest) \in Nat)
  <2>1. rest \in Seq(Nat)
    BY <1>3
  <2> HIDE DEF rest
  <2> QED
    BY <2>1
<1> HIDE DEF rest
<1>5. /\ send_buffers_' \in [Sids -> Seq(Nat)] /\ send_buffers_'[c] = rest
      /\ \A d \in Sids \ {c} : send_buffers_'[d] = send_buffers_[d]
  BY <1>1, <1>2, <1>4 DEF SocketsTypeOK, RelayTypeOK
<1>6. write_buffer_' \in [Sids -> Nat] /\ written' \in [Sids -> Seq(Nat)]
  <2>1. write_buffer_ \in [Sids -> Nat] /\ written \in [Sids -> Seq(Nat)]
    BY <1>1 DEF SocketsTypeOK, RelayTypeOK
  <2>2. write_buffer_' \in [Sids -> Nat]
    BY <1>2, <1>4, <2>1
  <2>3. Append(written[c], write_buffer_[c]) \in Seq(Nat)
    BY <2>1
  <2>4. written' \in [Sids -> Seq(Nat)]
    BY <1>2, <2>1, <2>3
  <2> QED
    BY <2>2, <2>4
<1>7. /\ writes' \in [Sids -> Nat]
      /\ writes'[c] = IF rest = <<>> THEN 0 ELSE 1
      /\ \A d \in Sids \ {c} : writes'[d] = writes[d]
  <2>1. writes \in [Sids -> Nat]
    BY <1>1 DEF SocketsTypeOK, RelayTypeOK
  <2>2. CASE rest = <<>>
    BY <1>2, <1>3, <2>1, <2>2
  <2>3. CASE rest # <<>>
    BY <1>2, <1>3, <2>1, <2>3
  <2> QED
    BY <2>2, <2>3
<1>8. SocketsTypeOK'
  BY <1>1, <1>2, <1>5, <1>6, <1>7 DEF SocketsTypeOK, RelayTypeOK, clientVars, readVars
<1>9. SocketOK(c)'
  BY <1>1, <1>2, <1>3, <1>5, <1>7
     DEF SocketOK, BeforeAnswer, Reading, Writing, Backlog, clientVars,
         readVars, recvVars
<1>10. \A d \in Sids \ {c} : SocketOK(d)'
  BY <1>2, <1>5, <1>7, Untouched DEF SocketInv, clientVars, readVars, recvVars
<1> QED
  BY <1>8, <1>9, <1>10 DEF SocketInv

\* A chunk of the peer comes after the answer, so on_connect() has ended.
LEMMA RecvDataKeepsSockets ==
  ASSUME QueueInv, SocketInv, NEW c \in Sids, RecvData(c)
  PROVE  SocketInv'
<1> DEFINE chunk == received[c] + 1
           q == send_buffers_[c]
<1>1. SocketsTypeOK /\ SocketOK(c)
  BY DEF SocketInv
<1>2. /\ \E i \in DOMAIN out[c] : out[c][i].type = "tcp_connect"
      /\ received' = [received EXCEPT ![c] = chunk]
      /\ UNCHANGED <<clientVars, readVars, recvVars, written, pool>>
      /\ c \in clients_map_ => ClientAddSendBuffer(c, chunk, TRUE)
      /\ c \notin clients_map_ => UNCHANGED <<send_buffers_, write_buffer_, writes>>
  BY DEF RecvData
<1>3. stage[c] = "done"
  <2>1. out[c] \in Seq(Tuples) /\ (recv_buffers_[c] = <<>> => Len(out[c]) = pushed[c])
    BY DEF QueueInv, TransportInv, QueuesTypeOK, HandedInOrder
  <2>2. Len(out[c]) # 0
    BY <1>2, <2>1
  <2> QED
    BY <1>1, <2>1, <2>2 DEF SocketOK, BeforeAnswer
<1>4. chunk \in Nat /\ q \in Seq(Nat) /\ writes[c] \in Nat
  BY <1>1 DEF SocketsTypeOK, RelayTypeOK
<1>5. received' \in [Sids -> Nat]
  BY <1>1, <1>2, <1>4 DEF SocketsTypeOK, RelayTypeOK
<1>6. CASE c \notin clients_map_
  <2>1. SocketsTypeOK'
    BY <1>1, <1>2, <1>5, <1>6 DEF SocketsTypeOK, RelayTypeOK, clientVars, readVars
  <2>2. \A d \in Sids : SocketOK(d)'
    BY <1>2, <1>6, Untouched DEF SocketInv, clientVars, readVars, recvVars
  <2> QED
    BY <2>1, <2>2 DEF SocketInv
<1>7. CASE c \in clients_map_
  <2> HIDE DEF chunk
  <2>1. /\ send_buffers_' = [send_buffers_ EXCEPT ![c] = Append(@, chunk)]
        /\ q = <<>> => /\ write_buffer_' = [write_buffer_ EXCEPT ![c] = chunk]
                       /\ writes' = [writes EXCEPT ![c] = @ + 1]
        /\ q # <<>> => UNCHANGED <<write_buffer_, writes>>
    BY <1>2, <1>7 DEF ClientAddSendBuffer, DoWrite
  <2>2. Append(q, chunk) \in Seq(Nat) /\ Append(q, chunk) # <<>>
    BY <1>4
  <2>3. /\ send_buffers_' \in [Sids -> Seq(Nat)] /\ send_buffers_'[c] # <<>>
        /\ \A d \in Sids \ {c} : send_buffers_'[d] = send_buffers_[d]
    BY <1>1, <2>1, <2>2 DEF SocketsTypeOK, RelayTypeOK
  <2>4. q = <<>> => writes[c] = 0
    BY <1>1, <1>3, <1>4 DEF SocketOK, Writing
  <2>5. /\ writes' \in [Sids -> Nat]
        /\ writes'[c] = IF q = <<>> THEN 1 ELSE writes[c]
        /\ \A d \in Sids \ {c} : writes'[d] = writes[d]
        /\ write_buffer_' \in [Sids -> Nat]
    <3>1. writes \in [Sids -> Nat] /\ write_buffer_ \in [Sids -> Nat]
      BY <1>1 DEF SocketsTypeOK, RelayTypeOK
    <3>2. CASE q = <<>>
      BY <1>4, <2>1, <2>4, <3>1, <3>2
    <3>3. CASE q # <<>>
      BY <2>1, <3>1, <3>3
    <3> QED
      BY <3>2, <3>3
  <2>6. SocketsTypeOK'
    BY <1>1, <1>2, <1>5, <2>3, <2>5 DEF SocketsTypeOK, RelayTypeOK, clientVars, readVars
  <2>7. SocketOK(c)'
    BY <1>1, <1>2, <1>3, <2>3, <2>4, <2>5
       DEF SocketOK, BeforeAnswer, Reading, Writing, Backlog, clientVars,
           readVars, recvVars
  <2>8. \A d \in Sids \ {c} : SocketOK(d)'
    BY <1>2, <2>3, <2>5, Untouched DEF SocketInv, clientVars, readVars, recvVars
  <2> QED
    BY <2>6, <2>7, <2>8 DEF SocketInv
<1> QED
  BY <1>6, <1>7

LEMMA RecvConnectKeepsSockets ==
  ASSUME SocketInv, NEW c \in Sids, RecvConnect(c)
  PROVE  SocketInv'
<1>1. SocketsTypeOK /\ SocketOK(c)
  BY DEF SocketInv
<1>2. /\ stage[c] = "none" /\ stage' = [stage EXCEPT ![c] = "resolving"]
      /\ pool' = IF pool = "none" THEN "running" ELSE pool
      /\ UNCHANGED <<removing, readVars, recvVars, writeVars, received>>
  BY DEF RecvConnect
<1>3. SocketsTypeOK'
  BY <1>1, <1>2 DEF SocketsTypeOK, RelayTypeOK, readVars, writeVars
<1>4. SocketOK(c)'
  BY <1>1, <1>2 DEF SocketsTypeOK, RelayTypeOK, SocketOK, BeforeAnswer, Reading, Writing,
                    Backlog, readVars, recvVars, writeVars
<1>5. \A d \in Sids \ {c} : SocketOK(d)'
  BY <1>1, <1>2, Untouched
     DEF SocketInv, SocketsTypeOK, RelayTypeOK, readVars, recvVars, writeVars
<1> QED
  BY <1>3, <1>4, <1>5 DEF SocketInv

\* send_complete() pops a tuple and may start the only read of the socket.
LEMMA SendCompleteKeepsSockets ==
  ASSUME QueueInv, SocketInv, SendComplete
  PROVE  SocketInv'
<1>a. PICK c \in Sids : c = current_sending_user_
  BY DEF QueueInv, TransportInv, QueuesTypeOK
<1> DEFINE rest == Tail(recv_buffers_[c])
<1>1. /\ finishing = "called"
      /\ UNCHANGED <<clientVars, stopping, pushed, writeVars, pool, received>>
      /\ c \in clients_map_ =>
           /\ recv_buffers_' = [recv_buffers_ EXCEPT ![c] = rest]
           /\ RearmReading(c, Len(recv_buffers_[c]) - 1)
      /\ c \notin clients_map_ => UNCHANGED <<recv_buffers_, is_reading_, reads>>
  BY <1>a DEF SendComplete, NotifyMainSocketComplete, PopTuple
<1>2. SocketsTypeOK /\ QueuesTypeOK /\ c \in Sids /\ SocketOK(c)
  BY DEF QueueInv, TransportInv, SocketInv
<1>3. CASE c \notin clients_map_
  <2>1. SocketsTypeOK'
    BY <1>1, <1>2, <1>3 DEF SocketsTypeOK, RelayTypeOK, clientVars, writeVars
  <2>2. \A d \in Sids : SocketOK(d)'
    BY <1>1, <1>3, Untouched DEF SocketInv, clientVars, writeVars
  <2> QED
    BY <2>1, <2>2 DEF SocketInv
<1>4. CASE c \in clients_map_
  <2>1. recv_buffers_[c] # <<>> /\ recv_buffers_[c] \in Seq(Tuples)
    BY <1>1, <1>a, Completion DEF QueueInv
  <2>2. Len(rest) = Len(recv_buffers_[c]) - 1 /\ Len(recv_buffers_[c]) \in Nat
    BY <2>1
  <2>3. stage[c] = "done"
    BY <1>2, <2>1 DEF SocketOK, BeforeAnswer
  <2> HIDE DEF rest
  <2>4. /\ recv_buffers_'[c] = rest
        /\ \A d \in Sids \ {c} : recv_buffers_'[d] = recv_buffers_[d]
    BY <1>1, <1>2, <1>4 DEF QueuesTypeOK
  <2>5. CASE Len(rest) <= ResumeAt /\ ~is_reading_[c]
    <3>1. /\ is_reading_' = [is_reading_ EXCEPT ![c] = TRUE]
          /\ reads' = [reads EXCEPT ![c] = @ + 1]
      BY <1>1, <1>4, <2>2, <2>5 DEF RearmReading, ReadSome
    <3>2. reads[c] = 0 /\ ~stopping[c]
      BY <1>2, <2>5 DEF SocketOK, Reading, SocketsTypeOK, RelayTypeOK
    <3>3. /\ reads' \in [Sids -> Nat] /\ reads'[c] = 1
          /\ is_reading_' \in [Sids -> BOOLEAN] /\ is_reading_'[c]
          /\ \A d \in Sids \ {c} : UNCHANGED <<reads[d], is_reading_[d]>>
      BY <1>2, <3>1, <3>2 DEF SocketsTypeOK, RelayTypeOK
    <3>4. Len(rest) <= QueueMax - 1
      BY <2>2, <2>5, QueueMaxAssumption DEF ResumeAt
    <3>5. SocketsTypeOK'
      BY <1>1, <1>2, <3>3 DEF SocketsTypeOK, RelayTypeOK, clientVars, writeVars
    <3>6. SocketOK(c)'
      BY <1>1, <1>2, <2>2, <2>3, <2>4, <3>2, <3>3, <3>4, QueueMaxAssumption
         DEF SocketOK, BeforeAnswer, Reading, Writing, Backlog, clientVars,
             writeVars
    <3>7. \A d \in Sids \ {c} : SocketOK(d)'
      BY <1>1, <2>4, <3>3, Untouched DEF SocketInv, clientVars, writeVars
    <3> QED
      BY <3>5, <3>6, <3>7 DEF SocketInv
  <2>6. CASE ~(Len(rest) <= ResumeAt /\ ~is_reading_[c])
    <3>1. UNCHANGED <<is_reading_, reads>>
      BY <1>1, <1>4, <2>2, <2>6 DEF RearmReading
    <3>2. SocketsTypeOK'
      BY <1>1, <1>2, <3>1 DEF SocketsTypeOK, RelayTypeOK, clientVars, writeVars
    <3>3. SocketOK(c)'
      <4>1. reads[c] \in Nat
        BY <1>2 DEF SocketsTypeOK, RelayTypeOK
      <4> QED
        BY <1>1, <1>2, <2>2, <2>3, <2>4, <3>1, <4>1, QueueMaxAssumption
           DEF SocketOK, BeforeAnswer, Reading, Writing, Backlog, clientVars,
               writeVars
    <3>4. \A d \in Sids \ {c} : SocketOK(d)'
      BY <1>1, <2>4, <3>1, Untouched DEF SocketInv, clientVars, writeVars
    <3> QED
      BY <3>2, <3>3, <3>4 DEF SocketInv
  <2> QED
    BY <2>5, <2>6
<1> QED
  BY <1>3, <1>4

\* Steps that change no socket: at most the map, the queue of frames, the
\* posted removal and the pool.
LEMMA OtherStepsKeepSockets ==
  ASSUME SocketInv,
         UNCHANGED <<stage, readVars, recvVars, writeVars, received>>,
         removing' \in [Sids -> BOOLEAN],
         pool' \in {"none", "running", "exited"}
  PROVE  SocketInv'
<1>1. SocketsTypeOK'
  BY DEF SocketInv, SocketsTypeOK, RelayTypeOK, readVars, writeVars
<1>2. \A d \in Sids : SocketOK(d)'
  BY Untouched DEF SocketInv, readVars, recvVars, writeVars
<1> QED
  BY <1>1, <1>2 DEF SocketInv

LEMMA NextKeepsSockets ==
  ASSUME QueueInv, SocketInv, [Next]_vars
  PROVE  SocketInv'
<1>1. /\ QueuesTypeOK /\ SocketsTypeOK
      /\ removing \in [Sids -> BOOLEAN] /\ pool \in {"none", "running", "exited"}
  BY DEF QueueInv, TransportInv, SocketInv, SocketsTypeOK, RelayTypeOK
<1>2. CASE HostFinishes \/ SendNext \/ PoolExits \/ UNCHANGED vars
  BY <1>1, <1>2, OtherStepsKeepSockets
     DEF HostFinishes, FinishSend, SendNext, PopFrame, PoolExits, vars,
         clientVars, recvVars
<1>3. CASE SendComplete
  BY <1>3, SendCompleteKeepsSockets
<1>4. ASSUME NEW c \in Sids, Connecting(c) PROVE SocketInv'
  BY <1>1, <1>4, ConnectingKeepsSockets
<1>5. ASSUME NEW c \in Sids, Relaying(c) PROVE SocketInv'
  <2>1. CASE RemoveSelf(c)
    BY <1>1, <2>1, OtherStepsKeepSockets DEF RemoveSelf, RemoveClient
  <2> QED
    BY <1>1, <1>5, <2>1, ReadChunkKeepsSockets, StopReadingKeepsSockets,
       ReadFailedKeepsSockets, ChunkWrittenKeepsSockets,
       WriteFailedKeepsSockets DEF Relaying
<1>6. ASSUME NEW c \in Sids, Peer(c) PROVE SocketInv'
  <2>1. CASE RecvDisconnect(c)
    BY <1>1, <2>1, OtherStepsKeepSockets DEF RecvDisconnect, RemoveClient
  <2> QED
    BY <1>6, <2>1, RecvConnectKeepsSockets, RecvDataKeepsSockets DEF Peer
<1> QED
  BY <1>2, <1>3, <1>4, <1>5, <1>6 DEF Next
-----------------------------------------------------------------------------
(* The theorems.                                                           *)

LEMMA InitIInv == Init => IInv
<1> SUFFICES ASSUME Init PROVE IInv
  OBVIOUS
<1>1. SocketsTypeOK
  BY DEF Init, InitRelay, SocketsTypeOK, RelayTypeOK, FirstChunk
<1>2. \A c \in Sids : SocketOK(c)
  <2> TAKE c \in Sids
  <2>1. /\ stage[c] = "none" /\ recv_buffers_[c] = <<>> /\ pushed[c] = 0
        /\ is_reading_[c] /\ reads[c] = 0 /\ ~stopping[c]
        /\ send_buffers_[c] = <<>> /\ writes[c] = 0
    BY DEF Init, InitRelay, InitTransport
  <2>2. Len(recv_buffers_[c]) = 0
    BY <2>1
  <2> QED
    BY <2>1, <2>2, QueueMaxAssumption
       DEF SocketOK, BeforeAnswer, Reading, Writing, Backlog
<1> QED
  BY <1>1, <1>2, InitQueues DEF IInv, SocketInv

LEMMA NextKeepsIInv == ASSUME IInv, [Next]_vars PROVE IInv'
<1>1. QueueInv /\ SocketInv /\ \A c \in Sids : BeforeAnswer(c)
  BY DEF IInv, SocketInv, SocketOK
<1> QED
  BY <1>1, NextKeepsQueues, NextKeepsSockets DEF IInv

\* The invariant the theorems rest on holds in every reachable state.
THEOREM Invariance == Spec => []IInv
<1>1. IInv /\ [Next]_vars => IInv'
  BY NextKeepsIInv
<1> QED
  BY <1>1, InitIInv, PTL DEF Spec

\* Every variable of the server keeps its type, for any number of
\* connections and any queue_max_num above 1.
THEOREM TypeCorrectness == Spec => []TypeOK
<1>1. IInv => TypeOK
  BY DEF IInv, QueueInv, TransportInv, SocketInv, TypeOK
<1> QED
  BY <1>1, Invariance, PTL

\* send_ready_'s protocol: one tuple of a client in flight, its oldest.
THEOREM OneInFlightTheorem == Spec => []OneInFlight
<1>1. IInv => OneInFlight
  BY DEF IInv, QueueInv, TransportInv, OneInFlight
<1> QED
  BY <1>1, Invariance, PTL

\* cb_send_buffer_ is called for one frame at a time, and send_complete()
\* finds the client of that frame in current_sending_user_.
THEOREM SingleSendTheorem == Spec => []SingleSend
<1>1. IInv => SingleSend
  BY DEF IInv, QueueInv, TransportInv
<1> QED
  BY <1>1, Invariance, PTL

\* read_ready_ and write_ready_: one read and one write per socket.
THEOREM SocketDisciplineTheorem == Spec => []SocketDiscipline
<1>1. IInv => SocketDiscipline
  BY DEF IInv, SocketInv, SocketOK, Reading, Writing, SocketDiscipline
<1> QED
  BY <1>1, Invariance, PTL

\* Flow control keeps the backlog of a connection within queue_max_num + 1.
THEOREM BacklogBoundedTheorem == Spec => []BacklogBounded
<1>1. ASSUME IInv PROVE BacklogBounded
  <2> SUFFICES ASSUME NEW c \in Sids
               PROVE  Len(recv_buffers_[c]) <= QueueMax + 1
    BY DEF BacklogBounded
  <2>1. reads[c] \in Nat /\ Len(recv_buffers_[c]) \in Nat /\ Backlog(c)
    BY <1>1 DEF IInv, QueueInv, TransportInv, QueuesTypeOK, SocketInv, SocketsTypeOK, RelayTypeOK, SocketOK
  <2> QED
    BY <2>1, QueueMaxAssumption DEF Backlog
<1> QED
  BY <1>1, Invariance, PTL
-----------------------------------------------------------------------------
(* The server implements FrameStream.                                      *)

\* A step of the server is a step of FrameStream or stutters.
LEMMA NextIsStep ==
  ASSUME IInv, [Next]_vars
  PROVE  (\E c \in Sids : Stream!Step(c)) \/ UNCHANGED <<pushed, out>>
<1>1. TransportInv /\ \A c \in Sids : BeforeAnswer(c)
  BY DEF IInv, QueueInv, SocketInv, SocketOK
<1>2. CASE SendNext
  BY <1>1, <1>2, PopFrameIsStep DEF SendNext
<1>3. CASE SendComplete
  <2>1. PICK c \in Sids : c = current_sending_user_
    BY <1>1 DEF TransportInv, QueuesTypeOK
  <2>2. /\ finishing = "called" /\ finishing' = "notified" /\ UNCHANGED pushed
        /\ c \in clients_map_ => PopTuple(c, TRUE)
        /\ c \notin clients_map_ => UNCHANGED implVars
    BY <1>3, <2>1 DEF SendComplete, NotifyMainSocketComplete
  <2>3. UNCHANGED out
    BY <1>1, <2>1, <2>2, PopTupleKeeps DEF implVars
  <2> QED
    BY <2>2, <2>3
<1>4. CASE HostFinishes \/ PoolExits \/ UNCHANGED vars
  BY <1>4 DEF HostFinishes, FinishSend, PoolExits, vars, recvVars, implVars
<1>5. ASSUME NEW c \in Sids, SendDisconnect(c) PROVE Stream!Step(c)
  <2>1. PushTuple(c, "tcp_disconnect", recv_buffers_[c] = <<>>)
    BY <1>5 DEF SendDisconnect
  <2> QED
    BY <1>1, <2>1, PushIsStep DEF FrameTypes
<1>6. ASSUME NEW c \in Sids, Answer(c), stage[c] # "done" PROVE Stream!Step(c)
  <2>1. PushTuple(c, "tcp_connect", TRUE) /\ recv_buffers_[c] = <<>>
    BY <1>1, <1>6 DEF Answer, BeforeAnswer
  <2> QED
    BY <1>1, <2>1, PushIsStep DEF FrameTypes
<1>7. ASSUME NEW c \in Sids, Connecting(c)
      PROVE  Stream!Step(c) \/ UNCHANGED <<pushed, out>>
  BY <1>5, <1>6, <1>7
     DEF Connecting, Resolved, ForwardRequest, ConnectFailed, TunnelConnected,
         RequestWritten, Handler, recvVars, implVars
<1>8. ASSUME NEW c \in Sids, Relaying(c)
      PROVE  Stream!Step(c) \/ UNCHANGED <<pushed, out>>
  <2>1. CASE ReadChunk(c)
    <3>1. PushTuple(c, "tcp_data", recv_buffers_[c] = <<>>)
      BY <2>1 DEF ReadChunk
    <3> QED
      BY <1>1, <3>1, PushIsStep DEF FrameTypes
  <2>2. CASE ReadFailed(c) \/ WriteFailed(c)
    BY <1>5, <2>2 DEF ReadFailed, WriteFailed
  <2>3. CASE StopReading(c) \/ ChunkWritten(c) \/ RemoveSelf(c)
    BY <2>3 DEF StopReading, ChunkWritten, RemoveSelf, RemoveClient,
                recvVars, implVars
  <2> QED
    BY <1>8, <2>1, <2>2, <2>3 DEF Relaying
<1>9. ASSUME NEW c \in Sids, Peer(c) PROVE UNCHANGED <<pushed, out>>
  BY <1>9 DEF Peer, RecvConnect, RecvData, RecvDisconnect, RemoveClient,
              recvVars, implVars
<1> QED
  BY <1>2, <1>3, <1>4, <1>7, <1>8, <1>9 DEF Next

\* The tuples of every connection reach cb_send_buffer_ in the order in which
\* they were pushed, none twice and none skipped.
THEOREM Refinement == Spec => FramesInOrder
<1>1. Init => Stream!Init
  BY InitIsInit DEF Init, InitRelay
<1>2. IInv /\ [Next]_vars => [Stream!Next]_<<pushed, Handed>>
  <2> SUFFICES ASSUME IInv, [Next]_vars
               PROVE  Stream!Next \/ UNCHANGED <<pushed, Handed>>
    OBVIOUS
  <2>1. CASE \E c \in Sids : Stream!Step(c)
    BY <2>1 DEF Stream!Next
  <2>2. CASE UNCHANGED <<pushed, out>>
    BY <2>2 DEF Handed
  <2> QED
    BY <2>1, <2>2, NextIsStep
<1> QED
  BY <1>1, <1>2, Invariance, PTL
     DEF Spec, FramesInOrder, Stream!Spec, Handed, Numbers
-----------------------------------------------------------------------------
(***************************************************************************)
(* What a connection sends and writes: its answer comes first, a closed    *)
(* connection leaves the map, and the remote host gets the peer's chunks   *)
(* in order.  All of it rests on the invariant above.                      *)
(***************************************************************************)

FirstIsConnect(c) == \A t \in Known(c) : t.n = 1 => t.type = "tcp_connect"

\* Reading was started, which happens behind the answer.
WasRead(c) == reads[c] # 0 \/ stopping[c] \/ ~is_reading_[c]

\* The answer is the first tuple, if there is one, and data follows it.
Answered(c) ==
  /\ \A t \in Known(c) : /\ t.n <= pushed[c]
                         /\ t.type = "tcp_connect" => t.n = 1
                         /\ t.type = "tcp_data" => t.n > 1 /\ FirstIsConnect(c)
  /\ WasRead(c) => pushed[c] > 0 /\ FirstIsConnect(c)

\* A client that is to send tcp_disconnect, or has sent it, is to be removed.
Closed(c) ==
  c \in clients_map_ /\ (\E t \in Known(c) : t.type = "tcp_disconnect") => removing[c]

StreamInv == \A c \in Sids : Answered(c) /\ Closed(c)

\* What on_connect() ended with was handed over or is queued, and a posted
\* removal was announced.
Told(c) ==
  /\ stage[c] = "done" => Sent(c)
  /\ removing[c] => Leaving(c)

LossInv == HeadHanded /\ \A c \in Sids : Told(c)

\* Whether the request was written before the chunks, and how many chunks were.
Base(w) == IF w # <<>> /\ w[1] = FirstChunk THEN 1 ELSE 0
Data(w) == Len(w) - Base(w)

\* What is written, is being written and waits are consecutive chunks, up to
\* the last one received while the client is in the map.
InOrder(c) ==
  /\ \A i \in DOMAIN written[c] : written[c][i] = i - Base(written[c])
  /\ \A j \in DOMAIN send_buffers_[c] : send_buffers_[c][j] = Data(written[c]) + j
  /\ c \in clients_map_ \/ stage[c] = "none" =>
       received[c] = Data(written[c]) + Len(send_buffers_[c])
  /\ stage[c] = "done" /\ writes[c] = 1 => write_buffer_[c] = send_buffers_[c][1]
  /\ stage[c] # "done" => written[c] = <<>> /\ received[c] = 0
  /\ stage[c] = "requesting" => write_buffer_[c] = Request

OrderInv == \A c \in Sids : InOrder(c)
-----------------------------------------------------------------------------
(* The answer comes first, and a closed connection is removed.             *)

\* A step that makes no tuple known, starts no reading and adds to the map
\* only clients without a tuple.
LEMMA StreamKept ==
  ASSUME StreamInv, NEW c \in Sids,
         Known(c)' \subseteq Known(c), pushed'[c] = pushed[c],
         WasRead(c)' => WasRead(c),
         c \in clients_map_' => /\ c \in clients_map_ \/ Known(c) = {}
                                /\ removing'[c] = removing[c]
  PROVE  Answered(c)' /\ Closed(c)'
<1>1. Answered(c) /\ Closed(c)
  BY DEF StreamInv
<1>2. FirstIsConnect(c) => FirstIsConnect(c)'
  BY DEF FirstIsConnect
<1>3. Answered(c)'
  BY <1>1, <1>2 DEF Answered
<1>4. Closed(c)'
  BY <1>1 DEF Closed
<1> QED
  BY <1>3, <1>4

\* A push: of the answer as the first tuple, of data when reading was
\* started, or of tcp_disconnect together with the posted removal.
LEMMA PushKeepsStream ==
  ASSUME StreamInv, QueuesTypeOK,
         NEW c \in Sids, NEW type \in FrameTypes, NEW now \in BOOLEAN,
         PushTuple(c, type, now), UNCHANGED clients_map_,
         type = "tcp_connect" => pushed[c] = 0,
         type = "tcp_data" => WasRead(c),
         WasRead(c)' => WasRead(c) \/ type = "tcp_connect",
         IF type = "tcp_disconnect" THEN removing'[c] ELSE removing'[c] = removing[c],
         \A d \in Sids \ {c} : /\ WasRead(d)' => WasRead(d)
                               /\ removing'[d] = removing[d]
  PROVE  StreamInv'
<1> DEFINE t == [type |-> type, n |-> pushed[c] + 1]
<1>1. /\ Known(c)' \subseteq Known(c) \cup {t}
      /\ pushed'[c] = pushed[c] + 1 /\ pushed[c] \in Nat
      /\ \A d \in Sids \ {c} : Known(d)' = Known(d) /\ pushed'[d] = pushed[d]
  BY PushKnown
<1>2. t.type = type /\ t.n = pushed[c] + 1
  OBVIOUS
<1> HIDE DEF t
<1>3. /\ \A u \in Known(c) : u.n \in Nat /\ u.n > 0
      /\ Answered(c) /\ Closed(c)
  BY KnownTuples DEF StreamInv
<1>4. \A u \in Known(c) : u.n <= pushed[c]
  BY <1>3 DEF Answered
<1>5. type = "tcp_connect" => FirstIsConnect(c)'
  <2>1. type = "tcp_connect" => Known(c) = {}
    BY <1>1, <1>3, <1>4
  <2> QED
    BY <1>1, <1>2, <2>1 DEF FirstIsConnect
<1>6. pushed[c] > 0 /\ FirstIsConnect(c) => FirstIsConnect(c)'
  BY <1>1, <1>2 DEF FirstIsConnect
<1>7. WasRead(c) => pushed[c] > 0 /\ FirstIsConnect(c)
  BY <1>3 DEF Answered
<1>8. ASSUME NEW u \in Known(c)'
      PROVE  /\ u.n <= pushed'[c]
             /\ u.type = "tcp_connect" => u.n = 1
             /\ u.type = "tcp_data" => u.n > 1 /\ FirstIsConnect(c)'
  <2>1. CASE u \in Known(c)
    BY <1>1, <1>3, <1>4, <1>6, <2>1 DEF Answered
  <2>2. CASE u = t
    BY <1>1, <1>2, <1>6, <1>7, <2>2
  <2> QED
    BY <1>1, <2>1, <2>2
<1>9. WasRead(c)' => pushed'[c] > 0 /\ FirstIsConnect(c)'
  BY <1>1, <1>5, <1>6, <1>7
<1>10. Answered(c)'
  BY <1>8, <1>9 DEF Answered
<1>11. Closed(c)'
  BY <1>1, <1>2, <1>3 DEF Closed
<1>12. \A d \in Sids \ {c} : Answered(d)' /\ Closed(d)'
  BY <1>1, StreamKept
<1> QED
  BY <1>10, <1>11, <1>12 DEF StreamInv

\* send_disconnect(), whatever is done to the failed operation.
LEMMA SendDisconnectKeepsStream ==
  ASSUME StreamInv, IInv, NEW c \in Sids, SendDisconnect(c),
         UNCHANGED clients_map_,
         \A d \in Sids : WasRead(d)' => WasRead(d)
  PROVE  StreamInv'
<1>1. /\ PushTuple(c, "tcp_disconnect", recv_buffers_[c] = <<>>)
      /\ removing' = [removing EXCEPT ![c] = TRUE]
  BY DEF SendDisconnect
<1>2. QueuesTypeOK /\ removing \in [Sids -> BOOLEAN]
  BY DEF IInv, QueueInv, TransportInv, SocketInv, SocketsTypeOK, RelayTypeOK
<1>3. removing'[c] /\ \A d \in Sids \ {c} : removing'[d] = removing[d]
  BY <1>1, <1>2
<1> QED
  BY <1>1, <1>2, <1>3, PushKeepsStream DEF FrameTypes

LEMMA AnswerKeepsStream ==
  ASSUME StreamInv, IInv, NEW c \in Sids, Answer(c), stage[c] # "done"
  PROVE  StreamInv'
<1>1. /\ PushTuple(c, "tcp_connect", TRUE)
      /\ reads' = [reads EXCEPT ![c] = @ + 1]
      /\ UNCHANGED <<clients_map_, removing, is_reading_, stopping>>
  BY DEF Answer, ReadSome
<1>2. /\ QueuesTypeOK /\ reads \in [Sids -> Nat] /\ BeforeAnswer(c)
  BY DEF IInv, QueueInv, TransportInv, SocketInv, SocketsTypeOK, RelayTypeOK, SocketOK
<1>3. pushed[c] = 0
  BY <1>2 DEF BeforeAnswer
<1>4. \A d \in Sids \ {c} : WasRead(d)' => WasRead(d)
  BY <1>1, <1>2 DEF WasRead
<1> QED
  BY <1>1, <1>2, <1>3, <1>4, PushKeepsStream DEF FrameTypes

\* Steps that leave the tuples alone; the map may shrink.
LEMMA OtherStepsKeepStream ==
  ASSUME StreamInv, UNCHANGED <<recv_buffers_, pushed, impl_send_buffers_, out>>,
         \A d \in Sids : WasRead(d)' => WasRead(d),
         clients_map_' \subseteq clients_map_,
         \A d \in clients_map_' \cap Sids : removing'[d] = removing[d]
  PROVE  StreamInv'
<1>1. \A d \in Sids : Known(d)' = Known(d) /\ pushed'[d] = pushed[d]
  BY DEF Known, Queued, Places
<1>2. \A d \in Sids : Answered(d)' /\ Closed(d)'
  BY <1>1, StreamKept
<1> QED
  BY <1>2 DEF StreamInv

LEMMA RecvConnectKeepsStream ==
  ASSUME StreamInv, IInv, NEW c \in Sids, RecvConnect(c)
  PROVE  StreamInv'
<1>1. /\ stage[c] = "none" /\ clients_map_' = clients_map_ \cup {c}
      /\ UNCHANGED <<removing, reads, stopping, is_reading_, recv_buffers_, pushed,
                     impl_send_buffers_, out>>
  BY DEF RecvConnect, readVars, recvVars, implVars
<1>2. QueuesTypeOK /\ BeforeAnswer(c) /\ Answered(c)
  BY DEF IInv, QueueInv, TransportInv, SocketInv, SocketOK, StreamInv
<1>3. pushed[c] = 0
  BY <1>1, <1>2 DEF BeforeAnswer
<1>4. Known(c) = {}
  BY <1>2, <1>3, KnownTuples DEF Answered
<1>5. \A d \in Sids : /\ Known(d)' = Known(d) /\ pushed'[d] = pushed[d]
                      /\ WasRead(d)' = WasRead(d)
  BY <1>1 DEF Known, Queued, Places, WasRead
<1>6. \A d \in Sids : Answered(d)' /\ Closed(d)'
  BY <1>1, <1>4, <1>5, StreamKept
<1> QED
  BY <1>6 DEF StreamInv

\* A completion pops, and re-arms reading only where it was started before.
LEMMA SendCompleteKeepsStream ==
  ASSUME StreamInv, IInv, SendComplete
  PROVE  StreamInv'
<1>1. /\ TransportInv /\ reads \in [Sids -> Nat] /\ is_reading_ \in [Sids -> BOOLEAN]
  BY DEF IInv, QueueInv, SocketInv, SocketsTypeOK, RelayTypeOK
<1>2. PICK c \in Sids : c = current_sending_user_
  BY <1>1 DEF TransportInv, QueuesTypeOK
<1>3. /\ finishing = "called" /\ finishing' = "notified" /\ UNCHANGED pushed
      /\ UNCHANGED <<clients_map_, removing, stopping>>
      /\ c \in clients_map_ => /\ PopTuple(c, TRUE)
                               /\ RearmReading(c, Len(recv_buffers_[c]) - 1)
      /\ c \notin clients_map_ =>
           UNCHANGED <<recv_buffers_, implVars, is_reading_, reads>>
  BY <1>2 DEF SendComplete, NotifyMainSocketComplete, clientVars
<1>4. CASE c \notin clients_map_
  BY <1>3, <1>4, OtherStepsKeepStream DEF implVars, WasRead
<1>5. CASE c \in clients_map_
  <2>1. \A d \in Sids : Known(d)' \subseteq Known(d)
    <3>1. QueuesTypeOK /\ recv_buffers_[c] # <<>>
      BY <1>1, <1>2, <1>3, Completion DEF TransportInv
    <3> QED
      BY <1>3, <1>5, <3>1, PopKnown
  <2>2. \/ UNCHANGED <<is_reading_, reads>>
        \/ /\ ~is_reading_[c]
           /\ is_reading_' = [is_reading_ EXCEPT ![c] = TRUE]
           /\ reads' = [reads EXCEPT ![c] = @ + 1]
    BY <1>3, <1>5 DEF RearmReading, ReadSome
  <2>3. \A d \in Sids : WasRead(d)' => WasRead(d)
    BY <1>1, <1>3, <2>2 DEF WasRead
  <2>4. \A d \in Sids : Answered(d)' /\ Closed(d)'
    BY <1>3, <2>1, <2>3, StreamKept
  <2> QED
    BY <2>4 DEF StreamInv
<1> QED
  BY <1>4, <1>5

LEMMA SendNextKeepsStream ==
  ASSUME StreamInv, IInv, SendNext
  PROVE  StreamInv'
<1>1. /\ PopFrame /\ UNCHANGED <<pushed, clients_map_, removing, reads, stopping, is_reading_>>
  BY DEF SendNext, PopFrame, recvVars, clientVars, readVars
<1>2. \A d \in Sids : Known(d)' \subseteq Known(d)
  BY <1>1, PopFrameKnown DEF IInv, QueueInv, TransportInv
<1>3. \A d \in Sids : WasRead(d)' => WasRead(d)
  BY <1>1 DEF WasRead
<1>4. \A d \in Sids : Answered(d)' /\ Closed(d)'
  BY <1>1, <1>2, <1>3, StreamKept
<1> QED
  BY <1>4 DEF StreamInv

LEMMA ConnectingKeepsStream ==
  ASSUME StreamInv, IInv, NEW c \in Sids, Connecting(c)
  PROVE  StreamInv'
<1>1. CASE Resolved(c) \/ ForwardRequest(c)
  BY <1>1, OtherStepsKeepStream
     DEF Resolved, ForwardRequest, recvVars, implVars, readVars, WasRead
<1>2. CASE ConnectFailed(c)
  BY <1>2, SendDisconnectKeepsStream DEF ConnectFailed, readVars, WasRead
<1>3. CASE TunnelConnected(c) \/ RequestWritten(c)
  BY <1>3, AnswerKeepsStream DEF TunnelConnected, RequestWritten, Handler
<1> QED
  BY <1>1, <1>2, <1>3 DEF Connecting

LEMMA RelayingKeepsStream ==
  ASSUME StreamInv, IInv, NEW c \in Sids, Relaying(c)
  PROVE  StreamInv'
<1>1. /\ QueuesTypeOK /\ reads \in [Sids -> Nat] /\ stopping \in [Sids -> BOOLEAN]
      /\ is_reading_ \in [Sids -> BOOLEAN] /\ removing \in [Sids -> BOOLEAN]
  BY DEF IInv, QueueInv, TransportInv, SocketInv, SocketsTypeOK, RelayTypeOK
<1>2. CASE ReadChunk(c)
  <2>1. /\ reads[c] > 0
        /\ PushTuple(c, "tcp_data", recv_buffers_[c] = <<>>)
        /\ UNCHANGED <<clients_map_, removing, is_reading_>>
        /\ \/ UNCHANGED <<reads, stopping>>
           \/ /\ reads' = [reads EXCEPT ![c] = @ - 1]
              /\ stopping' = [stopping EXCEPT ![c] = TRUE]
    BY <1>2 DEF ReadChunk, ReadOnUnlessFull, clientVars
  <2>2. WasRead(c) /\ \A d \in Sids \ {c} : WasRead(d)' => WasRead(d)
    BY <1>1, <2>1 DEF WasRead
  <2> QED
    BY <1>1, <2>1, <2>2, PushKeepsStream DEF FrameTypes
<1>3. CASE StopReading(c)
  <2>1. \A d \in Sids : WasRead(d)' => WasRead(d)
    BY <1>1, <1>3 DEF StopReading, ClearReading, WasRead
  <2> QED
    BY <1>3, <2>1, OtherStepsKeepStream
       DEF StopReading, clientVars, recvVars, implVars
<1>4. CASE ReadFailed(c)
  <2>1. \A d \in Sids : WasRead(d)' => WasRead(d)
    BY <1>1, <1>4 DEF ReadFailed, WasRead
  <2> QED
    BY <1>4, <2>1, SendDisconnectKeepsStream DEF ReadFailed
<1>5. CASE ChunkWritten(c)
  BY <1>5, OtherStepsKeepStream
     DEF ChunkWritten, clientVars, recvVars, implVars, readVars, WasRead
<1>6. CASE WriteFailed(c)
  BY <1>6, SendDisconnectKeepsStream DEF WriteFailed, readVars, WasRead
<1>7. CASE RemoveSelf(c)
  <2>1. /\ clients_map_' = clients_map_ \ {c}
        /\ removing' = [removing EXCEPT ![c] = FALSE]
        /\ UNCHANGED <<recv_buffers_, pushed, impl_send_buffers_, out, reads,
                       stopping, is_reading_>>
    BY <1>7 DEF RemoveSelf, RemoveClient, recvVars, implVars, readVars
  <2>2. \A d \in Sids : WasRead(d)' => WasRead(d)
    BY <2>1 DEF WasRead
  <2> QED
    BY <1>1, <2>1, <2>2, OtherStepsKeepStream
<1> QED
  BY <1>2, <1>3, <1>4, <1>5, <1>6, <1>7 DEF Relaying

LEMMA NextKeepsStream ==
  ASSUME StreamInv, IInv, [Next]_vars
  PROVE  StreamInv'
<1>1. CASE HostFinishes \/ PoolExits \/ UNCHANGED vars
  BY <1>1, OtherStepsKeepStream
     DEF HostFinishes, FinishSend, PoolExits, vars, clientVars, recvVars,
         implVars, readVars, WasRead
<1>2. ASSUME NEW c \in Sids, Peer(c) PROVE StreamInv'
  <2>1. CASE RecvData(c)
    BY <2>1, OtherStepsKeepStream
       DEF RecvData, clientVars, recvVars, implVars, readVars, WasRead
  <2>2. CASE RecvDisconnect(c)
    BY <2>2, OtherStepsKeepStream
       DEF RecvDisconnect, RemoveClient, recvVars, implVars, readVars, WasRead
  <2> QED
    BY <1>2, <2>1, <2>2, RecvConnectKeepsStream DEF Peer
<1> QED
  BY <1>1, <1>2, SendCompleteKeepsStream, SendNextKeepsStream,
     ConnectingKeepsStream, RelayingKeepsStream DEF Next

LEMMA InitStream == Init => StreamInv
<1> SUFFICES ASSUME Init PROVE StreamInv
  OBVIOUS
<1>1. \A c \in Sids : /\ recv_buffers_[c] = <<>> /\ out[c] = <<>>
                      /\ reads[c] = 0 /\ ~stopping[c] /\ is_reading_[c]
  BY DEF Init, InitRelay, InitTransport
<1>2. \A c \in Sids : Known(c) = {}
  <2>1. Elements(<<>>) = {}
    BY DEF Elements
  <2>2. \A c \in Sids : Places(c) = {}
    <3>1. impl_send_buffers_ = <<>>
      BY DEF Init, InitRelay, InitTransport
    <3>2. DOMAIN impl_send_buffers_ = {}
      BY <3>1
    <3> QED
      BY <3>2 DEF Places
  <2> QED
    BY <1>1, <2>1, <2>2 DEF Known, Queued
<1> QED
  BY <1>1, <1>2 DEF StreamInv, Answered, Closed, WasRead

\* Every tuple of a connection, waiting or handed over, keeps to the order of
\* answer, data and removal.
THEOREM StreamInvariance == Spec => []StreamInv
<1>1. StreamInv /\ IInv /\ [Next]_vars => StreamInv'
  BY NextKeepsStream
<1> QED
  BY <1>1, InitStream, Invariance, PTL DEF Spec

\* What the peer is sent for a connection is its answer and then data, or
\* nothing but tcp_disconnect: on every path of on_connect() and however
\* reading, throttling and removal meet.
THEOREM AnswerFirstTheorem == Spec => []AnswerFirst
<1>1. ASSUME StreamInv, IInv PROVE AnswerFirst
  <2> SUFFICES ASSUME NEW c \in Sids, NEW i \in DOMAIN out[c]
               PROVE  /\ out[c][i].type = "tcp_connect" => i = 1
                      /\ out[c][i].type = "tcp_data" =>
                           i > 1 /\ out[c][1].type = "tcp_connect"
    BY DEF AnswerFirst
  <2>1. /\ out[c] \in Seq(Tuples) /\ \A j \in DOMAIN out[c] : out[c][j].n = j
        /\ Answered(c)
    BY <1>1 DEF IInv, QueueInv, TransportInv, QueuesTypeOK, HandedInOrder, StreamInv
  <2>2. i \in Nat /\ 1 \in DOMAIN out[c]
    BY <2>1
  <2>3. out[c][i] \in Known(c) /\ out[c][1] \in Known(c)
    BY <2>2 DEF Known, Elements
  <2> QED
    BY <2>1, <2>2, <2>3 DEF Answered, FirstIsConnect
<1> QED
  BY <1>1, StreamInvariance, Invariance, PTL

\* A connection whose tcp_disconnect was handed over is out of the map or its
\* posted removal is still to run.
THEOREM ClosedIsRemovedTheorem == Spec => []ClosedIsRemoved
<1>1. ASSUME StreamInv, IInv PROVE ClosedIsRemoved
  <2>1. clients_map_ \subseteq Sids
    BY <1>1 DEF IInv, QueueInv
  <2> QED
    BY <1>1, <2>1 DEF ClosedIsRemoved, StreamInv, Closed, Known, Elements
<1> QED
  BY <1>1, StreamInvariance, Invariance, PTL
-----------------------------------------------------------------------------
(* Nothing a connection has to send is lost.                               *)

\* The steps that move tuples or touch none: none is lost, and no connection
\* is done or to be removed anew.
LEMMA MovesLoseNothing ==
  ASSUME LossInv, HeadHanded', \A d \in Sids : Grows(d),
         \A d \in Sids : /\ stage'[d] = "done" => stage[d] = "done"
                         /\ removing'[d] => removing[d]
  PROVE  LossInv'
BY DEF LossInv, Told, Grows, Leaving

LEMMA OtherStepsLoseNothing ==
  ASSUME LossInv, UNCHANGED <<recv_buffers_, impl_send_buffers_, out>>,
         \A d \in Sids : /\ stage'[d] = "done" => stage[d] = "done"
                         /\ removing'[d] => removing[d]
  PROVE  LossInv' /\ \A d \in Sids : Grows(d)
<1>1. \A d \in Sids : Grows(d)
  BY DEF Grows, Known, Queued, Places, Sent, Begins
<1>2. HeadHanded'
  BY DEF LossInv, HeadHanded
<1> QED
  BY <1>1, <1>2, MovesLoseNothing

\* A push, which is sent at least if nothing was sent before.
LEMMA PushLosesNothing ==
  ASSUME LossInv, IInv, NEW c \in Sids, NEW type \in FrameTypes, NEW now \in BOOLEAN,
         PushTuple(c, type, now),
         now \/ stage[c] = "done",
         removing'[c] => removing[c] \/ type = "tcp_disconnect",
         \A d \in Sids \ {c} : UNCHANGED <<stage[d], removing[d]>>
  PROVE  LossInv' /\ \A d \in Sids : Grows(d)
<1> DEFINE t == [type |-> type, n |-> pushed[c] + 1]
<1>1. QueuesTypeOK
  BY DEF IInv, QueueInv, TransportInv
<1>2. /\ \A d \in Sids : Grows(d)
      /\ t \in Known(c)'
      /\ now => Sent(c)'
  BY <1>1, PushGrows
<1>3. t.type = type
  OBVIOUS
<1> HIDE DEF t
<1>4. HeadHanded'
  BY <1>1, PushKeepsHead DEF LossInv
<1>5. Told(c)'
  <2>1. Sent(c)'
    BY <1>2 DEF LossInv, Told, Grows
  <2>2. removing'[c] => Leaving(c)'
    BY <1>2, <1>3 DEF LossInv, Told, Grows, Leaving
  <2> QED
    BY <2>1, <2>2 DEF Told
<1>6. \A d \in Sids \ {c} : Told(d)'
  BY <1>2 DEF LossInv, Told, Grows, Leaving
<1> QED
  BY <1>2, <1>4, <1>5, <1>6 DEF LossInv

LEMMA SendDisconnectLosesNothing ==
  ASSUME LossInv, IInv, NEW c \in Sids, SendDisconnect(c),
         recv_buffers_[c] = <<>> \/ stage[c] = "done",
         \A d \in Sids \ {c} : stage'[d] = stage[d]
  PROVE  LossInv' /\ \A d \in Sids : Grows(d)
<1> DEFINE now == recv_buffers_[c] = <<>>
<1>1. PushTuple(c, "tcp_disconnect", now) /\ removing' = [removing EXCEPT ![c] = TRUE]
  BY DEF SendDisconnect
<1>2. \A d \in Sids \ {c} : removing'[d] = removing[d]
  BY <1>1 DEF IInv, SocketInv, SocketsTypeOK, RelayTypeOK
<1>3. now \in BOOLEAN /\ (now \/ stage[c] = "done")
  OBVIOUS
<1> HIDE DEF now
<1> QED
  BY <1>1, <1>2, <1>3, PushLosesNothing DEF FrameTypes

LEMMA ConnectingLosesNothing ==
  ASSUME LossInv, IInv, NEW c \in Sids, Connecting(c)
  PROVE  LossInv' /\ \A d \in Sids : Grows(d)
<1>1. stage \in [Sids -> {"none", "resolving", "connecting", "requesting", "done"}]
  BY DEF IInv, SocketInv, SocketsTypeOK
<1>2. CASE Resolved(c) \/ ForwardRequest(c)
  <2>1. /\ \E s \in {"connecting", "requesting"} : stage' = [stage EXCEPT ![c] = s]
        /\ UNCHANGED <<removing, recv_buffers_, impl_send_buffers_, out>>
    BY <1>2 DEF Resolved, ForwardRequest, recvVars, implVars
  <2>2. \A d \in Sids : stage'[d] = "done" => stage[d] = "done"
    BY <1>1, <2>1
  <2> QED
    BY <2>1, <2>2, OtherStepsLoseNothing
<1>3. CASE ConnectFailed(c)
  <2>1. /\ stage[c] # "done" /\ stage' = [stage EXCEPT ![c] = "done"]
        /\ SendDisconnect(c)
    BY <1>3 DEF ConnectFailed, Handler
  <2>2. recv_buffers_[c] = <<>>
    BY <2>1 DEF IInv, SocketInv, SocketOK, BeforeAnswer
  <2> QED
    BY <1>1, <2>1, <2>2, SendDisconnectLosesNothing
<1>4. CASE TunnelConnected(c) \/ RequestWritten(c)
  <2>1. /\ stage' = [stage EXCEPT ![c] = "done"]
        /\ PushTuple(c, "tcp_connect", TRUE) /\ UNCHANGED removing
    BY <1>4 DEF TunnelConnected, RequestWritten, Answer
  <2>2. \A d \in Sids \ {c} : stage'[d] = stage[d]
    BY <1>1, <2>1
  <2> QED
    BY <2>1, <2>2, PushLosesNothing DEF FrameTypes
<1> QED
  BY <1>2, <1>3, <1>4 DEF Connecting

LEMMA RelayingLosesNothing ==
  ASSUME LossInv, IInv, NEW c \in Sids, Relaying(c)
  PROVE  LossInv' /\ \A d \in Sids : Grows(d)
<1>1. reads[c] > 0 => stage[c] = "done"
  BY DEF IInv, SocketInv, SocketOK, BeforeAnswer
<1>2. CASE ReadChunk(c)
  <2> DEFINE now == recv_buffers_[c] = <<>>
  <2>1. /\ PushTuple(c, "tcp_data", now) /\ stage[c] = "done"
        /\ UNCHANGED <<stage, removing>>
    BY <1>1, <1>2 DEF ReadChunk, clientVars
  <2>2. now \in BOOLEAN
    OBVIOUS
  <2> HIDE DEF now
  <2> QED
    BY <2>1, <2>2, PushLosesNothing DEF FrameTypes
<1>3. CASE ReadFailed(c) \/ WriteFailed(c)
  <2>1. SendDisconnect(c) /\ UNCHANGED stage /\ stage[c] = "done"
    BY <1>1, <1>3 DEF ReadFailed, WriteFailed, Handler
  <2> QED
    BY <2>1, SendDisconnectLosesNothing
<1>4. CASE StopReading(c) \/ ChunkWritten(c)
  BY <1>4, OtherStepsLoseNothing
     DEF StopReading, ChunkWritten, clientVars, recvVars, implVars
<1>5. CASE RemoveSelf(c)
  <2>1. /\ removing' = [removing EXCEPT ![c] = FALSE]
        /\ UNCHANGED <<stage, recv_buffers_, impl_send_buffers_, out>>
    BY <1>5 DEF RemoveSelf, RemoveClient, recvVars, implVars
  <2>2. \A d \in Sids : removing'[d] => removing[d]
    BY <2>1 DEF IInv, SocketInv, SocketsTypeOK, RelayTypeOK
  <2> QED
    BY <2>1, <2>2, OtherStepsLoseNothing
<1> QED
  BY <1>2, <1>3, <1>4, <1>5 DEF Relaying

LEMMA PeerLosesNothing ==
  ASSUME LossInv, IInv, NEW c \in Sids, Peer(c)
  PROVE  LossInv' /\ \A d \in Sids : Grows(d)
<1>1. CASE RecvConnect(c)
  <2>1. /\ stage' = [stage EXCEPT ![c] = "resolving"]
        /\ UNCHANGED <<removing, recv_buffers_, impl_send_buffers_, out>>
    BY <1>1 DEF RecvConnect, recvVars, implVars
  <2>2. \A d \in Sids : stage'[d] = "done" => stage[d] = "done"
    BY <2>1 DEF IInv, SocketInv, SocketsTypeOK
  <2> QED
    BY <2>1, <2>2, OtherStepsLoseNothing
<1>2. CASE RecvData(c) \/ RecvDisconnect(c)
  BY <1>2, OtherStepsLoseNothing
     DEF RecvData, RecvDisconnect, RemoveClient, clientVars, recvVars, implVars
<1> QED
  BY <1>1, <1>2 DEF Peer

LEMMA SendCompleteLosesNothing ==
  ASSUME LossInv, IInv, SendComplete
  PROVE  LossInv' /\ \A d \in Sids : Grows(d)
<1>1. TransportInv /\ QueuesTypeOK /\ SingleSend /\ FrameIsFront
  BY DEF IInv, QueueInv, TransportInv
<1>2. PICK c \in Sids : c = current_sending_user_
  BY <1>1 DEF QueuesTypeOK
<1>3. /\ finishing = "called" /\ UNCHANGED <<stage, removing>>
      /\ PopTuple(c, TRUE) \/ UNCHANGED <<recv_buffers_, implVars>>
  BY <1>2 DEF SendComplete, NotifyMainSocketComplete, clientVars
<1>4. CASE UNCHANGED <<recv_buffers_, implVars>>
  BY <1>3, <1>4, OtherStepsLoseNothing DEF implVars
<1>5. CASE PopTuple(c, TRUE)
  <2>1. \A d \in Sids : Grows(d)
    BY <1>1, <1>2, <1>3, <1>5, PopGrows
  <2>2. HeadHanded'
    <3>1. recv_buffers_[c] # <<>>
      BY <1>1, <1>2, <1>3, Completion
    <3> QED
      BY <1>1, <1>5, <3>1, PopKeepsHead DEF LossInv
  <2> QED
    BY <1>3, <2>1, <2>2, MovesLoseNothing
<1> QED
  BY <1>3, <1>4, <1>5

LEMMA NextLosesNothing ==
  ASSUME LossInv, IInv, [Next]_vars
  PROVE  LossInv' /\ \A d \in Sids : Grows(d)
<1>1. CASE HostFinishes \/ PoolExits \/ UNCHANGED vars
  BY <1>1, OtherStepsLoseNothing
     DEF HostFinishes, FinishSend, PoolExits, vars, clientVars, recvVars, implVars
<1>2. CASE SendNext
  <2>1. PopFrame /\ UNCHANGED <<stage, removing>>
    BY <1>2 DEF SendNext, clientVars
  <2>2. QueuesTypeOK /\ SingleSend /\ HeadHanded
    BY DEF IInv, QueueInv, TransportInv, LossInv
  <2>3. HeadHanded' /\ \A d \in Sids : Grows(d)
    BY <2>1, <2>2, PopFrameKnown, PopFrameGrows
  <2> QED
    BY <2>1, <2>3, MovesLoseNothing
<1> QED
  BY <1>1, <1>2, ConnectingLosesNothing, RelayingLosesNothing, PeerLosesNothing,
     SendCompleteLosesNothing DEF Next

LEMMA InitLosesNothing == Init => LossInv
BY DEF Init, InitRelay, InitTransport, LossInv, Told, HeadHanded

\* What on_connect() ended with stays with the main transport, and so does
\* the tcp_disconnect that announces a removal.
THEOREM LossInvariance == Spec => []LossInv
<1>1. LossInv /\ IInv /\ [Next]_vars => LossInv'
  BY NextLosesNothing
<1> QED
  BY <1>1, InitLosesNothing, Invariance, PTL DEF Spec

\* No step loses a tuple of a client that is in the map, whatever completes,
\* fails or is removed meanwhile: what was handed over stays as it is, and a
\* tuple that waits goes on waiting or is handed over.  (The tuples of a client
\* that has left the map are destroyed with it.)
THEOREM NothingIsLost ==
  Spec => [][\A c \in Sids : c \in clients_map_' => Grows(c)]_vars
<1>1. LossInv /\ IInv /\ [Next]_vars
       => [\A c \in Sids : c \in clients_map_' => Grows(c)]_vars
  BY NextLosesNothing
<1> QED
  BY <1>1, LossInvariance, Invariance, PTL DEF Spec
-----------------------------------------------------------------------------
(* What the peer can see of a step that is no recv().                      *)

OwnStep ==
  \/ \E c \in Sids : Connecting(c) \/ Relaying(c)
  \/ HostFinishes
  \/ SendComplete
  \/ SendNext
  \/ PoolExits

\* No connection starts, and one leaves the map only if its removal was posted.
LEMMA OwnStepEffect ==
  ASSUME IInv, OwnStep, NEW d \in Sids
  PROVE  /\ stage'[d] = "none" <=> stage[d] = "none"
         /\ d \in clients_map_' => d \in clients_map_
         /\ d \in clients_map_ => d \in clients_map_' \/ removing[d]
<1>1. stage \in [Sids -> {"none", "resolving", "connecting", "requesting", "done"}]
  BY DEF IInv, SocketInv, SocketsTypeOK
<1>2. ASSUME NEW c \in Sids, Connecting(c)
      PROVE  /\ UNCHANGED clients_map_
             /\ stage'[d] = "none" <=> stage[d] = "none"
  <2>1. /\ UNCHANGED clients_map_ /\ stage[c] # "none"
        /\ \E s \in {"connecting", "requesting", "done"} : stage' = [stage EXCEPT ![c] = s]
    BY <1>2 DEF Connecting, Resolved, TunnelConnected, ForwardRequest,
                RequestWritten, ConnectFailed, Answer, Handler
  <2> QED
    BY <1>1, <2>1
<1>3. ASSUME NEW c \in Sids, Relaying(c)
      PROVE  /\ UNCHANGED stage
             /\ \/ UNCHANGED clients_map_
                \/ clients_map_' = clients_map_ \ {c} /\ removing[c]
  BY <1>3 DEF Relaying, ReadChunk, StopReading, ReadFailed, ChunkWritten,
              WriteFailed, RemoveSelf, RemoveClient, clientVars
<1>4. CASE HostFinishes \/ SendComplete \/ SendNext \/ PoolExits
  BY <1>4 DEF HostFinishes, SendComplete, SendNext, PoolExits, clientVars
<1> QED
  BY <1>2, <1>3, <1>4 DEF OwnStep
-----------------------------------------------------------------------------
(* The remote host gets the peer's chunks in order.                        *)

\* Writing the next chunk keeps the chunks consecutive.
LEMMA AppendChunk ==
  ASSUME NEW w \in Seq(Nat), \A i \in DOMAIN w : w[i] = i - Base(w)
  PROVE  LET v == Append(w, Data(w) + 1)
         IN  /\ \A i \in DOMAIN v : v[i] = i - Base(v)
             /\ Data(v) = Data(w) + 1
             /\ Data(w) \in Nat
<1> DEFINE v == Append(w, Data(w) + 1)
<1>1. /\ Len(w) \in Nat /\ DOMAIN w = 1 .. Len(w) /\ Base(w) \in {0, 1}
      /\ Data(w) = Len(w) - Base(w) /\ Data(w) \in Nat
  BY DEF Base, Data
<1>2. /\ v \in Seq(Nat) /\ Len(v) = Len(w) + 1 /\ v # <<>> /\ DOMAIN v = 1 .. Len(w) + 1
      /\ v[Len(w) + 1] = Data(w) + 1
      /\ \A i \in 1 .. Len(w) : v[i] = w[i]
  <2>1. Data(w) + 1 \in Nat
    BY <1>1
  <2> QED
    BY <1>1, <2>1
<1> HIDE DEF v
<1>3. Base(v) = Base(w)
  <2>1. CASE w = <<>>
    <3>1. Len(w) = 0 /\ Base(w) = 0
      BY <2>1 DEF Base
    <3>2. v[1] = 1
      BY <1>1, <1>2, <3>1
    <3> QED
      BY <1>2, <3>1, <3>2 DEF Base, FirstChunk
  <2>2. CASE w # <<>>
    <3>1. 1 \in 1 .. Len(w)
      BY <1>1, <2>2
    <3>2. v[1] = w[1]
      BY <1>2, <3>1
    <3> QED
      BY <1>2, <2>2, <3>2 DEF Base
  <2> QED
    BY <2>1, <2>2
<1>4. Data(v) = Data(w) + 1
  BY <1>1, <1>2, <1>3 DEF Data
<1>5. \A i \in DOMAIN v : v[i] = i - Base(v)
  BY <1>1, <1>2, <1>3
<1> QED
  BY <1>1, <1>4, <1>5 DEF v

\* A step that leaves what c receives and writes alone; c may leave the map.
LEMMA OrderUntouched ==
  ASSUME NEW c \in Sids, InOrder(c),
         UNCHANGED <<stage[c], received[c], written[c], send_buffers_[c],
                     write_buffer_[c]>>,
         writes'[c] = 1 => writes[c] = 1,
         c \in clients_map_' => c \in clients_map_
  PROVE  InOrder(c)'
BY DEF InOrder

LEMMA OthersKeepOrder ==
  ASSUME OrderInv,
         UNCHANGED <<stage, received, written, send_buffers_, write_buffer_, writes>>,
         clients_map_' \subseteq clients_map_
  PROVE  OrderInv'
BY OrderUntouched DEF OrderInv

\* The queue and counter types the steps below rest on.
LEMMA OrderTypes ==
  ASSUME IInv
  PROVE  /\ stage \in [Sids -> {"none", "resolving", "connecting", "requesting", "done"}]
         /\ send_buffers_ \in [Sids -> Seq(Nat)] /\ write_buffer_ \in [Sids -> Nat]
         /\ writes \in [Sids -> Nat] /\ received \in [Sids -> Nat]
         /\ written \in [Sids -> Seq(Nat)]
         /\ \A c \in Sids : BeforeAnswer(c) /\ Writing(c)
BY DEF IInv, SocketInv, SocketsTypeOK, RelayTypeOK, SocketOK

LEMMA RecvConnectKeepsOrder ==
  ASSUME OrderInv, IInv, NEW c \in Sids, RecvConnect(c)
  PROVE  OrderInv'
<1>1. /\ stage[c] = "none" /\ clients_map_' = clients_map_ \cup {c}
      /\ stage' = [stage EXCEPT ![c] = "resolving"]
      /\ UNCHANGED <<received, written, send_buffers_, write_buffer_, writes>>
  BY DEF RecvConnect, writeVars
<1>2. stage'[c] = "resolving" /\ \A d \in Sids \ {c} : stage'[d] = stage[d]
  BY <1>1, OrderTypes
<1>3. InOrder(c)'
  BY <1>1, <1>2 DEF OrderInv, InOrder
<1>4. \A d \in Sids \ {c} : InOrder(d)'
  BY <1>1, <1>2, OrderUntouched DEF OrderInv
<1> QED
  BY <1>3, <1>4 DEF OrderInv

\* tcp_data comes only behind the answer, when on_connect() has ended.
LEMMA AnsweredIsDone ==
  ASSUME IInv, StreamInv, NEW c \in Sids, out[c] # <<>>
  PROVE  stage[c] = "done"
<1>1. out[c] \in Seq(Tuples) /\ QueuesTypeOK
  BY DEF IInv, QueueInv, TransportInv, QueuesTypeOK
<1>2. 1 \in DOMAIN out[c]
  BY <1>1
<1>3. out[c][1] \in Known(c)
  BY <1>2 DEF Known, Elements
<1>4. out[c][1].n \in Nat /\ out[c][1].n > 0 /\ out[c][1].n <= pushed[c]
  BY <1>1, <1>3, KnownTuples DEF StreamInv, Answered
<1>5. pushed[c] # 0
  BY <1>4
<1> QED
  BY <1>5, OrderTypes DEF BeforeAnswer

LEMMA RecvDataKeepsOrder ==
  ASSUME OrderInv, IInv, StreamInv, NEW c \in Sids, RecvData(c)
  PROVE  OrderInv'
<1> DEFINE chunk == received[c] + 1
<1>1. /\ received' = [received EXCEPT ![c] = chunk]
      /\ UNCHANGED <<clients_map_, stage, written>>
      /\ c \in clients_map_ => ClientAddSendBuffer(c, chunk, TRUE)
      /\ c \notin clients_map_ => UNCHANGED <<send_buffers_, write_buffer_, writes>>
  BY DEF RecvData, clientVars
<1>2. stage[c] = "done"
  <2>1. DOMAIN out[c] # {} /\ out[c] \in Seq(Tuples)
    BY DEF RecvData, IInv, QueueInv, TransportInv, QueuesTypeOK
  <2>2. out[c] # <<>>
    BY <2>1
  <2> QED
    BY <2>2, AnsweredIsDone
<1>3. /\ received'[c] = received[c] + 1 /\ received[c] \in Nat
      /\ \A d \in Sids \ {c} : received'[d] = received[d]
  BY <1>1, OrderTypes
<1>4. InOrder(c) /\ written[c] \in Seq(Nat) /\ send_buffers_[c] \in Seq(Nat)
  BY OrderTypes DEF OrderInv
<1>5. CASE c \notin clients_map_
  <2>1. InOrder(c)'
    BY <1>1, <1>2, <1>4, <1>5 DEF InOrder
  <2>2. \A d \in Sids \ {c} : InOrder(d)'
    BY <1>1, <1>3, <1>5, OrderUntouched DEF OrderInv
  <2> QED
    BY <2>1, <2>2 DEF OrderInv
<1>6. CASE c \in clients_map_
  <2>1. /\ send_buffers_' = [send_buffers_ EXCEPT ![c] = Append(@, chunk)]
        /\ IF send_buffers_[c] = <<>>
             THEN /\ write_buffer_' = [write_buffer_ EXCEPT ![c] = chunk]
                  /\ writes' = [writes EXCEPT ![c] = @ + 1]
             ELSE UNCHANGED <<write_buffer_, writes>>
    BY <1>1, <1>6 DEF ClientAddSendBuffer, DoWrite
  <2>2. /\ send_buffers_'[c] = Append(send_buffers_[c], chunk)
        /\ \A d \in Sids \ {c} : UNCHANGED <<send_buffers_[d], write_buffer_[d], writes[d]>>
        /\ IF send_buffers_[c] = <<>>
             THEN write_buffer_'[c] = chunk
             ELSE UNCHANGED <<write_buffer_[c], writes[c]>>
    BY <2>1, OrderTypes
  <2>3. chunk \in Nat /\ chunk = Data(written[c]) + Len(send_buffers_[c]) + 1
    BY <1>3, <1>4, <1>6 DEF InOrder
  <2> HIDE DEF chunk
  <2>4. /\ Len(send_buffers_'[c]) = Len(send_buffers_[c]) + 1
        /\ DOMAIN send_buffers_'[c] = 1 .. Len(send_buffers_[c]) + 1
        /\ send_buffers_'[c][Len(send_buffers_[c]) + 1] = chunk
        /\ \A j \in 1 .. Len(send_buffers_[c]) :
             send_buffers_'[c][j] = send_buffers_[c][j]
        /\ DOMAIN send_buffers_[c] = 1 .. Len(send_buffers_[c])
        /\ Len(send_buffers_[c]) \in Nat
        /\ send_buffers_[c] # <<>> => 1 \in 1 .. Len(send_buffers_[c])
        /\ send_buffers_[c] = <<>> => Len(send_buffers_[c]) = 0
    BY <1>4, <2>2, <2>3
  <2>5. Data(written[c]) \in Nat
    BY <1>4 DEF Data, Base
  <2>6. ASSUME NEW j \in DOMAIN send_buffers_'[c]
        PROVE  send_buffers_'[c][j] = Data(written[c]) + j
    <3>1. CASE j = Len(send_buffers_[c]) + 1
      BY <2>3, <2>4, <2>5, <3>1
    <3>2. CASE j # Len(send_buffers_[c]) + 1
      <4>1. j \in DOMAIN send_buffers_[c] /\ send_buffers_'[c][j] = send_buffers_[c][j]
        BY <2>4, <3>2
      <4> QED
        BY <1>4, <4>1 DEF InOrder
    <3> QED
      BY <3>1, <3>2
  <2>7. writes'[c] = 1 => write_buffer_'[c] = send_buffers_'[c][1]
    <3>1. CASE send_buffers_[c] = <<>>
      BY <2>2, <2>4, <3>1
    <3>2. CASE send_buffers_[c] # <<>>
      BY <1>2, <1>4, <2>2, <2>4, <3>2 DEF InOrder
    <3> QED
      BY <3>1, <3>2
  <2>8. received'[c] = Data(written[c]) + Len(send_buffers_'[c])
    BY <1>3, <1>4, <1>6, <2>4, <2>5 DEF InOrder
  <2>9. InOrder(c)'
    BY <1>1, <1>2, <1>4, <2>6, <2>7, <2>8 DEF InOrder
  <2>10. \A d \in Sids \ {c} : InOrder(d)'
    BY <1>1, <1>3, <2>2, OrderUntouched DEF OrderInv
  <2> QED
    BY <2>9, <2>10 DEF OrderInv
<1> QED
  BY <1>5, <1>6

\* on_connect() ends, or goes on to write the request.
LEMMA ConnectingKeepsOrder ==
  ASSUME OrderInv, IInv, NEW c \in Sids, Connecting(c)
  PROVE  OrderInv'
<1>1. InOrder(c) /\ BeforeAnswer(c) /\ written[c] \in Seq(Nat) /\ writes[c] \in Nat
  BY OrderTypes DEF OrderInv
<1>2. ASSUME UNCHANGED <<clients_map_, send_buffers_, received>>,
             \A d \in Sids \ {c} :
               UNCHANGED <<stage[d], written[d], write_buffer_[d], writes[d]>>
      PROVE  \A d \in Sids \ {c} : InOrder(d)'
  BY <1>2, OrderUntouched DEF OrderInv
<1>3. ASSUME stage[c] # "done", stage[c] # "none",
             stage' = [stage EXCEPT ![c] = "done"],
             writes' = [writes EXCEPT ![c] = 0],
             UNCHANGED <<clients_map_, send_buffers_, received, written, write_buffer_>>
      PROVE  OrderInv'
  <2>1. /\ stage'[c] = "done" /\ writes'[c] = 0
        /\ \A d \in Sids \ {c} : UNCHANGED <<stage[d], writes[d]>>
    BY <1>3, OrderTypes
  <2>2. InOrder(c)'
    BY <1>1, <1>3, <2>1 DEF InOrder
  <2> QED
    BY <1>2, <1>3, <2>1, <2>2 DEF OrderInv
<1>4. CASE Resolved(c)
  <2>1. /\ stage[c] = "resolving" /\ stage' = [stage EXCEPT ![c] = "connecting"]
        /\ UNCHANGED <<clients_map_, send_buffers_, received, written, write_buffer_, writes>>
    BY <1>4 DEF Resolved, Handler, writeVars
  <2>2. stage'[c] = "connecting" /\ \A d \in Sids \ {c} : stage'[d] = stage[d]
    BY <2>1, OrderTypes
  <2>3. InOrder(c)'
    BY <1>1, <2>1, <2>2 DEF InOrder
  <2> QED
    BY <1>2, <2>1, <2>2, <2>3 DEF OrderInv
<1>5. CASE ForwardRequest(c)
  <2>1. /\ stage[c] = "connecting" /\ stage' = [stage EXCEPT ![c] = "requesting"]
        /\ write_buffer_' = [write_buffer_ EXCEPT ![c] = Request]
        /\ writes' = [writes EXCEPT ![c] = @ + 1]
        /\ UNCHANGED <<clients_map_, send_buffers_, received, written>>
    BY <1>5 DEF ForwardRequest, Handler, DoWrite
  <2>2. /\ stage'[c] = "requesting" /\ write_buffer_'[c] = Request
        /\ \A d \in Sids \ {c} : UNCHANGED <<stage[d], write_buffer_[d], writes[d]>>
    BY <2>1, OrderTypes
  <2>3. InOrder(c)'
    BY <1>1, <2>1, <2>2 DEF InOrder
  <2> QED
    BY <1>2, <2>1, <2>2, <2>3 DEF OrderInv
<1>6. CASE ConnectFailed(c)
  <2>1. /\ \/ stage[c] \in {"resolving", "connecting"} /\ UNCHANGED writes
           \/ stage[c] = "requesting" /\ writes' = [writes EXCEPT ![c] = @ - 1]
        /\ stage' = [stage EXCEPT ![c] = "done"]
        /\ UNCHANGED <<clients_map_, send_buffers_, received, written, write_buffer_>>
    BY <1>6 DEF ConnectFailed, Handler
  <2>2. writes[c] = IF stage[c] = "requesting" THEN 1 ELSE 0
    BY <1>1, <2>1 DEF BeforeAnswer
  <2>3. writes' = [writes EXCEPT ![c] = 0]
    BY <2>1, <2>2, OrderTypes
  <2> QED
    BY <1>3, <2>1, <2>3
<1>7. CASE TunnelConnected(c)
  <2>1. /\ stage[c] = "connecting" /\ stage' = [stage EXCEPT ![c] = "done"]
        /\ UNCHANGED <<clients_map_, send_buffers_, received, written, write_buffer_, writes>>
    BY <1>7 DEF TunnelConnected, Answer, Handler
  <2>2. writes[c] = 0
    BY <1>1, <2>1 DEF BeforeAnswer
  <2>3. writes' = [writes EXCEPT ![c] = 0]
    BY <2>1, <2>2, OrderTypes
  <2> QED
    BY <1>3, <2>1, <2>3
<1>8. CASE RequestWritten(c)
  <2>1. /\ stage[c] = "requesting" /\ stage' = [stage EXCEPT ![c] = "done"]
        /\ writes' = [writes EXCEPT ![c] = @ - 1]
        /\ written' = [written EXCEPT ![c] = Append(@, write_buffer_[c])]
        /\ UNCHANGED <<clients_map_, send_buffers_, received, write_buffer_>>
    BY <1>8 DEF RequestWritten, Answer, Handler
  <2>2. writes[c] = 1 /\ send_buffers_[c] = <<>> /\ written[c] = <<>> /\ received[c] = 0
        /\ write_buffer_[c] = 0
    BY <1>1, <2>1 DEF BeforeAnswer, InOrder, Request, FirstChunk
  <2>3. /\ stage'[c] = "done" /\ writes'[c] = 0 /\ written'[c] = <<0>>
        /\ \A d \in Sids \ {c} : UNCHANGED <<stage[d], writes[d], written[d]>>
    BY <2>1, <2>2, OrderTypes
  <2>4. /\ Base(<<0>>) = 1 /\ Data(<<0>>) = 0
        /\ DOMAIN <<0>> = {1} /\ <<0>>[1] = 1 - 1
    BY DEF Base, Data, FirstChunk
  <2>5. Len(<<>>) = 0 /\ DOMAIN send_buffers_[c] = {}
    BY <2>2
  <2>6. InOrder(c)'
    BY <2>1, <2>2, <2>3, <2>4, <2>5 DEF InOrder
  <2> QED
    BY <1>2, <2>1, <2>3, <2>6 DEF OrderInv
<1> QED
  BY <1>4, <1>5, <1>6, <1>7, <1>8 DEF Connecting

\* The write callback: the front was written, and the next chunk is its
\* successor.
LEMMA ChunkWrittenKeepsOrder ==
  ASSUME OrderInv, IInv, NEW c \in Sids, ChunkWritten(c)
  PROVE  OrderInv'
<1> DEFINE q == send_buffers_[c]
           w == written[c]
<1>1. /\ stage[c] = "done" /\ writes[c] > 0
      /\ written' = [written EXCEPT ![c] = Append(@, write_buffer_[c])]
      /\ send_buffers_' = [send_buffers_ EXCEPT ![c] = Tail(q)]
      /\ IF Tail(q) # <<>>
           THEN /\ write_buffer_' = [write_buffer_ EXCEPT ![c] = Head(Tail(q))]
                /\ UNCHANGED writes
           ELSE /\ writes' = [writes EXCEPT ![c] = @ - 1]
                /\ UNCHANGED write_buffer_
      /\ UNCHANGED <<clients_map_, stage, received>>
  BY DEF ChunkWritten, Handler, PopAndWriteNext, clientVars
<1>2. /\ q \in Seq(Nat) /\ w \in Seq(Nat) /\ InOrder(c)
      /\ writes[c] = 1 /\ q # <<>>
  BY <1>1, OrderTypes DEF OrderInv, Writing
<1>3. /\ send_buffers_'[c] = Tail(q)
      /\ written'[c] = Append(w, write_buffer_[c])
      /\ Tail(q) # <<>> => write_buffer_'[c] = Head(Tail(q))
      /\ Tail(q) = <<>> => writes'[c] = 0
      /\ \A d \in Sids \ {c} :
           UNCHANGED <<written[d], send_buffers_[d], write_buffer_[d], writes[d]>>
  BY <1>1, <1>2, OrderTypes
<1>4. /\ Len(q) \in Nat /\ Len(q) >= 1 /\ DOMAIN q = 1 .. Len(q)
      /\ Len(Tail(q)) = Len(q) - 1 /\ DOMAIN Tail(q) = 1 .. Len(q) - 1
      /\ \A j \in 1 .. Len(q) - 1 : Tail(q)[j] = q[j + 1] /\ j + 1 \in 1 .. Len(q)
      /\ Tail(q) # <<>> => Head(Tail(q)) = Tail(q)[1]
  BY <1>2
<1>5. write_buffer_[c] = Data(w) + 1
  <2>1. write_buffer_[c] = q[1] /\ 1 \in DOMAIN q
    BY <1>1, <1>2, <1>4 DEF InOrder
  <2>2. q[1] = Data(w) + 1
    BY <1>2, <2>1 DEF InOrder
  <2> QED
    BY <2>1, <2>2
<1>6. /\ \A i \in DOMAIN written'[c] : written'[c][i] = i - Base(written'[c])
      /\ Data(written'[c]) = Data(w) + 1 /\ Data(w) \in Nat
  <2>1. \A i \in DOMAIN w : w[i] = i - Base(w)
    BY <1>2 DEF InOrder
  <2>2. written'[c] = Append(w, Data(w) + 1)
    BY <1>3, <1>5
  <2> HIDE DEF w
  <2> QED
    BY <1>2, <2>1, <2>2, AppendChunk
<1>7. \A j \in DOMAIN Tail(q) : Tail(q)[j] = Data(written'[c]) + j
  <2> SUFFICES ASSUME NEW j \in DOMAIN Tail(q)
               PROVE  Tail(q)[j] = Data(written'[c]) + j
    OBVIOUS
  <2>1. Tail(q)[j] = q[j + 1] /\ j + 1 \in DOMAIN q /\ j \in Nat
    BY <1>4
  <2>2. q[j + 1] = Data(w) + (j + 1)
    BY <1>2, <2>1 DEF InOrder
  <2> QED
    BY <1>6, <2>1, <2>2
<1>8. c \in clients_map_ => received[c] = Data(written'[c]) + Len(Tail(q))
  BY <1>2, <1>4, <1>6 DEF InOrder
<1>9. InOrder(c)'
  <2>1. stage'[c] = "done" /\ clients_map_' = clients_map_ /\ received' = received
    BY <1>1
  <2>2. writes'[c] = 1 => write_buffer_'[c] = send_buffers_'[c][1]
    BY <1>3, <1>4
  <2>3. \A j \in DOMAIN send_buffers_'[c] : send_buffers_'[c][j] = Data(written'[c]) + j
    BY <1>3, <1>7
  <2>4. c \in clients_map_ => received[c] = Data(written'[c]) + Len(send_buffers_'[c])
    BY <1>3, <1>8
  <2> HIDE DEF q, w
  <2> QED
    BY <1>6, <2>1, <2>2, <2>3, <2>4 DEF InOrder
<1>10. \A d \in Sids \ {c} : InOrder(d)'
  BY <1>1, <1>3, OrderUntouched DEF OrderInv
<1> QED
  BY <1>9, <1>10 DEF OrderInv

LEMMA NextKeepsOrder ==
  ASSUME OrderInv, IInv, StreamInv, [Next]_vars
  PROVE  OrderInv'
<1>1. CASE HostFinishes \/ SendComplete \/ SendNext \/ PoolExits \/ UNCHANGED vars
  BY <1>1, OthersKeepOrder
     DEF HostFinishes, SendComplete, SendNext, PoolExits, vars, clientVars, writeVars
<1>2. ASSUME NEW c \in Sids, Peer(c) PROVE OrderInv'
  <2>1. CASE RecvDisconnect(c)
    BY <2>1, OthersKeepOrder DEF RecvDisconnect, RemoveClient, writeVars
  <2> QED
    BY <1>2, <2>1, RecvConnectKeepsOrder, RecvDataKeepsOrder DEF Peer
<1>3. ASSUME NEW c \in Sids, Relaying(c) PROVE OrderInv'
  <2>1. CASE ReadChunk(c) \/ StopReading(c) \/ ReadFailed(c)
    BY <2>1, OthersKeepOrder
       DEF ReadChunk, StopReading, ReadFailed, clientVars, writeVars
  <2>2. CASE WriteFailed(c)
    <3>1. /\ writes' = [writes EXCEPT ![c] = @ - 1] /\ writes[c] > 0
          /\ UNCHANGED <<clients_map_, stage, send_buffers_, write_buffer_, written, received>>
      BY <2>2 DEF WriteFailed
    <3>2. writes[c] = 1
      BY <3>1, OrderTypes DEF Writing
    <3>3. \A d \in Sids : writes'[d] = 1 => writes[d] = 1
      BY <3>1, <3>2, OrderTypes
    <3> QED
      BY <3>1, <3>3, OrderUntouched DEF OrderInv
  <2>3. CASE RemoveSelf(c)
    BY <2>3, OthersKeepOrder DEF RemoveSelf, RemoveClient, writeVars
  <2> QED
    BY <1>3, <2>1, <2>2, <2>3, ChunkWrittenKeepsOrder DEF Relaying
<1> QED
  BY <1>1, <1>2, <1>3, ConnectingKeepsOrder DEF Next

LEMMA InitOrder == Init => OrderInv
<1> SUFFICES ASSUME Init PROVE OrderInv
  OBVIOUS
<1>1. \A c \in Sids : /\ written[c] = <<>> /\ send_buffers_[c] = <<>>
                      /\ received[c] = 0 /\ stage[c] = "none"
  BY DEF Init, InitRelay
<1>2. ASSUME NEW c \in Sids PROVE InOrder(c)
  <2>1. /\ written[c] = <<>> /\ DOMAIN written[c] = {} /\ Len(written[c]) = 0
        /\ DOMAIN send_buffers_[c] = {} /\ Len(send_buffers_[c]) = 0
        /\ received[c] = 0 /\ stage[c] = "none"
    BY <1>1
  <2>2. Data(written[c]) = 0
    BY <2>1 DEF Base, Data
  <2>3. received[c] = Data(written[c]) + Len(send_buffers_[c])
    BY <2>1, <2>2
  <2>4. stage[c] # "done" /\ stage[c] # "requesting"
    BY <2>1
  <2> QED
    BY <2>1, <2>3, <2>4 DEF InOrder
<1> QED
  BY <1>2 DEF OrderInv

\* What the socket of a connection is written is the request, if it was
\* forwarded, and then the peer's chunks as recv() was called: none twice,
\* none skipped, whoever starts the next write.
THEOREM WrittenInOrderTheorem == Spec => []WrittenInOrder
<1>1. OrderInv /\ StreamInv /\ IInv /\ [Next]_vars => OrderInv'
  BY NextKeepsOrder
<1>2. OrderInv => WrittenInOrder
  BY DEF OrderInv, InOrder, Base, WrittenInOrder
<1> QED
  BY <1>1, <1>2, InitOrder, StreamInvariance, Invariance, PTL DEF Spec
-----------------------------------------------------------------------------
(* The chunks of a connection.                                             *)

\* Those that wait for its socket or were written to it.
Chunks(c) == Elements(send_buffers_[c]) \cup Elements(written[c])

\* A step of the manager itself makes no chunk but the request, and writes
\* those it has.
LEMMA OwnStepChunks ==
  ASSUME IInv, OrderInv, OwnStep, NEW d \in Sids
  PROVE  UNCHANGED received /\ Chunks(d)' \subseteq Chunks(d) \cup {FirstChunk}
<1>1. /\ send_buffers_[d] \in Seq(Nat) /\ written[d] \in Seq(Nat)
      /\ written \in [Sids -> Seq(Nat)] /\ send_buffers_ \in [Sids -> Seq(Nat)]
  BY OrderTypes
<1>2. ASSUME NEW c \in Sids, RequestWritten(c)
      PROVE  UNCHANGED received /\ Chunks(d)' \subseteq Chunks(d) \cup {FirstChunk}
  <2>1. /\ stage[c] = "requesting" /\ UNCHANGED <<received, send_buffers_>>
        /\ written' = [written EXCEPT ![c] = Append(@, write_buffer_[c])]
    BY <1>2 DEF RequestWritten, Answer, Handler
  <2>2. write_buffer_[c] = FirstChunk /\ FirstChunk \in Nat
    BY <2>1 DEF OrderInv, InOrder, Request, FirstChunk
  <2>3. written'[d] = written[d] \/ written'[d] = Append(written[d], FirstChunk)
    BY <1>1, <2>1, <2>2
  <2>4. Elements(written'[d]) \subseteq Elements(written[d]) \cup {FirstChunk}
    BY <1>1, <2>2, <2>3, AppendElements
  <2> QED
    BY <2>1, <2>4 DEF Chunks
<1>3. ASSUME NEW c \in Sids, ChunkWritten(c)
      PROVE  UNCHANGED received /\ Chunks(d)' \subseteq Chunks(d)
  <2>1. /\ stage[c] = "done" /\ writes[c] > 0 /\ UNCHANGED received
        /\ written' = [written EXCEPT ![c] = Append(@, write_buffer_[c])]
        /\ send_buffers_' = [send_buffers_ EXCEPT ![c] = Tail(send_buffers_[c])]
    BY <1>3 DEF ChunkWritten, Handler, PopAndWriteNext
  <2>2. CASE d # c
    <3>1. written'[d] = written[d] /\ send_buffers_'[d] = send_buffers_[d]
      BY <1>1, <2>1, <2>2
    <3> QED
      BY <2>1, <3>1 DEF Chunks
  <2>3. CASE d = c
    <3>1. send_buffers_[d] # <<>> /\ write_buffer_[d] = send_buffers_[d][1]
      BY <2>1, <2>3, OrderTypes DEF Writing, OrderInv, InOrder
    <3>2. /\ Elements(Tail(send_buffers_[d])) \subseteq Elements(send_buffers_[d])
          /\ Head(send_buffers_[d]) \in Elements(send_buffers_[d])
      BY <1>1, <3>1, TailElements
    <3>3. /\ Head(send_buffers_[d]) = send_buffers_[d][1]
          /\ send_buffers_[d][1] \in Nat
      BY <1>1, <3>1
    <3>4. /\ written'[d] = Append(written[d], write_buffer_[d])
          /\ send_buffers_'[d] = Tail(send_buffers_[d])
      BY <1>1, <2>1, <2>3
    <3>5. Elements(written'[d]) \subseteq Elements(written[d]) \cup {write_buffer_[d]}
      BY <1>1, <3>1, <3>3, <3>4, AppendElements
    <3> QED
      BY <2>1, <3>1, <3>2, <3>3, <3>4, <3>5 DEF Chunks
  <2> QED
    BY <2>2, <2>3
<1>4. ASSUME UNCHANGED <<received, send_buffers_, written>>
      PROVE  UNCHANGED received /\ Chunks(d)' \subseteq Chunks(d)
  BY <1>4 DEF Chunks
<1>5. ASSUME NEW c \in Sids, Connecting(c) PROVE
        RequestWritten(c) \/ UNCHANGED <<received, send_buffers_, written>>
  BY <1>5 DEF Connecting, Resolved, TunnelConnected, ForwardRequest, ConnectFailed,
              Answer, writeVars
<1>6. ASSUME NEW c \in Sids, Relaying(c) PROVE
        ChunkWritten(c) \/ UNCHANGED <<received, send_buffers_, written>>
  BY <1>6 DEF Relaying, ReadChunk, StopReading, ReadFailed, WriteFailed, RemoveSelf,
              RemoveClient, writeVars
<1>7. CASE HostFinishes \/ SendComplete \/ SendNext \/ PoolExits
  <2>1. UNCHANGED <<received, send_buffers_, written>>
    BY <1>7 DEF HostFinishes, SendComplete, SendNext, PoolExits, writeVars
  <2> QED
    BY <1>4, <2>1
<1> QED
  BY <1>2, <1>3, <1>4, <1>5, <1>6, <1>7 DEF OwnStep

\* recv() adds the chunk of tcp_data if the id is in the map.
LEMMA RecvChunks ==
  ASSUME IInv, NEW c \in Sids, NEW d \in Sids
  PROVE  /\ RecvConnect(c) \/ RecvDisconnect(c) =>
              UNCHANGED <<received, written>> /\ Chunks(d)' = Chunks(d)
         /\ RecvData(c) =>
              /\ received' = [received EXCEPT ![c] = @ + 1]
              /\ UNCHANGED <<clients_map_, written>>
              /\ Chunks(d)' \subseteq
                   Chunks(d) \cup {k \in {received[c] + 1} : d = c /\ c \in clients_map_}
<1>1. send_buffers_ \in [Sids -> Seq(Nat)] /\ received[c] + 1 \in Nat
  BY OrderTypes
<1>2. ASSUME RecvConnect(c) \/ RecvDisconnect(c)
      PROVE  UNCHANGED <<received, written>> /\ Chunks(d)' = Chunks(d)
  BY <1>2 DEF RecvConnect, RecvDisconnect, RemoveClient, writeVars, Chunks
<1>3. ASSUME RecvData(c)
      PROVE  /\ received' = [received EXCEPT ![c] = @ + 1]
             /\ UNCHANGED <<clients_map_, written>>
             /\ Chunks(d)' \subseteq
                  Chunks(d) \cup {k \in {received[c] + 1} : d = c /\ c \in clients_map_}
  <2>1. /\ received' = [received EXCEPT ![c] = @ + 1]
        /\ UNCHANGED <<clients_map_, written>>
        /\ \/ UNCHANGED send_buffers_
           \/ /\ c \in clients_map_
              /\ send_buffers_' = [send_buffers_ EXCEPT ![c] = Append(@, received[c] + 1)]
    BY <1>3 DEF RecvData, ClientAddSendBuffer, clientVars
  <2>2. \/ send_buffers_'[d] = send_buffers_[d]
        \/ /\ d = c /\ c \in clients_map_
           /\ send_buffers_'[d] = Append(send_buffers_[d], received[c] + 1)
    BY <1>1, <2>1
  <2>3. Elements(Append(send_buffers_[d], received[c] + 1)) \subseteq
          Elements(send_buffers_[d]) \cup {received[c] + 1}
    BY <1>1, AppendElements
  <2> QED
    BY <2>1, <2>2, <2>3 DEF Chunks
<1> QED
  BY <1>2, <1>3

\* A step writes one chunk at most.
LEMMA NextWrites ==
  ASSUME IInv, [Next]_vars
  PROVE  \/ UNCHANGED written
         \/ \E c \in Sids, k \in Nat : written' = [written EXCEPT ![c] = Append(@, k)]
<1>1. ASSUME NEW c \in Sids, RequestWritten(c) \/ ChunkWritten(c)
      PROVE  \E k \in Nat : written' = [written EXCEPT ![c] = Append(@, k)]
  <2>1. write_buffer_[c] \in Nat
    BY OrderTypes
  <2>2. written' = [written EXCEPT ![c] = Append(@, write_buffer_[c])]
    BY <1>1 DEF RequestWritten, ChunkWritten
  <2> QED
    BY <2>1, <2>2
<1>2. ASSUME NEW c \in Sids, Connecting(c) PROVE RequestWritten(c) \/ UNCHANGED written
  BY <1>2 DEF Connecting, Resolved, TunnelConnected, ForwardRequest, ConnectFailed,
              writeVars
<1>3. ASSUME NEW c \in Sids, Relaying(c) PROVE ChunkWritten(c) \/ UNCHANGED written
  BY <1>3 DEF Relaying, ReadChunk, StopReading, ReadFailed, WriteFailed, RemoveSelf,
              RemoveClient, writeVars
<1>4. ASSUME NEW c \in Sids, Peer(c) PROVE UNCHANGED written
  BY <1>4 DEF Peer, RecvConnect, RecvData, RecvDisconnect, RemoveClient, writeVars
<1>5. CASE HostFinishes \/ SendComplete \/ SendNext \/ PoolExits \/ UNCHANGED vars
  BY <1>5 DEF HostFinishes, SendComplete, SendNext, PoolExits, vars, writeVars
<1> QED
  BY <1>1, <1>2, <1>3, <1>4, <1>5 DEF Next

\* A step pushes one tuple at most.
LEMMA NextPushes ==
  ASSUME IInv, [Next]_vars
  PROVE  UNCHANGED pushed \/ \E c \in Sids : pushed' = [pushed EXCEPT ![c] = @ + 1]
BY NextIsStep DEF Stream!Step, Stream!Produce
=============================================================================
