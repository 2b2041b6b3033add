------------------------- MODULE ClientManagerProofs -------------------------
(***************************************************************************)
(* Theorems about ClientManager that hold whatever may meet a recv()       *)
(* inside set_connected(): for all values of ReadRaces, CloseRaces and     *)
(* LateCompletion.  SocketInv relates the progress of a connection, the    *)
(* operations outstanding on its socket and the buffers they use.          *)
(***************************************************************************)
EXTENDS ClientManager, MainTransportProofs

\* Until its header was sent to the peer a connection has no tuple, and only
\* the read of the header or the write of the PAC file is outstanding.
BeforeRequest(c) == stage[c] # "relaying" =>
  /\ recv_buffers_[c] = <<>> /\ pushed[c] = 0 /\ Known(c) = {}
  /\ is_reading_[c] /\ ~stopping[c]
  /\ send_buffers_[c] = <<>>
  /\ reads[c] = IF stage[c] = "heading" THEN 1 ELSE 0
  /\ writes[c] = IF stage[c] = "pac" THEN 1 ELSE 0
  /\ answer[c] = "no"

\* Until recv() of the answer has ended there is nothing to write.
BeforeAnswer(c) == answer[c] # "yes" => send_buffers_[c] = <<>>

\* The flag is that of the answer, for a client that is in the map.
Connected(c) ==
  /\ answer[c] = "setting" => c \in clients_map_
  /\ c \in clients_map_ /\ answer[c] # "no" => is_connected_[c]
  /\ is_connected_[c] => answer[c] # "no"

\* is_reading_ is set while a read is outstanding or about to be given up.
Reading(c) ==
  /\ reads[c] <= 1
  /\ reads[c] = 1 => is_reading_[c] /\ ~stopping[c]
  /\ stopping[c] => is_reading_[c]

\* A write of a relaying connection is that of the chunk at the front.
Writing(c) ==
  /\ writes[c] <= 1
  /\ writes[c] = 1 /\ stage[c] = "relaying" => send_buffers_[c] # <<>>

\* A read is outstanding only below queue_max_num, but for the
\* tcp_disconnect of a failed write, which leaves its chunk in the queue.
Backlog(c) ==
  Len(recv_buffers_[c]) <=
    QueueMax - reads[c]
      + (IF writes[c] = 0 /\ send_buffers_[c] # <<>> THEN 1 ELSE 0)

SocketOK(c) ==
  /\ BeforeRequest(c) /\ BeforeAnswer(c) /\ Connected(c)
  /\ Reading(c) /\ Writing(c) /\ Backlog(c)

SocketInv == \A c \in Sids : SocketOK(c)

\* TypeOK without the queues of the main transport.
ClientTypeOK ==
  /\ RelayTypeOK
  /\ clients_map_ \subseteq Sids
  /\ stage \in [Sids -> {"none", "heading", "pac", "relaying", "closed"}]
  /\ is_connected_ \in [Sids -> BOOLEAN]
  /\ answer \in [Sids -> {"no", "setting", "yes"}]
  /\ accepting \in BOOLEAN
  /\ pool \in {"running", "exited"}
  /\ corrupted \in BOOLEAN

IInv == QueuesTypeOK /\ SingleSend /\ ClientTypeOK /\ SocketInv
-----------------------------------------------------------------------------
(* The queues of the main transport.                                       *)

\* Every step keeps their types, and one send at a time.
LEMMA NextKeepsSingle ==
  ASSUME IInv, [Next]_vars
  PROVE  QueuesTypeOK' /\ SingleSend'
<1>1. /\ QueuesTypeOK /\ SingleSend /\ ClientTypeOK
      /\ \A c \in Sids : is_connected_[c] \in BOOLEAN
  BY DEF IInv, ClientTypeOK
<1>2. ASSUME UNCHANGED <<recvVars, implVars, finishing>>
      PROVE  QueuesTypeOK' /\ SingleSend'
  BY <1>1, <1>2 DEF QueuesTypeOK, SingleSend, recvVars, implVars
<1>3. ASSUME NEW c \in Sids, NEW now \in BOOLEAN, UNCHANGED finishing,
             \E type \in FrameTypes : PushTuple(c, type, now)
      PROVE  QueuesTypeOK' /\ SingleSend'
  BY <1>1, <1>3, PushKeepsSingle
<1>4. ASSUME NEW c \in Sids, SendDisconnect(c), UNCHANGED finishing
      PROVE  QueuesTypeOK' /\ SingleSend'
  <2>1. PushTuple(c, "tcp_disconnect", recv_buffers_[c] = <<>>)
    BY <1>4 DEF SendDisconnect
  <2> QED
    BY <1>3, <1>4, <2>1 DEF FrameTypes
<1>5. CASE HostFinishes \/ SendNext
  BY <1>1, <1>5, FrameStepsKeepSingle DEF HostFinishes, SendNext
<1>6. CASE SendComplete
  <2>1. PICK c \in Sids : c = current_sending_user_
    BY <1>1 DEF QueuesTypeOK
  <2>2. /\ finishing = "called" /\ UNCHANGED pushed
        /\ \/ /\ recv_buffers_[c] # <<>> /\ PopTuple(c, is_connected_[c])
              /\ finishing' = "notified"
           \/ finishing' = "notified" /\ UNCHANGED <<recv_buffers_, implVars>>
           \/ UNCHANGED <<finishing, recv_buffers_, implVars>>
    BY <1>6, <2>1 DEF SendComplete, NotifyMainSocketComplete
  <2>3. CASE /\ recv_buffers_[c] # <<>> /\ PopTuple(c, is_connected_[c])
             /\ finishing' = "notified"
    BY <1>1, <2>2, <2>3, PopKeepsSingle
  <2>4. CASE finishing' = "notified" /\ UNCHANGED <<recv_buffers_, implVars>>
    BY <1>1, <2>2, <2>4 DEF QueuesTypeOK, SingleSend, implVars
  <2>5. CASE UNCHANGED <<finishing, recv_buffers_, implVars>>
    BY <1>2, <2>2, <2>5 DEF recvVars
  <2> QED
    BY <2>2, <2>3, <2>4, <2>5
<1>7. CASE AcceptFailed \/ PoolExits \/ UNCHANGED vars
  BY <1>2, <1>7 DEF AcceptFailed, PoolExits, vars
<1>8. ASSUME NEW c \in Sids, Accept(c) \/ Requesting(c)
      PROVE  QueuesTypeOK' /\ SingleSend'
  <2>1. CASE ConnectRequest(c)
    <3>1. PushTuple(c, "tcp_connect", TRUE) /\ UNCHANGED finishing
      BY <2>1 DEF ConnectRequest
    <3> QED
      BY <1>3, <3>1 DEF FrameTypes
  <2>2. CASE Accept(c) \/ HeaderFailed(c) \/ PacRequest(c) \/ PacWritten(c)
    BY <1>2, <2>2
       DEF Accept, HeaderFailed, PacRequest, PacWritten, RemoveClient
  <2> QED
    BY <1>8, <2>1, <2>2 DEF Requesting
<1>9. ASSUME NEW c \in Sids, Relaying(c)
      PROVE  QueuesTypeOK' /\ SingleSend'
  <2>1. CASE ReadChunk(c)
    <3>1. /\ PushTuple(c, "tcp_data", recv_buffers_[c] = <<>> /\ is_connected_[c])
          /\ UNCHANGED finishing
      BY <2>1 DEF ReadChunk
    <3>2. (recv_buffers_[c] = <<>> /\ is_connected_[c]) \in BOOLEAN
      OBVIOUS
    <3> QED
      BY <1>3, <3>1, <3>2 DEF FrameTypes
  <2>2. CASE ReadFailed(c) \/ WriteFailed(c)
    BY <1>4, <2>2 DEF ReadFailed, WriteFailed
  <2>3. CASE StopReading(c) \/ ChunkWritten(c) \/ RemoveSelf(c)
    BY <1>2, <2>3 DEF StopReading, ChunkWritten, RemoveSelf, RemoveClient
  <2> QED
    BY <1>9, <2>1, <2>2, <2>3 DEF Relaying
<1>10. ASSUME NEW c \in Sids, Peer(c)
       PROVE  QueuesTypeOK' /\ SingleSend'
  <2>1. CASE SetConnected(c)
    <3>1. UNCHANGED <<recvVars, finishing>>
      BY <2>1 DEF SetConnected
    <3>2. CASE recv_buffers_[c] = <<>>
      BY <1>2, <2>1, <3>1, <3>2 DEF SetConnected
    <3>3. CASE recv_buffers_[c] # <<>>
      <4>1. recv_buffers_[c] \in Seq(Tuples)
        BY <1>1 DEF QueuesTypeOK
      <4>2. PICK t \in Tuples : t = Head(recv_buffers_[c])
        BY <3>3, <4>1
      <4>3. SendToMainSocket(c, t)
        BY <2>1, <3>3, <4>2 DEF SetConnected
      <4> QED
        BY <1>1, <3>1, <4>3, SendKeepsSingle DEF QueuesTypeOK, recvVars
    <3> QED
      BY <3>2, <3>3
  <2>2. CASE RecvAnswer(c) \/ RecvData(c) \/ RecvDisconnect(c)
    BY <1>2, <2>2 DEF RecvAnswer, RecvData, RecvDisconnect, RemoveClient
  <2> QED
    BY <1>10, <2>1, <2>2 DEF Peer
<1> QED
  BY <1>5, <1>6, <1>7, <1>8, <1>9, <1>10 DEF Next
-----------------------------------------------------------------------------
(* The sockets.                                                            *)

\* A client none of whose variables changes keeps its invariant.
LEMMA Untouched ==
  ASSUME NEW c \in Sids, SocketOK(c),
         UNCHANGED <<stage[c], is_connected_[c], answer[c], recv_buffers_[c],
                     pushed[c], is_reading_[c], reads[c], stopping[c],
                     send_buffers_[c], writes[c]>>,
         Known(c)' \subseteq Known(c),
         c \in clients_map_' => c \in clients_map_,
         answer[c] = "setting" /\ c \in clients_map_ => c \in clients_map_'
  PROVE  SocketOK(c)'
BY DEF SocketOK, BeforeRequest, BeforeAnswer, Connected, Reading, Writing, Backlog

\* Steps that change no socket: at most the queue of frames, the posted
\* removals, the pool, and entries that leave the map while it is free.
LEMMA OtherStepsKeepSockets ==
  ASSUME ClientTypeOK, SocketInv,
         UNCHANGED <<stage, is_connected_, answer, readVars, recvVars,
                     writeVars, received>>,
         \A d \in Sids : Known(d)' \subseteq Known(d),
         clients_map_' \subseteq clients_map_,
         \A d \in Sids : answer[d] = "setting" /\ d \in clients_map_ => d \in clients_map_',
         removing' \in [Sids -> BOOLEAN],
         accepting' \in BOOLEAN, corrupted' \in BOOLEAN,
         pool' \in {"running", "exited"}
  PROVE  ClientTypeOK' /\ SocketInv'
<1>1. ClientTypeOK'
  BY DEF ClientTypeOK, RelayTypeOK, readVars, writeVars
<1>2. \A d \in Sids : SocketOK(d)'
  BY Untouched DEF SocketInv, readVars, recvVars, writeVars
<1> QED
  BY <1>1, <1>2 DEF SocketInv

\* A step that leaves the queues alone leaves every tuple where it is.
LEMMA KnownUntouched ==
  ASSUME UNCHANGED <<recvVars, implVars>>
  PROVE  \A d \in Sids : /\ Known(d)' = Known(d) /\ Queued(d)' = Queued(d)
                         /\ out'[d] = out[d]
BY DEF Known, Queued, Places, recvVars, implVars

\* A connection of which something was handed over is relaying.
LEMMA HandedIsRelaying ==
  ASSUME IInv, NEW c \in Sids, out[c] # <<>>
  PROVE  stage[c] = "relaying"
<1>1. out[c] \in Seq(Tuples) /\ BeforeRequest(c)
  BY DEF IInv, QueuesTypeOK, SocketInv, SocketOK
<1>2. 1 \in DOMAIN out[c]
  BY <1>1
<1>3. out[c][1] \in Known(c)
  BY <1>2 DEF Known, Elements
<1> QED
  BY <1>1, <1>3 DEF BeforeRequest

LEMMA AnsweredIsRelaying ==
  ASSUME IInv, NEW c \in Sids, answer[c] # "no"
  PROVE  stage[c] = "relaying"
BY DEF IInv, SocketInv, SocketOK, BeforeRequest

\* A browser connects, and its header is read.
LEMMA AcceptKeepsSockets ==
  ASSUME IInv, NEW c \in Sids, Accept(c)
  PROVE  ClientTypeOK' /\ SocketInv'
<1>1. /\ stage[c] = "none"
      /\ clients_map_' = clients_map_ \cup {c}
      /\ stage' = [stage EXCEPT ![c] = "heading"]
      /\ reads' = [reads EXCEPT ![c] = @ + 1]
      /\ UNCHANGED <<removing, is_connected_, answer, is_reading_, stopping,
                     recvVars, writeVars, implVars, poolVars, received>>
  BY DEF Accept, ReadSome
<1>2. /\ ClientTypeOK /\ SocketOK(c) /\ \A d \in Sids \ {c} : SocketOK(d)
      /\ recv_buffers_[c] = <<>> => Len(recv_buffers_[c]) = 0
  BY DEF IInv, SocketInv
<1>3. \A d \in Sids : Known(d)' = Known(d)
  BY <1>1, KnownUntouched
<1>4. /\ stage' \in [Sids -> {"none", "heading", "pac", "relaying", "closed"}]
      /\ stage'[c] = "heading" /\ \A d \in Sids \ {c} : stage'[d] = stage[d]
      /\ reads' \in [Sids -> Nat] /\ reads'[c] = 1 /\ reads[c] = 0
      /\ \A d \in Sids \ {c} : reads'[d] = reads[d]
  BY <1>1, <1>2 DEF ClientTypeOK, RelayTypeOK, SocketOK, BeforeRequest
<1>5. ClientTypeOK'
  BY <1>1, <1>2, <1>4 DEF ClientTypeOK, RelayTypeOK, writeVars, poolVars
<1>6. SocketOK(c)'
  BY <1>1, <1>2, <1>3, <1>4, QueueMaxAssumption
     DEF SocketOK, BeforeRequest, BeforeAnswer, Connected, Reading, Writing,
         Backlog, recvVars, writeVars
<1>7. \A d \in Sids \ {c} : SocketOK(d)'
  BY <1>1, <1>2, <1>3, <1>4, Untouched DEF recvVars, writeVars
<1> QED
  BY <1>5, <1>6, <1>7 DEF SocketInv

\* The connection closes before it relays.
LEMMA CloseKeepsSockets ==
  ASSUME IInv, NEW c \in Sids, HeaderFailed(c) \/ PacWritten(c)
  PROVE  ClientTypeOK' /\ SocketInv'
<1>1. /\ \/ /\ stage[c] = "heading" /\ reads' = [reads EXCEPT ![c] = @ - 1]
            /\ UNCHANGED writes
         \/ /\ stage[c] = "pac" /\ writes' = [writes EXCEPT ![c] = @ - 1]
            /\ UNCHANGED reads
      /\ stage' = [stage EXCEPT ![c] = "closed"]
      /\ clients_map_' = clients_map_ \ {c}
      /\ UNCHANGED <<is_connected_, answer, is_reading_, stopping, recvVars,
                     send_buffers_, write_buffer_, written, implVars, removing,
                     poolVars, received>>
  BY DEF HeaderFailed, PacWritten, RemoveClient, Handler
<1>2. /\ ClientTypeOK /\ SocketOK(c) /\ \A d \in Sids \ {c} : SocketOK(d)
      /\ recv_buffers_[c] = <<>> => Len(recv_buffers_[c]) = 0
  BY DEF IInv, SocketInv
<1>3. \A d \in Sids : Known(d)' = Known(d)
  BY <1>1, KnownUntouched
<1>4. /\ reads[c] = IF stage[c] = "heading" THEN 1 ELSE 0
      /\ writes[c] = IF stage[c] = "pac" THEN 1 ELSE 0
      /\ reads \in [Sids -> Nat] /\ writes \in [Sids -> Nat]
  BY <1>1, <1>2 DEF SocketOK, BeforeRequest, ClientTypeOK, RelayTypeOK
<1>5. /\ stage' \in [Sids -> {"none", "heading", "pac", "relaying", "closed"}]
      /\ stage'[c] = "closed" /\ \A d \in Sids \ {c} : stage'[d] = stage[d]
      /\ reads' \in [Sids -> Nat] /\ reads'[c] = 0
      /\ writes' \in [Sids -> Nat] /\ writes'[c] = 0
      /\ \A d \in Sids \ {c} : UNCHANGED <<reads[d], writes[d]>>
  <2>1. /\ stage' \in [Sids -> {"none", "heading", "pac", "relaying", "closed"}]
        /\ stage'[c] = "closed" /\ \A d \in Sids \ {c} : stage'[d] = stage[d]
    BY <1>1, <1>2 DEF ClientTypeOK
  <2>2. CASE stage[c] = "heading"
    <3>1. reads' = [reads EXCEPT ![c] = @ - 1] /\ UNCHANGED writes
      BY <1>1, <2>2
    <3> QED
      BY <1>4, <2>1, <2>2, <3>1
  <2>3. CASE stage[c] = "pac"
    <3>1. writes' = [writes EXCEPT ![c] = @ - 1] /\ UNCHANGED reads
      BY <1>1, <2>3
    <3> QED
      BY <1>4, <2>1, <2>3, <3>1
  <2> QED
    BY <1>1, <2>2, <2>3
<1>6. ClientTypeOK'
  BY <1>1, <1>2, <1>5 DEF ClientTypeOK, RelayTypeOK, poolVars
<1>7. SocketOK(c)'
  BY <1>1, <1>2, <1>3, <1>5, QueueMaxAssumption
     DEF SocketOK, BeforeRequest, BeforeAnswer, Connected, Reading, Writing,
         Backlog, recvVars
<1>8. \A d \in Sids \ {c} : SocketOK(d)'
  BY <1>1, <1>2, <1>3, <1>5, Untouched DEF recvVars
<1> QED
  BY <1>6, <1>7, <1>8 DEF SocketInv

LEMMA PacRequestKeepsSockets ==
  ASSUME IInv, NEW c \in Sids, PacRequest(c)
  PROVE  ClientTypeOK' /\ SocketInv'
<1>1. /\ stage[c] = "heading"
      /\ stage' = [stage EXCEPT ![c] = "pac"]
      /\ reads' = [reads EXCEPT ![c] = @ - 1]
      /\ write_buffer_' = [write_buffer_ EXCEPT ![c] = FirstChunk]
      /\ writes' = [writes EXCEPT ![c] = @ + 1]
      /\ UNCHANGED <<clients_map_, removing, is_connected_, answer, is_reading_,
                     stopping, recvVars, send_buffers_, written, implVars,
                     poolVars, received>>
  BY DEF PacRequest, DoWrite, Handler
<1>2. /\ ClientTypeOK /\ SocketOK(c) /\ \A d \in Sids \ {c} : SocketOK(d)
      /\ recv_buffers_[c] = <<>> => Len(recv_buffers_[c]) = 0
  BY DEF IInv, SocketInv
<1>3. \A d \in Sids : Known(d)' = Known(d)
  BY <1>1, KnownUntouched
<1>4. reads[c] = 1 /\ writes[c] = 0
  BY <1>1, <1>2 DEF SocketOK, BeforeRequest
<1>5. /\ stage' \in [Sids -> {"none", "heading", "pac", "relaying", "closed"}]
      /\ stage'[c] = "pac" /\ \A d \in Sids \ {c} : stage'[d] = stage[d]
      /\ reads' \in [Sids -> Nat] /\ reads'[c] = 0
      /\ writes' \in [Sids -> Nat] /\ writes'[c] = 1
      /\ \A d \in Sids \ {c} : UNCHANGED <<reads[d], writes[d]>>
      /\ write_buffer_' \in [Sids -> Nat]
  BY <1>1, <1>2, <1>4 DEF ClientTypeOK, RelayTypeOK, FirstChunk
<1>6. ClientTypeOK'
  BY <1>1, <1>2, <1>5 DEF ClientTypeOK, RelayTypeOK, poolVars
<1>7. SocketOK(c)'
  BY <1>1, <1>2, <1>3, <1>5, QueueMaxAssumption
     DEF SocketOK, BeforeRequest, BeforeAnswer, Connected, Reading, Writing,
         Backlog, recvVars
<1>8. \A d \in Sids \ {c} : SocketOK(d)'
  BY <1>1, <1>2, <1>3, <1>5, Untouched DEF recvVars
<1> QED
  BY <1>6, <1>7, <1>8 DEF SocketInv

\* The request is pushed and sent, and the read of the header becomes one of
\* the body.
LEMMA ConnectRequestKeepsSockets ==
  ASSUME IInv, NEW c \in Sids, ConnectRequest(c)
  PROVE  ClientTypeOK' /\ SocketInv'
<1>1. /\ stage[c] = "heading"
      /\ stage' = [stage EXCEPT ![c] = "relaying"]
      /\ PushTuple(c, "tcp_connect", TRUE)
      /\ UNCHANGED <<clients_map_, removing, is_connected_, answer, readVars,
                     writeVars, poolVars, received>>
  BY DEF ConnectRequest, Handler
<1>2. /\ QueuesTypeOK /\ ClientTypeOK
      /\ SocketOK(c) /\ \A d \in Sids \ {c} : SocketOK(d)
  BY DEF IInv, SocketInv
<1>3. /\ \A d \in Sids \ {c} : /\ UNCHANGED <<recv_buffers_[d], pushed[d]>>
                               /\ Known(d)' = Known(d)
      /\ Len(recv_buffers_'[c]) = Len(recv_buffers_[c]) + 1
  BY <1>1, <1>2, PushEffect, PushKnown DEF FrameTypes
<1>4. /\ recv_buffers_[c] = <<>> /\ Len(recv_buffers_[c]) = 0
      /\ reads[c] = 1 /\ writes[c] = 0 /\ send_buffers_[c] = <<>>
  BY <1>1, <1>2 DEF SocketOK, BeforeRequest
<1>5. /\ stage' \in [Sids -> {"none", "heading", "pac", "relaying", "closed"}]
      /\ stage'[c] = "relaying" /\ \A d \in Sids \ {c} : stage'[d] = stage[d]
  BY <1>1, <1>2 DEF ClientTypeOK
<1>6. ClientTypeOK'
  BY <1>1, <1>2, <1>5 DEF ClientTypeOK, RelayTypeOK, poolVars, readVars, writeVars
<1>7. SocketOK(c)'
  BY <1>1, <1>2, <1>3, <1>4, <1>5, QueueMaxAssumption
     DEF SocketOK, BeforeRequest, BeforeAnswer, Connected, Reading, Writing,
         Backlog, readVars, writeVars
<1>8. \A d \in Sids \ {c} : SocketOK(d)'
  BY <1>1, <1>2, <1>3, <1>5, Untouched DEF readVars, writeVars
<1> QED
  BY <1>6, <1>7, <1>8 DEF SocketInv

\* The read callback that pushed stops reading at queue_max_num.
LEMMA ReadChunkKeepsSockets ==
  ASSUME IInv, NEW c \in Sids, ReadChunk(c)
  PROVE  ClientTypeOK' /\ SocketInv'
<1>1. /\ stage[c] = "relaying" /\ reads[c] > 0
      /\ PushTuple(c, "tcp_data", recv_buffers_[c] = <<>> /\ is_connected_[c])
      /\ ReadOnUnlessFull(c, Len(recv_buffers_[c]) + 1)
      /\ UNCHANGED <<clientVars, is_reading_, writeVars, poolVars, received>>
  BY DEF ReadChunk, Handler
<1>2. /\ QueuesTypeOK /\ ClientTypeOK
      /\ SocketOK(c) /\ \A d \in Sids \ {c} : SocketOK(d)
      /\ (recv_buffers_[c] = <<>> /\ is_connected_[c]) \in BOOLEAN
  BY DEF IInv, SocketInv
<1>3. /\ \A d \in Sids \ {c} : /\ UNCHANGED <<recv_buffers_[d], pushed[d]>>
                               /\ Known(d)' = Known(d)
      /\ Len(recv_buffers_'[c]) = Len(recv_buffers_[c]) + 1
      /\ Len(recv_buffers_[c]) \in Nat
  <2>1. /\ \A d \in Sids \ {c} : UNCHANGED <<recv_buffers_[d], pushed[d]>>
        /\ Len(recv_buffers_'[c]) = Len(recv_buffers_[c]) + 1
    BY <1>1, <1>2, PushEffect
  <2>2. \A d \in Sids \ {c} : Known(d)' = Known(d)
    BY <1>1, <1>2, PushKnown, Zenon DEF FrameTypes
  <2> QED
    BY <1>2, <2>1, <2>2 DEF QueuesTypeOK
<1>4. /\ reads' \in [Sids -> Nat] /\ stopping' \in [Sids -> BOOLEAN]
      /\ \A d \in Sids \ {c} : UNCHANGED <<reads[d], stopping[d]>>
      /\ IF Len(recv_buffers_[c]) + 1 < QueueMax
           THEN UNCHANGED <<reads[c], stopping[c]>>
           ELSE reads'[c] = reads[c] - 1 /\ stopping'[c] = TRUE
  <2>1. /\ reads \in [Sids -> Nat] /\ stopping \in [Sids -> BOOLEAN]
        /\ reads[c] - 1 \in Nat
    BY <1>1, <1>2 DEF ClientTypeOK, RelayTypeOK
  <2>2. CASE Len(recv_buffers_[c]) + 1 < QueueMax
    BY <1>1, <2>1, <2>2 DEF ReadOnUnlessFull
  <2>3. CASE ~(Len(recv_buffers_[c]) + 1 < QueueMax)
    BY <1>1, <2>1, <2>3 DEF ReadOnUnlessFull
  <2> QED
    BY <2>2, <2>3
<1>5. ClientTypeOK'
  BY <1>1, <1>2, <1>4 DEF ClientTypeOK, RelayTypeOK, clientVars, writeVars, poolVars
<1>6. reads[c] = 1
  BY <1>1, <1>2 DEF SocketOK, Reading, ClientTypeOK, RelayTypeOK
<1>7. SocketOK(c)'
  BY <1>1, <1>2, <1>3, <1>4, <1>6, QueueMaxAssumption
     DEF SocketOK, BeforeRequest, BeforeAnswer, Connected, Reading, Writing,
         Backlog, clientVars, writeVars
<1>8. \A d \in Sids \ {c} : SocketOK(d)'
  BY <1>1, <1>2, <1>3, <1>4, Untouched DEF clientVars, writeVars
<1> QED
  BY <1>5, <1>7, <1>8 DEF SocketInv

LEMMA StopReadingKeepsSockets ==
  ASSUME IInv, NEW c \in Sids, StopReading(c)
  PROVE  ClientTypeOK' /\ SocketInv'
<1>1. /\ stopping[c]
      /\ is_reading_' = [is_reading_ EXCEPT ![c] = FALSE]
      /\ stopping' = [stopping EXCEPT ![c] = FALSE]
      /\ UNCHANGED <<clientVars, reads, recvVars, writeVars, implVars, poolVars, received>>
  BY DEF StopReading, ClearReading
<1>2. ClientTypeOK /\ SocketOK(c) /\ \A d \in Sids \ {c} : SocketOK(d)
  BY DEF IInv, SocketInv
<1>3. \A d \in Sids : Known(d)' = Known(d)
  BY <1>1, KnownUntouched
<1>4. /\ is_reading_' \in [Sids -> BOOLEAN] /\ is_reading_'[c] = FALSE
      /\ stopping' \in [Sids -> BOOLEAN] /\ stopping'[c] = FALSE
      /\ \A d \in Sids \ {c} : UNCHANGED <<is_reading_[d], stopping[d]>>
      /\ reads[c] \in Nat
  BY <1>1, <1>2 DEF ClientTypeOK, RelayTypeOK
<1>5. ClientTypeOK'
  BY <1>1, <1>2, <1>4 DEF ClientTypeOK, RelayTypeOK, clientVars, writeVars, poolVars
<1>6. SocketOK(c)'
  BY <1>1, <1>2, <1>4
     DEF SocketOK, BeforeRequest, BeforeAnswer, Connected, Reading, Writing,
         Backlog, clientVars, recvVars, writeVars
<1>7. \A d \in Sids \ {c} : SocketOK(d)'
  BY <1>1, <1>2, <1>3, <1>4, Untouched DEF clientVars, recvVars, writeVars
<1> QED
  BY <1>5, <1>6, <1>7 DEF SocketInv

\* send_disconnect().
LEMMA SendDisconnectEffect ==
  ASSUME QueuesTypeOK, RelayTypeOK, NEW c \in Sids, SendDisconnect(c)
  PROVE  /\ \A d \in Sids \ {c} : /\ UNCHANGED <<recv_buffers_[d], pushed[d]>>
                                  /\ Known(d)' = Known(d)
         /\ Len(recv_buffers_[c]) \in Nat
         /\ Len(recv_buffers_'[c]) = Len(recv_buffers_[c]) + 1
         /\ removing' \in [Sids -> BOOLEAN]
<1>1. /\ PushTuple(c, "tcp_disconnect", recv_buffers_[c] = <<>>)
      /\ removing' = [removing EXCEPT ![c] = TRUE]
  BY DEF SendDisconnect
<1>2. Len(recv_buffers_[c]) \in Nat /\ (recv_buffers_[c] = <<>>) \in BOOLEAN
  BY DEF QueuesTypeOK
<1> QED
  BY <1>1, <1>2, PushEffect, PushKnown DEF RelayTypeOK, FrameTypes

\* The read or the write of a relaying connection fails.
LEMMA FailureKeepsSockets ==
  ASSUME IInv, NEW c \in Sids, ReadFailed(c) \/ WriteFailed(c)
  PROVE  ClientTypeOK' /\ SocketInv'
<1>1. /\ stage[c] = "relaying" /\ SendDisconnect(c)
      /\ \/ /\ reads[c] > 0 /\ reads' = [reads EXCEPT ![c] = @ - 1]
            /\ UNCHANGED writes
         \/ /\ writes[c] > 0 /\ writes' = [writes EXCEPT ![c] = @ - 1]
            /\ UNCHANGED reads
      /\ UNCHANGED <<clients_map_, stage, is_connected_, answer, is_reading_,
                     stopping, send_buffers_, write_buffer_, written, poolVars,
                     received>>
  BY DEF ReadFailed, WriteFailed, Handler, readVars, writeVars
<1>2. /\ QueuesTypeOK /\ ClientTypeOK /\ RelayTypeOK
      /\ SocketOK(c) /\ \A d \in Sids \ {c} : SocketOK(d)
  BY DEF IInv, SocketInv, ClientTypeOK
<1>3. /\ \A d \in Sids \ {c} : /\ UNCHANGED <<recv_buffers_[d], pushed[d]>>
                               /\ Known(d)' = Known(d)
      /\ Len(recv_buffers_[c]) \in Nat
      /\ Len(recv_buffers_'[c]) = Len(recv_buffers_[c]) + 1
      /\ removing' \in [Sids -> BOOLEAN]
  BY <1>1, <1>2, SendDisconnectEffect
<1>4. /\ reads \in [Sids -> Nat] /\ writes \in [Sids -> Nat]
      /\ reads[c] \in {0, 1} /\ writes[c] \in {0, 1}
  BY <1>2 DEF RelayTypeOK, SocketOK, Reading, Writing
<1>5. /\ reads' \in [Sids -> Nat] /\ writes' \in [Sids -> Nat]
      /\ \A d \in Sids \ {c} : UNCHANGED <<reads[d], writes[d]>>
      /\ \/ reads[c] = 1 /\ reads'[c] = 0 /\ writes'[c] = writes[c]
         \/ writes[c] = 1 /\ writes'[c] = 0 /\ reads'[c] = reads[c]
  <2>1. CASE reads[c] > 0 /\ reads' = [reads EXCEPT ![c] = @ - 1] /\ UNCHANGED writes
    BY <1>4, <2>1
  <2>2. CASE writes[c] > 0 /\ writes' = [writes EXCEPT ![c] = @ - 1] /\ UNCHANGED reads
    BY <1>4, <2>2
  <2> QED
    BY <1>1, <2>1, <2>2
<1>6. ClientTypeOK'
  BY <1>1, <1>2, <1>3, <1>5 DEF ClientTypeOK, RelayTypeOK, poolVars
<1>7. SocketOK(c)'
  BY <1>1, <1>2, <1>3, <1>4, <1>5, QueueMaxAssumption
     DEF SocketOK, BeforeRequest, BeforeAnswer, Connected, Reading, Writing, Backlog
<1>8. \A d \in Sids \ {c} : SocketOK(d)'
  BY <1>1, <1>2, <1>3, <1>5, Untouched
<1> QED
  BY <1>6, <1>7, <1>8 DEF SocketInv

\* The write callback pops the chunk that was written and writes the next.
LEMMA ChunkWrittenKeepsSockets ==
  ASSUME IInv, NEW c \in Sids, ChunkWritten(c)
  PROVE  ClientTypeOK' /\ SocketInv'
<1> DEFINE rest == Tail(send_buffers_[c])
<1>1. /\ stage[c] = "relaying" /\ writes[c] > 0
      /\ written' = [written EXCEPT ![c] = Append(@, write_buffer_[c])]
      /\ send_buffers_' = [send_buffers_ EXCEPT ![c] = rest]
      /\ rest # <<>> => /\ write_buffer_' = [write_buffer_ EXCEPT ![c] = Head(rest)]
                        /\ UNCHANGED writes
      /\ rest = <<>> => /\ writes' = [writes EXCEPT ![c] = @ - 1]
                        /\ UNCHANGED write_buffer_
      /\ UNCHANGED <<clientVars, readVars, recvVars, implVars, poolVars, received>>
  BY DEF ChunkWritten, PopAndWriteNext, Handler
<1>2. ClientTypeOK /\ SocketOK(c) /\ \A d \in Sids \ {c} : SocketOK(d)
  BY DEF IInv, SocketInv
<1>a. \A d \in Sids : Known(d)' = Known(d)
  BY <1>1, KnownUntouched
<1>3. writes[c] = 1 /\ send_buffers_[c] # <<>> /\ send_buffers_[c] \in Seq(Nat)
  BY <1>1, <1>2 DEF SocketOK, Writing, ClientTypeOK, RelayTypeOK
<1>4. rest \in Seq(Nat) /\ (rest # <<>> => Head(rest) \in Nat)
  <2>1. rest \in Seq(Nat)
    BY <1>3
  <2> HIDE DEF rest
  <2> QED
    BY <2>1
<1> HIDE DEF rest
<1>5. /\ send_buffers_' \in [Sids -> Seq(Nat)] /\ send_buffers_'[c] = rest
      /\ \A d \in Sids \ {c} : send_buffers_'[d] = send_buffers_[d]
  BY <1>1, <1>2, <1>4 DEF ClientTypeOK, RelayTypeOK
<1>6. write_buffer_' \in [Sids -> Nat] /\ written' \in [Sids -> Seq(Nat)]
  <2>1. write_buffer_ \in [Sids -> Nat] /\ written \in [Sids -> Seq(Nat)]
    BY <1>2 DEF ClientTypeOK, RelayTypeOK
  <2>2. write_buffer_' \in [Sids -> Nat]
    BY <1>1, <1>4, <2>1
  <2>3. Append(written[c], write_buffer_[c]) \in Seq(Nat)
    BY <2>1
  <2>4. written' \in [Sids -> Seq(Nat)]
    BY <1>1, <2>1, <2>3
  <2> QED
    BY <2>2, <2>4
<1>7. /\ writes' \in [Sids -> Nat]
      /\ writes'[c] = IF rest = <<>> THEN 0 ELSE 1
      /\ \A d \in Sids \ {c} : writes'[d] = writes[d]
  <2>1. writes \in [Sids -> Nat]
    BY <1>2 DEF ClientTypeOK, RelayTypeOK
  <2>2. CASE rest = <<>>
    BY <1>1, <1>3, <2>1, <2>2
  <2>3. CASE rest # <<>>
    BY <1>1, <1>3, <2>1, <2>3
  <2> QED
    BY <2>2, <2>3
<1>8. ClientTypeOK'
  BY <1>1, <1>2, <1>5, <1>6, <1>7 DEF ClientTypeOK, RelayTypeOK, clientVars,
                                      readVars, poolVars
<1>9. SocketOK(c)'
  BY <1>1, <1>2, <1>3, <1>5, <1>7
     DEF SocketOK, BeforeRequest, BeforeAnswer, Connected, Reading, Writing,
         Backlog, clientVars, readVars, recvVars
<1>10. \A d \in Sids \ {c} : SocketOK(d)'
  BY <1>1, <1>2, <1>5, <1>7, <1>a, Untouched DEF clientVars, readVars, recvVars
<1> QED
  BY <1>8, <1>9, <1>10 DEF SocketInv

\* The flag is set for a connection whose request was handed over.
LEMMA RecvAnswerKeepsSockets ==
  ASSUME IInv, NEW c \in Sids, RecvAnswer(c)
  PROVE  ClientTypeOK' /\ SocketInv'
<1>1. /\ answer[c] = "no" /\ \E i \in DOMAIN out[c] : TRUE
      /\ \/ /\ c \in clients_map_
            /\ answer' = [answer EXCEPT ![c] = "setting"]
            /\ is_connected_' = [is_connected_ EXCEPT ![c] = TRUE]
         \/ /\ c \notin clients_map_
            /\ answer' = [answer EXCEPT ![c] = "yes"]
            /\ UNCHANGED is_connected_
      /\ UNCHANGED <<clients_map_, stage, removing, readVars, recvVars,
                     writeVars, implVars, poolVars, received>>
  BY DEF RecvAnswer, WasHanded
<1>2. ClientTypeOK /\ SocketOK(c) /\ \A d \in Sids \ {c} : SocketOK(d)
  BY DEF IInv, SocketInv
<1>3. \A d \in Sids : Known(d)' = Known(d)
  BY <1>1, KnownUntouched
<1>4. stage[c] = "relaying"
  <2>1. out[c] # <<>>
    BY <1>1
  <2> QED
    BY <2>1, HandedIsRelaying
<1>5. /\ answer' \in [Sids -> {"no", "setting", "yes"}]
      /\ is_connected_' \in [Sids -> BOOLEAN]
      /\ \A d \in Sids \ {c} : UNCHANGED <<answer[d], is_connected_[d]>>
      /\ \/ c \in clients_map_ /\ answer'[c] = "setting" /\ is_connected_'[c]
         \/ c \notin clients_map_ /\ answer'[c] = "yes"
  <2>1. answer \in [Sids -> {"no", "setting", "yes"}] /\ is_connected_ \in [Sids -> BOOLEAN]
    BY <1>2 DEF ClientTypeOK
  <2>2. CASE c \in clients_map_
    BY <1>1, <2>1, <2>2
  <2>3. CASE c \notin clients_map_
    BY <1>1, <2>1, <2>3
  <2> QED
    BY <2>2, <2>3
<1>6. ClientTypeOK'
  BY <1>1, <1>2, <1>5 DEF ClientTypeOK, RelayTypeOK, readVars, writeVars, poolVars
<1>7. SocketOK(c)'
  BY <1>1, <1>2, <1>4, <1>5
     DEF SocketOK, BeforeRequest, BeforeAnswer, Connected, Reading, Writing,
         Backlog, readVars, recvVars, writeVars
<1>8. \A d \in Sids \ {c} : SocketOK(d)'
  BY <1>1, <1>2, <1>3, <1>5, Untouched DEF readVars, recvVars, writeVars
<1> QED
  BY <1>6, <1>7, <1>8 DEF SocketInv

\* A chunk is queued, and written if it is alone and the flag is set.
LEMMA AddSendBufferEffect ==
  ASSUME ClientTypeOK, NEW c \in Sids, SocketOK(c), stage[c] = "relaying",
         NEW chunk \in Nat, ClientAddSendBuffer(c, chunk, is_connected_[c])
  PROVE  /\ send_buffers_' \in [Sids -> Seq(Nat)] /\ send_buffers_'[c] # <<>>
         /\ writes' \in [Sids -> Nat] /\ write_buffer_' \in [Sids -> Nat]
         /\ \A d \in Sids \ {c} : UNCHANGED <<send_buffers_[d], writes[d]>>
         /\ writes'[c] = IF send_buffers_[c] = <<>> /\ is_connected_[c] THEN 1 ELSE writes[c]
<1> DEFINE q == send_buffers_[c]
           now == q = <<>> /\ is_connected_[c]
<1>1. /\ send_buffers_' = [send_buffers_ EXCEPT ![c] = Append(@, chunk)]
      /\ now => /\ write_buffer_' = [write_buffer_ EXCEPT ![c] = chunk]
                /\ writes' = [writes EXCEPT ![c] = @ + 1]
      /\ ~now => UNCHANGED <<write_buffer_, writes>>
  BY DEF ClientAddSendBuffer, DoWrite
<1>2. /\ send_buffers_ \in [Sids -> Seq(Nat)] /\ q \in Seq(Nat)
      /\ writes \in [Sids -> Nat] /\ write_buffer_ \in [Sids -> Nat]
  BY DEF ClientTypeOK, RelayTypeOK
<1>3. q = <<>> => writes[c] = 0
  BY <1>2 DEF SocketOK, Writing
<1>4. /\ send_buffers_' \in [Sids -> Seq(Nat)] /\ send_buffers_'[c] = Append(q, chunk)
      /\ \A d \in Sids \ {c} : send_buffers_'[d] = send_buffers_[d]
  BY <1>1, <1>2
<1>5. Append(q, chunk) # <<>>
  <2>1. \A s \in Seq(Nat) : Append(s, chunk) # <<>>
    OBVIOUS
  <2> QED
    BY <1>2, <2>1
<1> HIDE DEF q
<1>6. /\ writes' \in [Sids -> Nat] /\ write_buffer_' \in [Sids -> Nat]
      /\ \A d \in Sids \ {c} : writes'[d] = writes[d]
      /\ writes'[c] = IF now THEN 1 ELSE writes[c]
  <2>1. CASE now
    <3>1. writes[c] = 0 /\ writes' = [writes EXCEPT ![c] = @ + 1]
      BY <1>1, <1>3, <2>1
    <3>2. write_buffer_' = [write_buffer_ EXCEPT ![c] = chunk]
      BY <1>1, <2>1
    <3> HIDE DEF now
    <3> QED
      BY <1>2, <2>1, <3>1, <3>2
  <2>2. CASE ~now
    BY <1>1, <1>2, <2>2
  <2> QED
    BY <2>1, <2>2
<1> QED
  BY <1>4, <1>5, <1>6 DEF q

\* recv() queues a chunk for a relaying connection, or ends without one.
LEMMA QueueChunkKeepsSockets ==
  ASSUME IInv, NEW c \in Sids, answer[c] # "no",
         \A d \in Sids : Known(d)' \subseteq Known(d),
         UNCHANGED <<clients_map_, stage, removing, is_connected_, readVars,
                     recvVars, written, poolVars>>,
         received' \in [Sids -> Nat],
         answer' \in [Sids -> {"no", "setting", "yes"}], answer'[c] = "yes",
         \A d \in Sids \ {c} : answer'[d] = answer[d],
         \/ \E chunk \in Nat : ClientAddSendBuffer(c, chunk, is_connected_[c])
         \/ UNCHANGED <<send_buffers_, write_buffer_, writes>>
  PROVE  ClientTypeOK' /\ SocketInv'
<1>1. /\ ClientTypeOK /\ SocketOK(c) /\ \A d \in Sids \ {c} : SocketOK(d)
      /\ stage[c] = "relaying"
  BY AnsweredIsRelaying DEF IInv, SocketInv
<1>2. CASE \E chunk \in Nat : ClientAddSendBuffer(c, chunk, is_connected_[c])
  <2>1. /\ send_buffers_' \in [Sids -> Seq(Nat)] /\ send_buffers_'[c] # <<>>
        /\ writes' \in [Sids -> Nat] /\ write_buffer_' \in [Sids -> Nat]
        /\ \A d \in Sids \ {c} : UNCHANGED <<send_buffers_[d], writes[d]>>
        /\ writes'[c] = IF send_buffers_[c] = <<>> /\ is_connected_[c] THEN 1 ELSE writes[c]
    BY <1>1, <1>2, AddSendBufferEffect
  <2>2. ClientTypeOK'
    BY <1>1, <2>1 DEF ClientTypeOK, RelayTypeOK, readVars, poolVars
  <2>3. SocketOK(c)'
    <3>1. /\ Len(recv_buffers_[c]) \in Nat /\ reads[c] \in Nat /\ writes[c] \in Nat
      BY <1>1 DEF IInv, QueuesTypeOK, ClientTypeOK, RelayTypeOK
    <3>2. BeforeRequest(c)' /\ BeforeAnswer(c)' /\ Connected(c)' /\ Reading(c)'
      BY <1>1 DEF SocketOK, BeforeRequest, BeforeAnswer, Connected, Reading, readVars
    <3>3. Writing(c)'
      BY <1>1, <2>1 DEF SocketOK, Writing
    <3>4. Backlog(c)'
      <4>1. send_buffers_[c] = <<>> => writes[c] = 0
        BY <1>1, <3>1 DEF SocketOK, Writing
      <4> QED
        BY <1>1, <2>1, <3>1, <4>1, QueueMaxAssumption DEF SocketOK, Backlog, readVars, recvVars
    <3> QED
      BY <3>2, <3>3, <3>4 DEF SocketOK
  <2>4. \A d \in Sids \ {c} : SocketOK(d)'
    BY <1>1, <2>1, Untouched DEF readVars, recvVars
  <2> QED
    BY <2>2, <2>3, <2>4 DEF SocketInv
<1>3. CASE UNCHANGED <<send_buffers_, write_buffer_, writes>>
  <2>1. ClientTypeOK'
    BY <1>1, <1>3 DEF ClientTypeOK, RelayTypeOK, readVars, poolVars
  <2>2. SocketOK(c)'
    BY <1>1, <1>3
       DEF SocketOK, BeforeRequest, BeforeAnswer, Connected, Reading, Writing,
           Backlog, readVars, recvVars
  <2>3. \A d \in Sids \ {c} : SocketOK(d)'
    BY <1>1, <1>3, Untouched DEF readVars, recvVars
  <2> QED
    BY <2>1, <2>2, <2>3 DEF SocketInv
<1> QED
  BY <1>2, <1>3

LEMMA RecvDataKeepsSockets ==
  ASSUME IInv, NEW c \in Sids, RecvData(c)
  PROVE  ClientTypeOK' /\ SocketInv'
<1>1. /\ answer[c] = "yes"
      /\ received' = [received EXCEPT ![c] = received[c] + 1]
      /\ UNCHANGED <<clientVars, readVars, recvVars, written, implVars, poolVars>>
      /\ \/ ClientAddSendBuffer(c, received[c] + 1, is_connected_[c])
         \/ UNCHANGED <<send_buffers_, write_buffer_, writes>>
  BY DEF RecvData
<1>2. ClientTypeOK /\ received[c] + 1 \in Nat
  BY DEF IInv, ClientTypeOK, RelayTypeOK
<1>3. received' \in [Sids -> Nat]
  BY <1>1, <1>2 DEF ClientTypeOK, RelayTypeOK
<1>4. \A d \in Sids : Known(d)' = Known(d)
  BY <1>1, KnownUntouched
<1>5. \/ \E chunk \in Nat : ClientAddSendBuffer(c, chunk, is_connected_[c])
      \/ UNCHANGED <<send_buffers_, write_buffer_, writes>>
  BY <1>1, <1>2
<1> QED
  BY <1>1, <1>2, <1>3, <1>4, <1>5, QueueChunkKeepsSockets
     DEF clientVars, ClientTypeOK

\* The second step of set_connected() sends a tuple that waited.
LEMMA SetConnectedKnown ==
  ASSUME IInv, NEW c \in Sids, SetConnected(c)
  PROVE  /\ \A d \in Sids : Known(d)' \subseteq Known(d)
         /\ \A d \in Sids \ {c} : Queued(d)' = Queued(d) /\ out'[d] = out[d]
         /\ \A d \in Sids : out[d] # <<>> => out'[d] # <<>> /\ out'[d][1] = out[d][1]
<1>1. QueuesTypeOK /\ recv_buffers_[c] \in Seq(Tuples) /\ UNCHANGED recv_buffers_
  BY DEF IInv, QueuesTypeOK, SetConnected, recvVars
<1>2. CASE recv_buffers_[c] = <<>>
  BY <1>2, KnownUntouched DEF SetConnected
<1>3. CASE recv_buffers_[c] # <<>>
  <2>1. Head(recv_buffers_[c]) \in Elements(recv_buffers_[c])
    BY <1>1, <1>3, TailElements
  <2>2. PICK t \in Tuples : t = Head(recv_buffers_[c])
    BY <1>1, <1>3
  <2>3. SendToMainSocket(c, t)
    BY <1>3, <2>2 DEF SetConnected
  <2>4. /\ Queued(c)' \subseteq Queued(c) \cup {t}
        /\ Elements(out'[c]) \subseteq Elements(out[c]) \cup {t}
        /\ \A d \in Sids \ {c} : Queued(d)' = Queued(d) /\ out'[d] = out[d]
        /\ \A d \in Sids : out[d] # <<>> => out'[d] # <<>> /\ out'[d][1] = out[d][1]
    BY <1>1, <2>3, SendKnown
  <2>5. Known(c)' \subseteq Known(c)
    BY <1>1, <2>1, <2>2, <2>4 DEF Known
  <2>6. \A d \in Sids \ {c} : Known(d)' = Known(d)
    BY <1>1, <2>4 DEF Known
  <2> QED
    BY <2>4, <2>5, <2>6
<1> QED
  BY <1>2, <1>3

LEMMA SetConnectedKeepsSockets ==
  ASSUME IInv, NEW c \in Sids, SetConnected(c)
  PROVE  ClientTypeOK' /\ SocketInv'
<1>1. /\ answer[c] = "setting"
      /\ answer' = [answer EXCEPT ![c] = "yes"]
      /\ UNCHANGED <<clients_map_, stage, removing, is_connected_, readVars,
                     recvVars, written, poolVars, received>>
      /\ \/ ClientAddSendBuffer(c, 0, is_connected_[c])
         \/ UNCHANGED <<send_buffers_, write_buffer_, writes>>
  BY DEF SetConnected, Established, FirstChunk
<1>2. ClientTypeOK
  BY DEF IInv
<1>3. /\ answer' \in [Sids -> {"no", "setting", "yes"}] /\ answer'[c] = "yes"
      /\ \A d \in Sids \ {c} : answer'[d] = answer[d]
      /\ received' \in [Sids -> Nat]
  BY <1>1, <1>2 DEF ClientTypeOK, RelayTypeOK
<1>4. \/ \E chunk \in Nat : ClientAddSendBuffer(c, chunk, is_connected_[c])
      \/ UNCHANGED <<send_buffers_, write_buffer_, writes>>
  BY <1>1
<1> QED
  BY <1>1, <1>3, <1>4, SetConnectedKnown, QueueChunkKeepsSockets

\* send_complete() pops a tuple and may start the only read of the socket.
LEMMA SendCompleteKeepsSockets ==
  ASSUME IInv, SendComplete
  PROVE  ClientTypeOK' /\ SocketInv'
<1>a. /\ QueuesTypeOK /\ ClientTypeOK /\ RelayTypeOK /\ SocketInv
      /\ \A c \in Sids : SocketOK(c)
  BY DEF IInv, SocketInv, ClientTypeOK
<1>b. PICK c \in Sids : c = current_sending_user_
  BY <1>a DEF QueuesTypeOK
<1> DEFINE rest == Tail(recv_buffers_[c])
<1>1. /\ UNCHANGED <<clientVars, stopping, pushed, writeVars, accepting, pool,
                     received>>
      /\ \/ /\ recv_buffers_[c] # <<>> /\ PopTuple(c, is_connected_[c])
            /\ recv_buffers_' = [recv_buffers_ EXCEPT ![c] = rest]
            /\ RearmReading(c, Len(recv_buffers_[c]) - 1)
            /\ UNCHANGED corrupted
         \/ /\ corrupted' \in BOOLEAN
            /\ UNCHANGED <<recv_buffers_, implVars, is_reading_, reads>>
  BY <1>a, <1>b DEF SendComplete, NotifyMainSocketComplete, PopTuple, ClientTypeOK
<1>2. CASE /\ corrupted' \in BOOLEAN
           /\ UNCHANGED <<recv_buffers_, implVars, is_reading_, reads>>
  <2>1. UNCHANGED recvVars
    BY <1>1, <1>2 DEF recvVars
  <2>2. \A d \in Sids : Known(d)' = Known(d)
    BY <1>2, <2>1, KnownUntouched
  <2> QED
    BY <1>a, <1>1, <1>2, <2>1, <2>2, OtherStepsKeepSockets
       DEF clientVars, readVars, ClientTypeOK, RelayTypeOK
<1>3. CASE /\ recv_buffers_[c] # <<>> /\ PopTuple(c, is_connected_[c])
           /\ recv_buffers_' = [recv_buffers_ EXCEPT ![c] = rest]
           /\ RearmReading(c, Len(recv_buffers_[c]) - 1)
           /\ UNCHANGED corrupted
  <2>1. recv_buffers_[c] # <<>> /\ recv_buffers_[c] \in Seq(Tuples)
    BY <1>3, <1>a DEF QueuesTypeOK
  <2>2. Len(rest) = Len(recv_buffers_[c]) - 1 /\ Len(recv_buffers_[c]) \in Nat
    BY <2>1
  <2>3. stage[c] = "relaying"
    BY <1>a, <2>1 DEF SocketOK, BeforeRequest
  <2> HIDE DEF rest
  <2>4. /\ recv_buffers_'[c] = rest
        /\ \A d \in Sids \ {c} : recv_buffers_'[d] = recv_buffers_[d]
    BY <1>a, <1>3 DEF QueuesTypeOK
  <2>5. \A d \in Sids : Known(d)' \subseteq Known(d)
    <3>1. is_connected_[c] \in BOOLEAN
      BY <1>a DEF ClientTypeOK
    <3> QED
      BY <1>a, <1>3, <3>1, PopKnown
  <2>6. CASE Len(rest) <= ResumeAt /\ ~is_reading_[c]
    <3>1. /\ is_reading_' = [is_reading_ EXCEPT ![c] = TRUE]
          /\ reads' = [reads EXCEPT ![c] = @ + 1]
      BY <1>3, <2>2, <2>6 DEF RearmReading, ReadSome
    <3>2. reads[c] = 0 /\ ~stopping[c]
      <4>1. reads[c] \in Nat /\ Reading(c)
        BY <1>a DEF SocketOK, RelayTypeOK
      <4> QED
        BY <2>6, <4>1 DEF Reading
    <3>3. /\ reads' \in [Sids -> Nat] /\ reads'[c] = 1
          /\ is_reading_' \in [Sids -> BOOLEAN] /\ is_reading_'[c]
          /\ \A d \in Sids \ {c} : UNCHANGED <<reads[d], is_reading_[d]>>
      BY <1>a, <3>1, <3>2 DEF RelayTypeOK
    <3>4. Len(rest) <= QueueMax - 1
      BY <2>2, <2>6, QueueMaxAssumption DEF ResumeAt
    <3>5. ClientTypeOK'
      BY <1>a, <1>1, <1>3, <3>3 DEF ClientTypeOK, RelayTypeOK, clientVars, writeVars
    <3>6. SocketOK(c)'
      BY <1>a, <1>1, <2>2, <2>3, <2>4, <3>2, <3>3, <3>4, QueueMaxAssumption
         DEF SocketOK, BeforeRequest, BeforeAnswer, Connected, Reading, Writing,
             Backlog, clientVars, writeVars
    <3>7. \A d \in Sids \ {c} : SocketOK(d)'
      BY <1>a, <1>1, <2>4, <2>5, <3>3, Untouched DEF clientVars, writeVars
    <3> QED
      BY <3>5, <3>6, <3>7 DEF SocketInv
  <2>7. CASE ~(Len(rest) <= ResumeAt /\ ~is_reading_[c])
    <3>1. UNCHANGED <<is_reading_, reads>>
      BY <1>3, <2>2, <2>7 DEF RearmReading
    <3>2. ClientTypeOK'
      BY <1>a, <1>1, <1>3, <3>1 DEF ClientTypeOK, RelayTypeOK, clientVars, writeVars
    <3>3. SocketOK(c)'
      <4>1. reads[c] \in Nat
        BY <1>a DEF RelayTypeOK
      <4> QED
        BY <1>a, <1>1, <2>2, <2>3, <2>4, <3>1, <4>1, QueueMaxAssumption
           DEF SocketOK, BeforeRequest, BeforeAnswer, Connected, Reading,
               Writing, Backlog, clientVars, writeVars
    <3>4. \A d \in Sids \ {c} : SocketOK(d)'
      BY <1>a, <1>1, <2>4, <2>5, <3>1, Untouched DEF clientVars, writeVars
    <3> QED
      BY <3>2, <3>3, <3>4 DEF SocketInv
  <2> QED
    BY <2>6, <2>7
<1> QED
  BY <1>1, <1>2, <1>3

\* The rest: a frame's send ends, the next one is started, an entry leaves
\* the map while no recv() holds it, the acceptor or the pool stops.
LEMMA RemainingStepsKeepSockets ==
  ASSUME IInv,
         \/ HostFinishes \/ SendNext \/ AcceptFailed \/ PoolExits
         \/ UNCHANGED vars
         \/ \E c \in Sids : RecvDisconnect(c) \/ RemoveSelf(c)
  PROVE  ClientTypeOK' /\ SocketInv'
<1>1. /\ QueuesTypeOK /\ SingleSend /\ ClientTypeOK /\ SocketInv
      /\ removing \in [Sids -> BOOLEAN] /\ accepting \in BOOLEAN
      /\ corrupted \in BOOLEAN /\ pool \in {"running", "exited"}
  BY DEF IInv, ClientTypeOK, RelayTypeOK
<1>2. /\ UNCHANGED <<stage, is_connected_, answer, readVars, recvVars,
                     writeVars, received>>
      /\ clients_map_' \subseteq clients_map_
      /\ removing' \in [Sids -> BOOLEAN] /\ accepting' \in BOOLEAN
      /\ corrupted' \in BOOLEAN /\ pool' \in {"running", "exited"}
  <2>1. CASE HostFinishes \/ SendNext
    BY <1>1, <2>1 DEF HostFinishes, FinishSend, SendNext, PopFrame, clientVars, poolVars
  <2>2. CASE AcceptFailed \/ PoolExits \/ UNCHANGED vars
    BY <1>1, <2>2 DEF AcceptFailed, PoolExits, vars, clientVars, poolVars
  <2>3. ASSUME NEW c \in Sids, RecvDisconnect(c) \/ RemoveSelf(c)
        PROVE  /\ UNCHANGED <<stage, is_connected_, answer, readVars, recvVars,
                              writeVars, received>>
               /\ clients_map_' \subseteq clients_map_
               /\ removing' \in [Sids -> BOOLEAN] /\ accepting' \in BOOLEAN
               /\ corrupted' \in BOOLEAN /\ pool' \in {"running", "exited"}
    BY <1>1, <2>3 DEF RecvDisconnect, RemoveSelf, RemoveClient, readVars,
                      writeVars, poolVars
  <2> QED
    BY <2>1, <2>2, <2>3
<1>3. \A d \in Sids : Known(d)' \subseteq Known(d)
  <2>1. CASE SendNext
    BY <1>1, <2>1, PopFrameKnown DEF SendNext
  <2>2. CASE HostFinishes
    BY <2>2 DEF HostFinishes, FinishSend, recvVars, Known, Queued, Places
  <2>3. CASE AcceptFailed \/ PoolExits \/ UNCHANGED vars
    BY <2>3, KnownUntouched DEF AcceptFailed, PoolExits, vars
  <2>4. ASSUME NEW c \in Sids, RecvDisconnect(c) \/ RemoveSelf(c)
        PROVE  \A d \in Sids : Known(d)' \subseteq Known(d)
    BY <2>4, KnownUntouched DEF RecvDisconnect, RemoveSelf, RemoveClient
  <2> QED
    BY <2>1, <2>2, <2>3, <2>4
<1>4. \A d \in Sids : answer[d] = "setting" /\ d \in clients_map_ => d \in clients_map_'
  BY DEF HostFinishes, SendNext, AcceptFailed, PoolExits, vars, clientVars,
         RecvDisconnect, RemoveSelf, RemoveClient, MapFree
<1> QED
  BY <1>1, <1>2, <1>3, <1>4, OtherStepsKeepSockets

LEMMA NextKeepsSockets ==
  ASSUME IInv, [Next]_vars
  PROVE  ClientTypeOK' /\ SocketInv'
<1>1. ASSUME NEW c \in Sids, Accept(c) \/ Requesting(c) \/ Relaying(c) \/ Peer(c)
      PROVE  ClientTypeOK' /\ SocketInv'
  <2>1. CASE Accept(c) \/ Requesting(c)
    BY <2>1, AcceptKeepsSockets, CloseKeepsSockets, PacRequestKeepsSockets,
       ConnectRequestKeepsSockets DEF Requesting
  <2>2. CASE Relaying(c)
    BY <2>2, ReadChunkKeepsSockets, StopReadingKeepsSockets,
       FailureKeepsSockets, ChunkWrittenKeepsSockets,
       RemainingStepsKeepSockets DEF Relaying
  <2>3. CASE Peer(c)
    BY <2>3, RecvAnswerKeepsSockets, SetConnectedKeepsSockets,
       RecvDataKeepsSockets, RemainingStepsKeepSockets DEF Peer
  <2> QED
    BY <1>1, <2>1, <2>2, <2>3
<1> QED
  BY <1>1, SendCompleteKeepsSockets, RemainingStepsKeepSockets DEF Next
-----------------------------------------------------------------------------
(* The theorems about the sockets and the main transport.                  *)

LEMMA InitIInv == Init => IInv
<1> SUFFICES ASSUME Init PROVE IInv
  OBVIOUS
<1>1. ClientTypeOK
  <2>1. RelayTypeOK
    BY DEF Init, InitRelay, RelayTypeOK, FirstChunk
  <2>2. clients_map_ = {}
    BY DEF Init, InitRelay
  <2> QED
    BY <2>1, <2>2 DEF Init, ClientTypeOK
<1>2. QueuesTypeOK /\ SingleSend
  BY InitKeeps DEF Init, InitRelay, TransportInv
<1>3. \A c \in Sids : SocketOK(c)
  <2> TAKE c \in Sids
  <2>1. /\ stage[c] = "none" /\ recv_buffers_[c] = <<>> /\ pushed[c] = 0
        /\ is_reading_[c] /\ reads[c] = 0 /\ ~stopping[c]
        /\ send_buffers_[c] = <<>> /\ writes[c] = 0
        /\ answer[c] = "no" /\ ~is_connected_[c]
        /\ out[c] = <<>> /\ impl_send_buffers_ = <<>>
    BY DEF Init, InitRelay, InitTransport
  <2>2. Len(recv_buffers_[c]) = 0 /\ Known(c) = {}
    BY <2>1 DEF Known, Elements, Queued, Places
  <2> QED
    BY <2>1, <2>2, QueueMaxAssumption
       DEF SocketOK, BeforeRequest, BeforeAnswer, Connected, Reading, Writing, Backlog
<1> QED
  BY <1>1, <1>2, <1>3 DEF IInv, SocketInv

LEMMA NextKeepsIInv == ASSUME IInv, [Next]_vars PROVE IInv'
BY NextKeepsSingle, NextKeepsSockets DEF IInv

\* The invariant of the sockets holds in every reachable state.
THEOREM Invariance == Spec => []IInv
<1>1. IInv /\ [Next]_vars => IInv'
  BY NextKeepsIInv
<1> QED
  BY <1>1, InitIInv, PTL DEF Spec

\* Every variable of the client keeps its type, for any number of
\* connections and any queue_max_num above 1.
THEOREM TypeCorrectness == Spec => []TypeOK
<1>1. IInv => TypeOK
  BY DEF IInv, ClientTypeOK, TypeOK
<1> QED
  BY <1>1, Invariance, PTL

\* cb_send_buffer_ is called for one frame at a time, and send_complete()
\* finds the client of that frame in current_sending_user_.
THEOREM SingleSendTheorem == Spec => []SingleSend
<1>1. IInv => SingleSend
  BY DEF IInv
<1> QED
  BY <1>1, Invariance, PTL

\* read_ready_ and write_ready_: one read and one write per socket.
THEOREM SocketDisciplineTheorem == Spec => []SocketDiscipline
<1>1. IInv => SocketDiscipline
  BY DEF IInv, SocketInv, SocketOK, Reading, Writing, SocketDiscipline
<1> QED
  BY <1>1, Invariance, PTL

\* Flow control keeps the backlog of a connection within queue_max_num + 1.
THEOREM BacklogBoundedTheorem == Spec => []BacklogBounded
<1>1. ASSUME IInv PROVE BacklogBounded
  <2> SUFFICES ASSUME NEW c \in Sids
               PROVE  Len(recv_buffers_[c]) <= QueueMax + 1
    BY DEF BacklogBounded
  <2>1. reads[c] \in Nat /\ Len(recv_buffers_[c]) \in Nat /\ Backlog(c)
    BY <1>1 DEF IInv, QueuesTypeOK, SocketInv, ClientTypeOK, RelayTypeOK, SocketOK
  <2> QED
    BY <2>1, QueueMaxAssumption DEF Backlog
<1> QED
  BY <1>1, Invariance, PTL
=============================================================================
