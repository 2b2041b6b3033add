----------------------------- MODULE ProxyProofs -----------------------------
(***************************************************************************)
(* Theorems about Proxy, for any number of connections and any queue_max_  *)
(* num, as long as nothing meets set_connected() (Quiet).  Both managers   *)
(* of the proxy are instances of the proved ones, so their invariants hold *)
(* in it; WireInv adds what the frames on their way say of both ends at    *)
(* once.                                                                   *)
(***************************************************************************)
EXTENDS Proxy, TLAPS

\* The managers of Proxy with what is proved of them.
CP == INSTANCE ClientStreamProofs WITH
  MaxReads <- MaxPushes + 1, MaxFrames <- MaxPushes + 1,
  recv_buffers_ <- c_recv_buffers_, pushed <- c_pushed,
  impl_send_buffers_ <- c_impl_send_buffers_,
  current_sending_user_ <- c_current_sending_user_,
  outstanding <- c_outstanding, out <- c_out, finishing <- c_finishing,
  clients_map_ <- c_clients_map_, removing <- c_removing,
  is_reading_ <- c_is_reading_, reads <- c_reads, stopping <- c_stopping,
  send_buffers_ <- c_send_buffers_, write_buffer_ <- c_write_buffer_,
  writes <- c_writes, received <- c_received, written <- c_written,
  stage <- c_stage, is_connected_ <- c_is_connected_, answer <- c_answer,
  accepting <- c_accepting, pool <- c_pool, corrupted <- c_corrupted

SP == INSTANCE ServerManagerProofs WITH
  MaxReads <- MaxPushes + 1, MaxFrames <- MaxPushes + 1,
  recv_buffers_ <- s_recv_buffers_, pushed <- s_pushed,
  impl_send_buffers_ <- s_impl_send_buffers_,
  current_sending_user_ <- s_current_sending_user_,
  outstanding <- s_outstanding, out <- s_out, finishing <- s_finishing,
  clients_map_ <- s_clients_map_, removing <- s_removing,
  is_reading_ <- s_is_reading_, reads <- s_reads, stopping <- s_stopping,
  send_buffers_ <- s_send_buffers_, write_buffer_ <- s_write_buffer_,
  writes <- s_writes, received <- s_received, written <- s_written,
  stage <- s_stage, pool <- s_pool

\* What is assumed of the constants of the instances.
LEMMA Instances ==
  /\ Sids # {}
  /\ QueueMax \in Nat /\ QueueMax > 1
  /\ MaxPushes + 1 \in Nat /\ MaxPushes + 1 \in Nat
  /\ {ReadRaces, CloseRaces, LateCompletion} \subseteq BOOLEAN
BY ProxyAssumption
-----------------------------------------------------------------------------
(* The steps of Proxy are steps of the managers.                           *)

LEMMA ServerInit == S!Init => SP!Init
BY DEF S!Init, SP!Init, S!InitRelay, SP!InitRelay, S!InitTransport, SP!InitTransport,
       S!FirstChunk, SP!FirstChunk

LEMMA ServerConnecting == ASSUME NEW c \in Sids, S!Connecting(c) PROVE SP!Connecting(c)
<1> USE DEF S!clientVars, S!readVars, S!recvVars, S!writeVars, S!implVars,
            SP!clientVars, SP!readVars, SP!recvVars, SP!writeVars, SP!implVars,
            S!Handler, SP!Handler, S!PushTuple, SP!PushTuple, S!SendDisconnect,
            SP!SendDisconnect, S!SendToMainSocket, SP!SendToMainSocket,
            S!AddSendBuffer, SP!AddSendBuffer, S!CallSend, SP!CallSend,
            S!Answer, SP!Answer, S!ReadSome, SP!ReadSome, S!DoWrite, SP!DoWrite,
            S!Request, SP!Request, S!FirstChunk, SP!FirstChunk
<1>1. S!Resolved(c) => SP!Resolved(c)
  BY DEF S!Resolved, SP!Resolved
<1>2. S!TunnelConnected(c) => SP!TunnelConnected(c)
  BY DEF S!TunnelConnected, SP!TunnelConnected
<1>3. S!ForwardRequest(c) => SP!ForwardRequest(c)
  BY DEF S!ForwardRequest, SP!ForwardRequest
<1>4. S!RequestWritten(c) => SP!RequestWritten(c)
  BY DEF S!RequestWritten, SP!RequestWritten
<1>5. S!ConnectFailed(c) => SP!ConnectFailed(c)
  BY DEF S!ConnectFailed, SP!ConnectFailed
<1> QED
  BY <1>1, <1>2, <1>3, <1>4, <1>5 DEF S!Connecting, SP!Connecting

\* The bound of Proxy is below that of the manager.
LEMMA ServerRelaying ==
  ASSUME NEW c \in Sids, SP!QueuesTypeOK, CP!QueuesTypeOK,
         \/ S!ReadChunk(c) /\ MayRead(c)
         \/ S!StopReading(c) \/ S!ReadFailed(c) \/ S!ChunkWritten(c)
         \/ S!WriteFailed(c) \/ S!RemoveSelf(c)
  PROVE  SP!Relaying(c)
<1> USE DEF S!clientVars, S!readVars, S!recvVars, S!writeVars, S!implVars,
            SP!clientVars, SP!readVars, SP!recvVars, SP!writeVars, SP!implVars,
            S!Handler, SP!Handler, S!PushTuple, SP!PushTuple, S!SendDisconnect,
            SP!SendDisconnect, S!SendToMainSocket, SP!SendToMainSocket,
            S!AddSendBuffer, SP!AddSendBuffer, S!CallSend, SP!CallSend
<1>1. S!ReadChunk(c) => SP!ReadChunk(c)
  BY DEF S!ReadChunk, SP!ReadChunk, S!ReadOnUnlessFull, SP!ReadOnUnlessFull
<1>2. MayRead(c) => s_pushed[c] <= MaxPushes + 1
  <2>1. c_pushed[c] \in Nat /\ s_pushed[c] \in Nat
    BY DEF CP!QueuesTypeOK, SP!QueuesTypeOK
  <2> QED
    BY <2>1, ProxyAssumption DEF MayRead
<1>3. S!StopReading(c) => SP!StopReading(c)
  BY DEF S!StopReading, SP!StopReading, S!ClearReading, SP!ClearReading
<1>4. S!ReadFailed(c) => SP!ReadFailed(c)
  BY DEF S!ReadFailed, SP!ReadFailed
<1>5. S!ChunkWritten(c) => SP!ChunkWritten(c)
  BY DEF S!ChunkWritten, SP!ChunkWritten, S!PopAndWriteNext, SP!PopAndWriteNext
<1>6. S!WriteFailed(c) => SP!WriteFailed(c)
  BY DEF S!WriteFailed, SP!WriteFailed
<1>7. S!RemoveSelf(c) => SP!RemoveSelf(c)
  BY DEF S!RemoveSelf, SP!RemoveSelf, S!RemoveClient, SP!RemoveClient
<1> QED
  BY <1>1, <1>2, <1>3, <1>4, <1>5, <1>6, <1>7 DEF SP!Relaying

LEMMA ServerSideIsStep ==
  ASSUME ServerSide, SP!QueuesTypeOK, CP!QueuesTypeOK
  PROVE  SP!OwnStep
<1> USE DEF S!clientVars, S!readVars, S!recvVars, S!writeVars, S!implVars,
            SP!clientVars, SP!readVars, SP!recvVars, SP!writeVars, SP!implVars,
            S!SendToMainSocket, SP!SendToMainSocket,
            S!AddSendBuffer, SP!AddSendBuffer, S!CallSend, SP!CallSend
<1>1. ASSUME NEW c \in Sids, ServerStep(c) PROVE SP!Connecting(c) \/ SP!Relaying(c)
  BY <1>1, ServerConnecting, ServerRelaying DEF ServerStep
<1>2. S!HostFinishes => SP!HostFinishes
  BY DEF S!HostFinishes, SP!HostFinishes, S!FinishSend, SP!FinishSend
<1>3. S!SendComplete => SP!SendComplete
  BY DEF S!SendComplete, SP!SendComplete, S!NotifyMainSocketComplete,
         SP!NotifyMainSocketComplete, S!PopTuple, SP!PopTuple, S!RearmReading,
         SP!RearmReading, S!ReadSome, SP!ReadSome, S!ResumeAt, SP!ResumeAt
<1>4. S!SendNext => SP!SendNext
  BY DEF S!SendNext, SP!SendNext, S!PopFrame, SP!PopFrame
<1>5. S!PoolExits => SP!PoolExits
  BY DEF S!PoolExits, SP!PoolExits, S!HasWork, SP!HasWork
<1> QED
  BY <1>1, <1>2, <1>3, <1>4, <1>5 DEF ServerSide, SP!OwnStep

LEMMA ServerRecv ==
  ASSUME NEW c \in Sids
  PROVE  /\ S!RecvConnect(c) => SP!RecvConnect(c)
         /\ S!RecvData(c) => SP!RecvData(c)
         /\ S!RecvDisconnect(c) => SP!RecvDisconnect(c)
BY DEF S!clientVars, S!readVars, S!recvVars, S!writeVars, S!implVars,
       SP!clientVars, SP!readVars, SP!recvVars, SP!writeVars, SP!implVars,
       S!RecvConnect, SP!RecvConnect, S!RecvData, SP!RecvData,
       S!ClientAddSendBuffer, SP!ClientAddSendBuffer, S!DoWrite, SP!DoWrite,
       S!RecvDisconnect, SP!RecvDisconnect, S!RemoveClient, SP!RemoveClient

LEMMA ClientInit == C!Init => CP!Init
BY DEF C!Init, CP!Init, C!InitRelay, CP!InitRelay, C!InitTransport, CP!InitTransport,
       C!FirstChunk, CP!FirstChunk

LEMMA ClientRequesting == ASSUME NEW c \in Sids, C!Requesting(c) PROVE CP!Requesting(c)
<1> USE DEF C!clientVars, C!readVars, C!recvVars, C!writeVars, C!implVars, C!poolVars,
            CP!clientVars, CP!readVars, CP!recvVars, CP!writeVars, CP!implVars,
            CP!poolVars, C!Handler, CP!Handler, C!Running, CP!Running,
            C!RemoveClient, CP!RemoveClient, C!MapFree, CP!MapFree
<1>1. C!HeaderFailed(c) => CP!HeaderFailed(c)
  BY DEF C!HeaderFailed, CP!HeaderFailed
<1>2. C!PacRequest(c) => CP!PacRequest(c)
  BY DEF C!PacRequest, CP!PacRequest, C!DoWrite, CP!DoWrite, C!FirstChunk, CP!FirstChunk
<1>3. C!PacWritten(c) => CP!PacWritten(c)
  BY DEF C!PacWritten, CP!PacWritten
<1>4. C!ConnectRequest(c) => CP!ConnectRequest(c)
  BY DEF C!ConnectRequest, CP!ConnectRequest, C!PushTuple, CP!PushTuple,
         C!SendToMainSocket, CP!SendToMainSocket, C!AddSendBuffer,
         CP!AddSendBuffer, C!CallSend, CP!CallSend
<1> QED
  BY <1>1, <1>2, <1>3, <1>4 DEF C!Requesting, CP!Requesting

LEMMA ClientRelaying ==
  ASSUME NEW c \in Sids, SP!QueuesTypeOK, CP!QueuesTypeOK,
         \/ C!ReadChunk(c) /\ MayRead(c)
         \/ C!StopReading(c) \/ C!ReadFailed(c) \/ C!ChunkWritten(c)
         \/ C!WriteFailed(c) \/ C!RemoveSelf(c)
  PROVE  CP!Relaying(c)
<1> USE DEF C!clientVars, C!readVars, C!recvVars, C!writeVars, C!implVars, C!poolVars,
            CP!clientVars, CP!readVars, CP!recvVars, CP!writeVars, CP!implVars,
            CP!poolVars, C!Handler, CP!Handler, C!Running, CP!Running,
            C!PushTuple, CP!PushTuple, C!SendDisconnect, CP!SendDisconnect,
            C!SendToMainSocket, CP!SendToMainSocket,
            C!AddSendBuffer, CP!AddSendBuffer, C!CallSend, CP!CallSend
<1>1. C!ReadChunk(c) => CP!ReadChunk(c)
  BY DEF C!ReadChunk, CP!ReadChunk, C!ReadOnUnlessFull, CP!ReadOnUnlessFull
<1>2. MayRead(c) => c_pushed[c] <= MaxPushes + 1
  <2>1. c_pushed[c] \in Nat /\ s_pushed[c] \in Nat
    BY DEF CP!QueuesTypeOK, SP!QueuesTypeOK
  <2> QED
    BY <2>1, ProxyAssumption DEF MayRead
<1>3. C!StopReading(c) => CP!StopReading(c)
  BY DEF C!StopReading, CP!StopReading, C!ClearReading, CP!ClearReading
<1>4. C!ReadFailed(c) => CP!ReadFailed(c)
  BY DEF C!ReadFailed, CP!ReadFailed
<1>5. C!ChunkWritten(c) => CP!ChunkWritten(c)
  BY DEF C!ChunkWritten, CP!ChunkWritten, C!PopAndWriteNext, CP!PopAndWriteNext
<1>6. C!WriteFailed(c) => CP!WriteFailed(c)
  BY DEF C!WriteFailed, CP!WriteFailed
<1>7. C!RemoveSelf(c) => CP!RemoveSelf(c)
  BY DEF C!RemoveSelf, CP!RemoveSelf, C!RemoveClient, CP!RemoveClient, C!MapFree,
         CP!MapFree
<1> QED
  BY <1>1, <1>2, <1>3, <1>4, <1>5, <1>6, <1>7 DEF CP!Relaying

LEMMA ClientSideIsStep ==
  ASSUME ClientSide, SP!QueuesTypeOK, CP!QueuesTypeOK
  PROVE  CP!OwnStep
<1> USE DEF C!clientVars, C!readVars, C!recvVars, C!writeVars, C!implVars, C!poolVars,
            CP!clientVars, CP!readVars, CP!recvVars, CP!writeVars, CP!implVars,
            CP!poolVars, C!Running, CP!Running, C!MapFree, CP!MapFree,
            C!SendToMainSocket, CP!SendToMainSocket,
            C!AddSendBuffer, CP!AddSendBuffer, C!CallSend, CP!CallSend
<1>1. ASSUME NEW c \in Sids, ClientStep(c)
      PROVE  CP!Accept(c) \/ CP!Requesting(c) \/ CP!Relaying(c) \/ CP!SetConnected(c)
  <2>1. C!Accept(c) => CP!Accept(c)
    BY DEF C!Accept, CP!Accept, C!ReadSome, CP!ReadSome
  <2>2. AnswerTaken(c) => CP!SetConnected(c)
    BY DEF AnswerTaken, C!SetConnected, CP!SetConnected, C!ClientAddSendBuffer,
           CP!ClientAddSendBuffer, C!DoWrite, CP!DoWrite, C!Established,
           CP!Established, C!FirstChunk, CP!FirstChunk
  <2> QED
    BY <1>1, <2>1, <2>2, ClientRequesting, ClientRelaying DEF ClientStep
<1>2. C!HostFinishes => CP!HostFinishes
  BY DEF C!HostFinishes, CP!HostFinishes, C!FinishSend, CP!FinishSend
<1>3. C!SendComplete => CP!SendComplete
  BY DEF C!SendComplete, CP!SendComplete, C!NotifyMainSocketComplete,
         CP!NotifyMainSocketComplete, C!PopTuple, CP!PopTuple, C!RearmReading,
         CP!RearmReading, C!ReadSome, CP!ReadSome, C!ResumeAt, CP!ResumeAt
<1>4. C!SendNext => CP!SendNext
  BY DEF C!SendNext, CP!SendNext, C!PopFrame, CP!PopFrame
<1> QED
  BY <1>1, <1>2, <1>3, <1>4 DEF ClientSide, CP!OwnStep

LEMMA ClientRecv ==
  ASSUME NEW c \in Sids
  PROVE  /\ C!RecvAnswer(c) => CP!RecvAnswer(c)
         /\ C!RecvData(c) => CP!RecvData(c)
         /\ C!RecvDisconnect(c) => CP!RecvDisconnect(c)
BY DEF C!clientVars, C!readVars, C!recvVars, C!writeVars, C!implVars, C!poolVars,
       CP!clientVars, CP!readVars, CP!recvVars, CP!writeVars, CP!implVars,
       CP!poolVars, C!MapFree, CP!MapFree, C!WasHanded, CP!WasHanded,
       C!Sending, CP!Sending, C!Live, CP!Live, C!FirstLive, CP!FirstLive,
       C!RecvAnswer, CP!RecvAnswer, C!RecvData, CP!RecvData,
       C!ClientAddSendBuffer, CP!ClientAddSendBuffer, C!DoWrite, CP!DoWrite,
       C!RecvDisconnect, CP!RecvDisconnect, C!RemoveClient, CP!RemoveClient
-----------------------------------------------------------------------------
(* The invariants of the managers hold in Proxy.                           *)

LEMMA ClientNext ==
  ASSUME CP!QueuesTypeOK, SP!QueuesTypeOK, [Next]_vars
  PROVE  [CP!Next]_(CP!vars)
<1>1. CASE ClientSide
  BY <1>1, ClientSideIsStep DEF CP!OwnStep, CP!Next, CP!Peer
<1>2. ASSUME NEW c \in Sids, ToClient(c) PROVE CP!Next
  BY <1>2, ClientRecv DEF ToClient, CP!Next, CP!Peer
<1>3. CASE UNCHANGED clientVars
  BY <1>3 DEF clientVars, CP!vars, CP!clientVars, CP!readVars, CP!recvVars,
              CP!writeVars, CP!implVars, CP!poolVars
<1> QED
  BY <1>1, <1>2, <1>3 DEF Next, vars, ServerSide, ToServer

LEMMA ServerNext ==
  ASSUME CP!QueuesTypeOK, SP!QueuesTypeOK, [Next]_vars
  PROVE  [SP!Next]_(SP!vars)
<1>1. CASE ServerSide
  BY <1>1, ServerSideIsStep DEF SP!OwnStep, SP!Next
<1>2. ASSUME NEW c \in Sids, ToServer(c) PROVE SP!Next \/ UNCHANGED serverVars
  BY <1>2, ServerRecv DEF ToServer, Refuse, NothingToRemove, SP!Next, SP!Peer
<1>3. CASE UNCHANGED serverVars
  BY <1>3 DEF serverVars, SP!vars, SP!clientVars, SP!readVars, SP!recvVars,
              SP!writeVars, SP!implVars
<1> QED
  BY <1>1, <1>2, <1>3 DEF Next, vars, ClientSide, ToClient

ClientInv == CP!IInv /\ CP!TupleInv /\ CP!OrderInv /\ CP!FlowInv /\ CP!LossInv
ServerInv == SP!IInv /\ SP!StreamInv /\ SP!OrderInv /\ SP!LossInv
ManagersInv == ClientInv /\ ServerInv

LEMMA ManagersTypes ==
  ASSUME ManagersInv
  PROVE  CP!QueuesTypeOK /\ SP!QueuesTypeOK
BY DEF ManagersInv, ClientInv, ServerInv, CP!IInv, SP!IInv, SP!QueueInv, SP!TransportInv

\* Every connection of either end keeps what it has to send.
LEMMA NextKeepsManagers ==
  ASSUME Quiet, ManagersInv, [Next]_vars
  PROVE  ManagersInv' /\ \A c \in Sids : CP!Grows(c) /\ SP!Grows(c)
<1>1. [CP!Next]_(CP!vars) /\ [SP!Next]_(SP!vars)
  BY ManagersTypes, ClientNext, ServerNext
<1>2. CP!Quiet
  BY DEF Quiet, CP!Quiet
<1>3. CP!IInv'
  BY <1>1, CP!NextKeepsIInv, Instances DEF ManagersInv, ClientInv
<1>4. CP!TupleInv'
  <2>1. CP!QueuesTypeOK'
    BY <1>3 DEF CP!IInv
  <2> QED
    BY <1>1, <2>1, CP!NextKeepsTuples, Instances DEF ManagersInv, ClientInv
<1>5. CP!FlowInv'
  BY <1>1, <1>2, CP!NextKeepsFlow, Instances DEF ManagersInv, ClientInv
<1>6. CP!LossInv' /\ \A c \in Sids : CP!Grows(c)
  BY <1>1, CP!NextLosesNothing, Instances DEF ManagersInv, ClientInv
<1>7. SP!IInv'
  BY <1>1, SP!NextKeepsIInv, Instances DEF ManagersInv, ServerInv
<1>8. SP!StreamInv'
  BY <1>1, SP!NextKeepsStream, Instances DEF ManagersInv, ServerInv
<1>9. SP!LossInv' /\ \A c \in Sids : SP!Grows(c)
  BY <1>1, SP!NextLosesNothing, Instances DEF ManagersInv, ServerInv
<1>10. CP!OrderInv'
  BY <1>1, CP!NextKeepsOrder, Instances DEF ManagersInv, ClientInv
<1>11. SP!OrderInv'
  BY <1>1, SP!NextKeepsOrder, Instances DEF ManagersInv, ServerInv
<1> QED
  BY <1>3, <1>4, <1>5, <1>6, <1>7, <1>8, <1>9, <1>10, <1>11
     DEF ManagersInv, ClientInv, ServerInv

LEMMA InitManagers == Init => ManagersInv
<1> SUFFICES ASSUME Init PROVE ManagersInv
  OBVIOUS
<1>1. CP!Init /\ SP!Init
  BY ClientInit, ServerInit DEF Init
<1>2. ClientInv
  BY <1>1, CP!InitIInv, CP!InitTuples, CP!InitOrder, CP!InitFlow, CP!InitLosesNothing, Instances
     DEF ClientInv
<1>3. ServerInv
  BY <1>1, SP!InitIInv, SP!InitStream, SP!InitOrder, SP!InitLosesNothing, Instances DEF ServerInv
<1> QED
  BY <1>2, <1>3 DEF ManagersInv
-----------------------------------------------------------------------------
(* What the frames on their way say of both ends.                          *)

\* One of the first n frames is a tcp_disconnect.
Dropped(n, frames) == \E i \in 1 .. n : frames[i].type = "tcp_disconnect"

\* The connection starts with the first frame that arrives, unless that one is
\* refused.
Started(c) ==
  /\ toServer[c] \in 0 .. Len(c_out[c])
  /\ toServer[c] = 0 <=> s_stage[c] = "none" /\ c \notin refused
  /\ c \in refused => s_stage[c] = "none"
  /\ s_stage[c] = "none" => c \notin s_clients_map_

\* It was answered when the first frame to come back is an answer.
AnswerArrived(c) ==
  /\ toClient[c] \in 0 .. Len(s_out[c])
  /\ c_answer[c] # "no" <=> toClient[c] > 0 /\ s_out[c][1].type = "tcp_connect"

\* An end drops it when the other says so, and only then or after it has said
\* so itself.
ServerEnd(c) ==
  /\ Dropped(toServer[c], c_out[c]) => c \notin s_clients_map_
  /\ s_stage[c] # "none" =>
       c \in s_clients_map_ \/ SP!Leaving(c) \/ Dropped(toServer[c], c_out[c])
ClientEnd(c) ==
  /\ Dropped(toClient[c], s_out[c]) => c \notin c_clients_map_
  /\ c_stage[c] = "relaying" =>
       c \in c_clients_map_ \/ CP!Leaving(c) \/ Dropped(toClient[c], s_out[c])

WireOK(c) == Started(c) /\ AnswerArrived(c) /\ ServerEnd(c) /\ ClientEnd(c)

WireInv ==
  /\ toServer \in [Sids -> Nat] /\ toClient \in [Sids -> Nat]
  /\ \A c \in Sids : WireOK(c)

\* What arrived stays what it is while more is handed over.
LEMMA WireKept ==
  ASSUME NEW T, NEW s \in Seq(T), NEW r \in Seq(T), NEW n \in 0 .. Len(s),
         \A i \in DOMAIN s : i \in DOMAIN r /\ r[i] = s[i]
  PROVE  /\ n \in 0 .. Len(r)
         /\ Dropped(n, r) <=> Dropped(n, s)
         /\ n > 0 => r[1] = s[1]
<1>1. /\ Len(s) \in Nat /\ Len(r) \in Nat
      /\ DOMAIN s = 1 .. Len(s) /\ DOMAIN r = 1 .. Len(r)
  OBVIOUS
<1>2. \A i \in 1 .. n : i \in DOMAIN r /\ r[i] = s[i]
  BY <1>1
<1>3. n \in 0 .. Len(r)
  <2>1. n > 0 => n \in 1 .. n
    OBVIOUS
  <2> QED
    BY <1>1, <1>2, <2>1
<1>4. n > 0 => 1 \in 1 .. n
  OBVIOUS
<1> QED
  BY <1>2, <1>3, <1>4 DEF Dropped

\* The frames the client hands over: the request first, data when answered.
LEMMA ClientSays ==
  ASSUME ClientInv, NEW c \in Sids
  PROVE  /\ c_out[c] \in Seq(CP!Tuples)
         /\ c_out[c] # <<>> => c_stage[c] = "relaying" /\ c_out[c][1].type = "tcp_connect"
         /\ \A i \in DOMAIN c_out[c] :
              /\ c_out[c][i] \in CP!Known(c)
              /\ c_out[c][i].type \in {"tcp_connect", "tcp_disconnect", "tcp_data"}
              /\ c_out[c][i].type = "tcp_connect" => i = 1
              /\ c_out[c][i].type = "tcp_data" => c_answer[c] # "no"
<1>1. /\ CP!QueuesTypeOK /\ CP!SocketOK(c) /\ CP!HandedInOrder /\ CP!TupleOK(c)
      /\ c_answer[c] \in {"no", "setting", "yes"}
  BY DEF ClientInv, CP!IInv, CP!SocketInv, CP!ClientTypeOK, CP!TupleInv, CP!FlowInv,
         CP!TransportInv
<1>2. c_out[c] \in Seq(CP!Tuples)
  BY <1>1 DEF CP!QueuesTypeOK
<1>3. c_out[c] # <<>> => c_stage[c] = "relaying" /\ c_out[c][1].type = "tcp_connect"
  BY <1>1, CP!HandedIsRelaying, Instances DEF ClientInv, CP!TupleOK, CP!Requested
<1>4. ASSUME NEW i \in DOMAIN c_out[c]
      PROVE  /\ c_out[c][i] \in CP!Known(c)
             /\ c_out[c][i].type \in {"tcp_connect", "tcp_disconnect", "tcp_data"}
             /\ c_out[c][i].type = "tcp_connect" => i = 1
             /\ c_out[c][i].type = "tcp_data" => c_answer[c] # "no"
  <2>1. c_out[c][i] \in CP!Elements(c_out[c])
    BY DEF CP!Elements
  <2>2. c_out[c][i] \in CP!Known(c)
    BY <2>1 DEF CP!Known
  <2>3. c_out[c][i].type \in {"tcp_connect", "tcp_disconnect", "tcp_data"}
    <3>1. c_out[c][i] \in CP!Tuples
      BY <1>2
    <3> QED
      BY <3>1 DEF CP!Tuples, CP!FrameTypes
  <2>4. c_out[c][i].type = "tcp_connect" => i = 1
    BY <1>1, <2>2 DEF CP!TupleOK, CP!RequestFirst, CP!HandedInOrder
  <2>5. c_out[c][i].type = "tcp_data" => c_answer[c] # "no"
    BY <1>1, <2>1 DEF CP!TupleOK, CP!Gated, CP!MaySendData, CP!SocketOK, CP!Connected
  <2> QED
    BY <2>2, <2>3, <2>4, <2>5
<1> QED
  BY <1>2, <1>3, <1>4

\* The frames the server hands over: its answer first, then data.
LEMMA ServerSays ==
  ASSUME ServerInv, NEW c \in Sids
  PROVE  /\ s_out[c] \in Seq(SP!Tuples)
         /\ s_out[c] # <<>> => s_stage[c] = "done"
         /\ \A i \in DOMAIN s_out[c] :
              /\ s_out[c][i] \in SP!Known(c)
              /\ s_out[c][i].type \in {"tcp_connect", "tcp_disconnect", "tcp_data"}
              /\ s_out[c][i].type = "tcp_connect" => i = 1
              /\ s_out[c][i].type = "tcp_data" => i > 1 /\ s_out[c][1].type = "tcp_connect"
<1>1. SP!QueuesTypeOK /\ SP!HandedInOrder /\ SP!Answered(c)
  BY DEF ServerInv, SP!IInv, SP!QueueInv, SP!TransportInv, SP!StreamInv
<1>2. s_out[c] \in Seq(SP!Tuples)
  BY <1>1 DEF SP!QueuesTypeOK
<1>3. s_out[c] # <<>> => s_stage[c] = "done"
  BY SP!AnsweredIsDone, Instances DEF ServerInv
<1>4. ASSUME NEW i \in DOMAIN s_out[c]
      PROVE  /\ s_out[c][i] \in SP!Known(c)
             /\ s_out[c][i].type \in {"tcp_connect", "tcp_disconnect", "tcp_data"}
             /\ s_out[c][i].type = "tcp_connect" => i = 1
             /\ s_out[c][i].type = "tcp_data" => i > 1 /\ s_out[c][1].type = "tcp_connect"
  <2>1. i \in Nat /\ i > 0 /\ 1 \in DOMAIN s_out[c]
    BY <1>2
  <2>2. s_out[c][i] \in SP!Known(c) /\ s_out[c][1] \in SP!Known(c)
    BY <2>1 DEF SP!Known, SP!Elements
  <2>3. s_out[c][i].n = i /\ s_out[c][1].n = 1
    BY <1>1, <2>1 DEF SP!HandedInOrder
  <2>4. s_out[c][i].type \in {"tcp_connect", "tcp_disconnect", "tcp_data"}
    <3>1. s_out[c][i] \in SP!Tuples
      BY <1>2
    <3> QED
      BY <3>1 DEF SP!Tuples, SP!FrameTypes
  <2> QED
    BY <1>1, <2>1, <2>2, <2>3, <2>4 DEF SP!Answered, SP!FirstIsConnect
<1> QED
  BY <1>2, <1>3, <1>4

LEMMA ClientSideKeepsWire ==
  ASSUME ManagersInv, WireInv, ClientSide, ClientInv', \A d \in Sids : CP!Grows(d)
  PROVE  WireInv'
<1>1. CP!OwnStep
  BY ManagersTypes, ClientSideIsStep
<1>2. UNCHANGED <<serverVars, wire>>
  BY DEF ClientSide
<1> SUFFICES ASSUME NEW c \in Sids PROVE WireOK(c)'
  BY <1>2 DEF WireInv, wire
<1>3. /\ UNCHANGED <<s_out, s_stage, s_clients_map_, toServer, refused, toClient>>
      /\ SP!Leaving(c)' = SP!Leaving(c)
  BY <1>2 DEF serverVars, wire, SP!Leaving, SP!Known, SP!Queued, SP!Places
<1>4. /\ c_answer'[c] = "no" <=> c_answer[c] = "no"
      /\ c \in c_clients_map_' => c \in c_clients_map_ \/ c_stage[c] = "none"
      /\ c_stage'[c] = "relaying" => \/ c \in c_clients_map_' \/ c_removing[c]
                                     \/ c_stage[c] = "relaying" /\ c \notin c_clients_map_
  BY <1>1, CP!OwnStepEffect, Instances DEF ManagersInv, ClientInv
<1>5. WireOK(c) /\ CP!Grows(c) /\ CP!Told(c)
  BY DEF WireInv, ManagersInv, ClientInv, CP!LossInv
<1>6. /\ toServer[c] \in 0 .. Len(c_out'[c])
      /\ Dropped(toServer[c], c_out'[c]) <=> Dropped(toServer[c], c_out[c])
  <2>1. c_out[c] \in Seq(CP!Tuples)
    BY ClientSays DEF ManagersInv
  <2>2. c_out'[c] \in Seq(CP!Tuples)
    BY DEF ClientInv, CP!IInv, CP!QueuesTypeOK, CP!Tuples, CP!FrameTypes
  <2>3. toServer[c] \in 0 .. Len(c_out[c])
    BY <1>5 DEF WireOK, Started
  <2>4. \A i \in DOMAIN c_out[c] : i \in DOMAIN c_out'[c] /\ c_out'[c][i] = c_out[c][i]
    BY <1>5 DEF CP!Grows, CP!Begins
  <2> QED
    BY <2>1, <2>2, <2>3, <2>4, WireKept
<1>7. CP!Leaving(c) => CP!Leaving(c)'
  BY <1>5 DEF CP!Grows, CP!Leaving
<1>8. Started(c)' /\ AnswerArrived(c)' /\ ServerEnd(c)'
  BY <1>3, <1>4, <1>5, <1>6 DEF WireOK, Started, AnswerArrived, ServerEnd
<1>9. ClientEnd(c)'
  <2>1. Dropped(toClient[c], s_out[c]) => c_stage[c] # "none"
    <3>1. SUFFICES ASSUME Dropped(toClient[c], s_out[c]) PROVE c_stage[c] # "none"
      OBVIOUS
    <3>2. s_out[c] # <<>>
      BY <1>5, <3>1, ServerSays DEF Dropped, WireOK, AnswerArrived, ManagersInv
    <3>3. s_stage[c] = "done"
      BY <3>2, ServerSays DEF ManagersInv
    <3>4. c_out[c] # <<>>
      BY <1>5, <3>3, ClientSays DEF WireOK, Started, ManagersInv
    <3> QED
      BY <3>4, ClientSays DEF ManagersInv
  <2>2. c_removing[c] => CP!Leaving(c)
    BY <1>5 DEF CP!Told
  <2> QED
    BY <1>3, <1>4, <1>5, <1>7, <2>1, <2>2 DEF WireOK, ClientEnd
<1> QED
  BY <1>8, <1>9 DEF WireOK

LEMMA ServerSideKeepsWire ==
  ASSUME ManagersInv, WireInv, ServerSide, ServerInv', \A d \in Sids : SP!Grows(d)
  PROVE  WireInv'
<1>1. SP!OwnStep
  BY ManagersTypes, ServerSideIsStep
<1>2. UNCHANGED <<clientVars, wire>>
  BY DEF ServerSide
<1> SUFFICES ASSUME NEW c \in Sids PROVE WireOK(c)'
  BY <1>2 DEF WireInv, wire
<1>3. /\ UNCHANGED <<c_out, c_stage, c_answer, c_clients_map_, toServer, refused, toClient>>
      /\ CP!Leaving(c)' = CP!Leaving(c)
  BY <1>2 DEF clientVars, wire, CP!Leaving, CP!Known, CP!Queued, CP!Places
<1>4. /\ s_stage'[c] = "none" <=> s_stage[c] = "none"
      /\ c \in s_clients_map_' => c \in s_clients_map_
      /\ c \in s_clients_map_ => c \in s_clients_map_' \/ s_removing[c]
  BY <1>1, SP!OwnStepEffect, Instances DEF ManagersInv, ServerInv
<1>5. WireOK(c) /\ SP!Grows(c) /\ SP!Told(c)
  BY DEF WireInv, ManagersInv, ServerInv, SP!LossInv
<1>6. /\ toClient[c] \in 0 .. Len(s_out'[c])
      /\ Dropped(toClient[c], s_out'[c]) <=> Dropped(toClient[c], s_out[c])
      /\ toClient[c] > 0 => s_out'[c][1] = s_out[c][1]
  <2>1. s_out[c] \in Seq(SP!Tuples)
    BY ServerSays DEF ManagersInv
  <2>2. s_out'[c] \in Seq(SP!Tuples)
    BY DEF ServerInv, SP!IInv, SP!QueueInv, SP!TransportInv, SP!QueuesTypeOK,
           SP!Tuples, SP!FrameTypes
  <2>3. toClient[c] \in 0 .. Len(s_out[c])
    BY <1>5 DEF WireOK, AnswerArrived
  <2>4. \A i \in DOMAIN s_out[c] : i \in DOMAIN s_out'[c] /\ s_out'[c][i] = s_out[c][i]
    BY <1>5 DEF SP!Grows, SP!Begins
  <2> QED
    BY <2>1, <2>2, <2>3, <2>4, WireKept
<1>7. SP!Leaving(c) => SP!Leaving(c)'
  BY <1>5 DEF SP!Grows, SP!Leaving
<1>8. Started(c)' /\ AnswerArrived(c)' /\ ClientEnd(c)'
  BY <1>3, <1>4, <1>5, <1>6 DEF WireOK, Started, AnswerArrived, ClientEnd
<1>9. ServerEnd(c)'
  <2>1. s_removing[c] => SP!Leaving(c)
    BY <1>5 DEF SP!Told
  <2> QED
    BY <1>3, <1>4, <1>5, <1>7, <2>1 DEF WireOK, ServerEnd
<1> QED
  BY <1>8, <1>9 DEF WireOK

LEMMA OneMoreDropped ==
  ASSUME NEW n \in Nat, NEW frames
  PROVE  Dropped(n + 1, frames) <=>
           Dropped(n, frames) \/ frames[n + 1].type = "tcp_disconnect"
<1>1. \A i : i \in 1 .. n + 1 <=> i \in 1 .. n \/ i = n + 1
  OBVIOUS
<1> QED
  BY <1>1 DEF Dropped

LEMMA ToServerKeepsWire ==
  ASSUME ManagersInv, WireInv, NEW c \in Sids, ToServer(c), \A d \in Sids : SP!Grows(d)
  PROVE  WireInv'
<1> DEFINE n == toServer[c]
           type == c_out[c][n + 1].type
<1>1. /\ n \in Nat /\ n < Len(c_out[c]) /\ Len(c_out[c]) \in Nat
      /\ c_out[c] # <<>> /\ n + 1 \in DOMAIN c_out[c] /\ toServer \in [Sids -> Nat]
  <2>1. \A d \in Sids : c_out[d] \in Seq(CP!Tuples) /\ toServer[d] \in 0 .. Len(c_out[d])
    BY ClientSays DEF ManagersInv, WireInv, WireOK, Started
  <2>2. n < Len(c_out[c])
    BY DEF ToServer
  <2>3. n + 1 \in 1 .. Len(c_out[c])
    BY <2>1, <2>2
  <2> QED
    BY <2>1, <2>2, <2>3 DEF WireInv
<1>2. /\ UNCHANGED <<c_out, c_stage, c_answer, c_clients_map_, toClient>>
      /\ \A d \in Sids : CP!Leaving(d)' = CP!Leaving(d)
  BY DEF ToServer, clientVars, CP!Leaving, CP!Known, CP!Queued, CP!Places
<1>3. /\ toServer' = [toServer EXCEPT ![c] = @ + 1]
      /\ s_out' = s_out
      /\ \/ /\ type = "tcp_connect" /\ s_stage[c] = "none"
            /\ s_stage' = [s_stage EXCEPT ![c] = "resolving"]
            /\ s_clients_map_' = s_clients_map_ \cup {c}
            /\ refused' = refused
         \/ /\ type = "tcp_connect" /\ refused' = refused \cup {c}
            /\ UNCHANGED <<s_stage, s_clients_map_>>
         \/ /\ type = "tcp_data" \/ (type = "tcp_disconnect" /\ c \in refused)
            /\ UNCHANGED <<s_stage, s_clients_map_, refused>>
         \/ /\ type = "tcp_disconnect" /\ s_stage[c] # "none"
            /\ UNCHANGED <<s_stage, refused>>
            /\ s_clients_map_' = s_clients_map_ \ {c}
  BY DEF ToServer, Refuse, NothingToRemove, serverVars, S!RecvConnect, S!RecvData,
         S!RecvDisconnect, S!RemoveClient, S!clientVars, S!implVars
<1>4. s_stage \in [Sids -> {"none", "resolving", "connecting", "requesting", "done"}]
  BY DEF ManagersInv, ServerInv, SP!IInv, SP!SocketInv, SP!SocketsTypeOK
<1>5. \A d \in Sids : WireOK(d) /\ (SP!Leaving(d) => SP!Leaving(d)')
  BY DEF WireInv, SP!Grows, SP!Leaving
<1>6. ASSUME NEW d \in Sids \ {c} PROVE WireOK(d)'
  <2>1. /\ toServer'[d] = toServer[d] /\ s_stage'[d] = s_stage[d]
        /\ d \in s_clients_map_' <=> d \in s_clients_map_
        /\ d \in refused' <=> d \in refused
    BY <1>1, <1>3, <1>4
  <2> QED
    BY <1>2, <1>3, <1>5, <2>1
       DEF WireOK, Started, AnswerArrived, ServerEnd, ClientEnd
<1>7. WireOK(c)'
  <2>1. toServer'[c] = n + 1
    BY <1>1, <1>3
  <2>2. /\ c_out[c][1].type = "tcp_connect" /\ (type = "tcp_connect" => n = 0)
    BY <1>1, ClientSays DEF ManagersInv
  <2>3. Dropped(n + 1, c_out[c]) <=> Dropped(n, c_out[c]) \/ type = "tcp_disconnect"
    BY <1>1, OneMoreDropped
  <2>4. n = 0 => ~Dropped(n, c_out[c])
    BY DEF Dropped
  <2>5. WireOK(c) /\ (SP!Leaving(c) => SP!Leaving(c)')
    BY <1>5
  <2>6. /\ n = 0 <=> s_stage[c] = "none" /\ c \notin refused
        /\ c \in refused => s_stage[c] = "none"
        /\ s_stage[c] = "none" => c \notin s_clients_map_
    BY <2>5 DEF WireOK, Started
  <2>7. n = 0 => type = "tcp_connect"
    BY <2>2
  <2> HIDE DEF type, n
  <2>8. AnswerArrived(c)' /\ ClientEnd(c)'
    BY <1>2, <1>3, <2>5 DEF WireOK, AnswerArrived, ClientEnd
  <2>9. Started(c)' /\ ServerEnd(c)'
    <3>1. n + 1 \in 0 .. Len(c_out[c]) /\ n + 1 # 0
      BY <1>1 DEF n
    <3>2. /\ Dropped(n, c_out[c]) => c \notin s_clients_map_
          /\ s_stage[c] # "none" =>
               c \in s_clients_map_ \/ SP!Leaving(c) \/ Dropped(n, c_out[c])
      BY <2>5 DEF WireOK, ServerEnd, n
    <3>3. CASE type = "tcp_connect"
      <4>1. n = 0 /\ s_stage[c] = "none" /\ c \notin refused /\ c \notin s_clients_map_
        BY <2>2, <2>6, <3>3
      <4>2. CASE /\ s_stage' = [s_stage EXCEPT ![c] = "resolving"] /\ refused' = refused
                 /\ s_clients_map_' = s_clients_map_ \cup {c}
        <5>1. s_stage'[c] = "resolving" /\ c \in s_clients_map_' /\ c \notin refused'
          BY <1>4, <4>1, <4>2
        <5> QED
          BY <1>2, <2>1, <2>3, <2>4, <3>1, <3>3, <4>1, <5>1 DEF Started, ServerEnd
      <4>3. CASE refused' = refused \cup {c} /\ UNCHANGED <<s_stage, s_clients_map_>>
        BY <1>2, <2>1, <2>3, <2>4, <3>1, <3>3, <4>1, <4>3 DEF Started, ServerEnd
      <4> QED
        BY <1>3, <3>3, <4>2, <4>3
    <3>4. CASE /\ type = "tcp_data" \/ (type = "tcp_disconnect" /\ c \in refused)
               /\ UNCHANGED <<s_stage, s_clients_map_, refused>>
      <4>1. n # 0 /\ (s_stage[c] # "none" \/ c \in refused)
        BY <2>6, <2>7, <3>4
      <4>2. type = "tcp_disconnect" => s_stage[c] = "none" /\ c \notin s_clients_map_
        BY <2>6, <3>4
      <4>3. Started(c)'
        BY <1>2, <2>1, <2>6, <3>1, <3>4, <4>1 DEF Started
      <4> QED
        BY <1>2, <2>1, <2>3, <2>5, <3>2, <3>4, <4>2, <4>3 DEF ServerEnd
    <3>5. CASE /\ type = "tcp_disconnect" /\ s_stage[c] # "none"
               /\ UNCHANGED <<s_stage, refused>> /\ s_clients_map_' = s_clients_map_ \ {c}
      <4>1. c \notin s_clients_map_' /\ c \notin refused
        BY <2>6, <3>5
      <4> QED
        BY <1>2, <2>1, <2>3, <3>1, <3>5, <4>1 DEF Started, ServerEnd
    <3> QED
      BY <1>3, <3>3, <3>4, <3>5
  <2> QED
    BY <2>8, <2>9 DEF WireOK
<1>8. toServer' \in [Sids -> Nat] /\ toClient' \in [Sids -> Nat]
  BY <1>1, <1>2, <1>3 DEF WireInv
<1> QED
  BY <1>6, <1>7, <1>8 DEF WireInv

LEMMA ToClientKeepsWire ==
  ASSUME ManagersInv, WireInv, NEW c \in Sids, ToClient(c), \A d \in Sids : CP!Grows(d)
  PROVE  WireInv'
<1> DEFINE n == toClient[c]
           type == s_out[c][n + 1].type
<1>1. /\ n \in Nat /\ n < Len(s_out[c]) /\ Len(s_out[c]) \in Nat
      /\ s_out[c] # <<>> /\ n + 1 \in DOMAIN s_out[c] /\ toClient \in [Sids -> Nat]
  <2>1. \A d \in Sids : s_out[d] \in Seq(SP!Tuples) /\ toClient[d] \in 0 .. Len(s_out[d])
    BY ServerSays DEF ManagersInv, WireInv, WireOK, AnswerArrived
  <2>2. n < Len(s_out[c])
    BY DEF ToClient
  <2>3. n + 1 \in 1 .. Len(s_out[c])
    BY <2>1, <2>2
  <2> QED
    BY <2>1, <2>2, <2>3 DEF WireInv
<1>2. /\ UNCHANGED <<s_out, s_stage, s_clients_map_, toServer, refused>>
      /\ \A d \in Sids : SP!Leaving(d)' = SP!Leaving(d)
  BY DEF ToClient, serverVars, SP!Leaving, SP!Known, SP!Queued, SP!Places
<1>3. /\ toClient' = [toClient EXCEPT ![c] = @ + 1]
      /\ c_out' = c_out /\ c_stage' = c_stage
      /\ \/ /\ type = "tcp_connect" /\ c_answer[c] = "no"
            /\ \E a \in {"setting", "yes"} : c_answer' = [c_answer EXCEPT ![c] = a]
            /\ c_clients_map_' = c_clients_map_
         \/ /\ type = "tcp_data"
            /\ UNCHANGED <<c_answer, c_clients_map_>>
         \/ /\ type = "tcp_disconnect"
            /\ c_answer' = c_answer
            /\ c_clients_map_' = c_clients_map_ \ {c}
  BY DEF ToClient, C!RecvAnswer, C!RecvData, C!RecvDisconnect, C!RemoveClient,
         C!clientVars, C!implVars
<1>4. c_answer \in [Sids -> {"no", "setting", "yes"}]
  BY DEF ManagersInv, ClientInv, CP!IInv, CP!ClientTypeOK
<1>5. \A d \in Sids : WireOK(d) /\ (CP!Leaving(d) => CP!Leaving(d)')
  BY DEF WireInv, CP!Grows, CP!Leaving
<1>6. ASSUME NEW d \in Sids \ {c} PROVE WireOK(d)'
  <2>1. /\ toClient'[d] = toClient[d] /\ c_answer'[d] = c_answer[d]
        /\ d \in c_clients_map_' <=> d \in c_clients_map_
    BY <1>1, <1>3, <1>4
  <2> QED
    BY <1>2, <1>3, <1>5, <2>1
       DEF WireOK, Started, AnswerArrived, ServerEnd, ClientEnd
<1>7. WireOK(c)'
  <2>1. toClient'[c] = n + 1
    BY <1>1, <1>3
  <2>2. /\ type = "tcp_connect" => n = 0
        /\ type = "tcp_data" => n > 0 /\ s_out[c][1].type = "tcp_connect"
        /\ n = 0 => type = s_out[c][1].type
    BY <1>1, ServerSays DEF ManagersInv
  <2>3. Dropped(n + 1, s_out[c]) <=> Dropped(n, s_out[c]) \/ type = "tcp_disconnect"
    BY <1>1, OneMoreDropped
  <2>4. n = 0 => ~Dropped(n, s_out[c])
    BY DEF Dropped
  <2>5. WireOK(c) /\ (CP!Leaving(c) => CP!Leaving(c)')
    BY <1>5
  <2>6. c_answer[c] # "no" <=> n > 0 /\ s_out[c][1].type = "tcp_connect"
    BY <2>5 DEF WireOK, AnswerArrived
  <2> HIDE DEF type, n
  <2>7. Started(c)' /\ ServerEnd(c)'
    BY <1>2, <1>3, <2>5 DEF WireOK, Started, ServerEnd
  <2>8. AnswerArrived(c)'
    <3>1. n + 1 \in 0 .. Len(s_out[c]) /\ n + 1 > 0
      BY <1>1 DEF n
    <3>2. c_answer'[c] # "no" <=> s_out[c][1].type = "tcp_connect"
      <4>1. CASE type = "tcp_connect"
        <5>1. c_answer'[c] # "no"
          BY <1>3, <1>4, <4>1
        <5> QED
          BY <2>2, <4>1, <5>1
      <4>2. CASE type = "tcp_data"
        BY <1>3, <2>2, <2>6, <4>2
      <4>3. CASE type = "tcp_disconnect"
        <5>1. n \in Nat /\ (n > 0 \/ n = 0)
          BY <1>1 DEF n
        <5> QED
          BY <1>3, <2>2, <2>6, <4>3, <5>1
      <4> QED
        BY <1>3, <4>1, <4>2, <4>3
    <3> QED
      BY <1>2, <2>1, <3>1, <3>2 DEF AnswerArrived
  <2>9. ClientEnd(c)'
    <3>1. /\ Dropped(n, s_out[c]) => c \notin c_clients_map_
          /\ c_stage[c] = "relaying" =>
               c \in c_clients_map_ \/ CP!Leaving(c) \/ Dropped(n, s_out[c])
      BY <2>5 DEF WireOK, ClientEnd, n
    <3>2. CASE type = "tcp_disconnect"
      <4>1. c \notin c_clients_map_'
        BY <1>3, <3>2
      <4> QED
        BY <1>2, <2>1, <2>3, <3>2, <4>1 DEF ClientEnd
    <3>3. CASE type # "tcp_disconnect"
      <4>1. c_clients_map_' = c_clients_map_
        BY <1>3, <3>3
      <4> QED
        BY <1>2, <1>3, <2>1, <2>3, <2>5, <3>1, <3>3, <4>1 DEF ClientEnd
    <3> QED
      BY <3>2, <3>3
  <2> QED
    BY <2>7, <2>8, <2>9 DEF WireOK
<1>8. toServer' \in [Sids -> Nat] /\ toClient' \in [Sids -> Nat]
  BY <1>1, <1>2, <1>3 DEF WireInv
<1> QED
  BY <1>6, <1>7, <1>8 DEF WireInv

LEMMA NextKeepsWire ==
  ASSUME Quiet, ManagersInv, WireInv, [Next]_vars
  PROVE  WireInv'
<1>1. ManagersInv' /\ \A c \in Sids : CP!Grows(c) /\ SP!Grows(c)
  BY NextKeepsManagers
<1>2. ClientInv' /\ ServerInv'
  BY <1>1 DEF ManagersInv
<1>3. CASE UNCHANGED vars
  <2>1. \A c \in Sids : WireOK(c)' = WireOK(c)
    BY <1>3 DEF vars, clientVars, serverVars, wire, WireOK, Started, AnswerArrived,
                ServerEnd, ClientEnd, SP!Leaving, SP!Known, SP!Queued, SP!Places,
                CP!Leaving, CP!Known, CP!Queued, CP!Places
  <2> QED
    BY <1>3, <2>1 DEF vars, wire, WireInv
<1> QED
  BY <1>1, <1>2, <1>3, ClientSideKeepsWire, ServerSideKeepsWire, ToServerKeepsWire,
     ToClientKeepsWire DEF Next

LEMMA InitWire == Init => WireInv
<1> SUFFICES ASSUME Init, NEW c \in Sids PROVE WireOK(c)
  BY DEF Init, WireInv
<1>1. /\ toServer[c] = 0 /\ toClient[c] = 0
      /\ c_out[c] = <<>> /\ s_out[c] = <<>> /\ s_stage[c] = "none" /\ c_stage[c] = "none"
      /\ c_answer[c] = "no" /\ c_clients_map_ = {} /\ s_clients_map_ = {} /\ refused = {}
  BY DEF Init, C!Init, C!InitRelay, C!InitTransport, S!Init, S!InitRelay, S!InitTransport
<1>2. Len(c_out[c]) = 0 /\ Len(s_out[c]) = 0
  BY <1>1
<1> QED
  BY <1>1, <1>2 DEF WireOK, Started, AnswerArrived, ServerEnd, ClientEnd
-----------------------------------------------------------------------------
(* The data on its way.                                                    *)

\* One end was given n frames of c, the tcp_data among them with these
\* numbers, and has these chunks.  While c is in its map none is missing.
Carried(c, numbers, n, received, chunks, map) ==
  /\ Len(numbers) = received /\ Len(numbers) <= AfterFirst(n)
  /\ c \in map => /\ Len(numbers) = AfterFirst(n)
                  /\ \A k \in DOMAIN numbers : numbers[k] = k + 1
  /\ \A k \in chunks : k > 0 => k \in DOMAIN numbers /\ numbers[k] = k + 1

DataInv ==
  /\ dataToServer \in [Sids -> Seq(Nat)] /\ dataToClient \in [Sids -> Seq(Nat)]
  /\ \A c \in Sids :
       /\ Carried(c, dataToServer[c], toServer[c], s_received[c], SP!Chunks(c), s_clients_map_)
       /\ Carried(c, dataToClient[c], toClient[c], c_received[c], CP!Chunks(c), c_clients_map_)

\* No frame arrives; c joins the map at most before its first one.
LEMMA NothingArrives ==
  ASSUME NEW c, NEW numbers \in Seq(Nat), NEW n \in Nat, NEW received,
         NEW chunks, NEW map, NEW chunksAfter, NEW mapAfter,
         Carried(c, numbers, n, received, chunks, map),
         chunksAfter \subseteq chunks \cup {0},
         c \in mapAfter => c \in map \/ n = 0
  PROVE  Carried(c, numbers, n, received, chunksAfter, mapAfter)
<1>1. Len(numbers) \in Nat /\ DOMAIN numbers = 1 .. Len(numbers)
  OBVIOUS
<1>2. CASE n = 0
  BY <1>1, <1>2 DEF Carried, AfterFirst
<1>3. CASE n # 0
  BY <1>1, <1>3 DEF Carried
<1> QED
  BY <1>2, <1>3

\* A tcp_data arrives behind the first frame.
LEMMA DataArrives ==
  ASSUME NEW c, NEW numbers \in Seq(Nat), NEW n \in Nat, NEW received,
         NEW chunks, NEW map, NEW chunksAfter,
         Carried(c, numbers, n, received, chunks, map), n > 0,
         chunksAfter \subseteq chunks \cup {k \in {received + 1} : c \in map}
  PROVE  Carried(c, Append(numbers, n + 1), n + 1, received + 1, chunksAfter, map)
<1> DEFINE more == Append(numbers, n + 1)
<1>1. /\ Len(numbers) \in Nat /\ DOMAIN numbers = 1 .. Len(numbers)
      /\ more \in Seq(Nat) /\ Len(more) = Len(numbers) + 1
      /\ DOMAIN more = 1 .. Len(numbers) + 1 /\ more[Len(numbers) + 1] = n + 1
      /\ \A k \in 1 .. Len(numbers) : more[k] = numbers[k]
  OBVIOUS
<1> HIDE DEF more
<1>2. Len(numbers) = received /\ Len(numbers) <= n - 1
  BY DEF Carried, AfterFirst
<1>3. c \in map => Len(numbers) = n - 1 /\ \A k \in DOMAIN numbers : numbers[k] = k + 1
  BY DEF Carried, AfterFirst
<1>4. c \in map => \A k \in DOMAIN more : more[k] = k + 1
  <2> SUFFICES ASSUME c \in map, NEW k \in DOMAIN more PROVE more[k] = k + 1
    OBVIOUS
  <2>1. CASE k = Len(numbers) + 1
    BY <1>1, <1>3, <2>1
  <2>2. CASE k # Len(numbers) + 1
    BY <1>1, <1>3, <2>2
  <2> QED
    BY <2>1, <2>2
<1>5. ASSUME NEW k \in chunksAfter, k > 0
      PROVE  k \in DOMAIN more /\ more[k] = k + 1
  <2>1. CASE k \in chunks
    BY <1>1, <1>5, <2>1 DEF Carried
  <2>2. CASE k \notin chunks
    BY <1>1, <1>2, <1>4, <2>2
  <2> QED
    BY <2>1, <2>2
<1>6. AfterFirst(n + 1) = n
  BY DEF AfterFirst
<1> QED
  BY <1>1, <1>2, <1>3, <1>4, <1>5, <1>6 DEF Carried, more

\* Another frame arrives: the first one, or one that ends the connection.
LEMMA OtherArrives ==
  ASSUME NEW c, NEW numbers \in Seq(Nat), NEW n \in Nat, NEW received,
         NEW chunks, NEW map, NEW mapAfter,
         Carried(c, numbers, n, received, chunks, map),
         n = 0 \/ c \notin mapAfter
  PROVE  Carried(c, numbers, n + 1, received, chunks, mapAfter)
<1>1. Len(numbers) \in Nat /\ DOMAIN numbers = 1 .. Len(numbers)
  OBVIOUS
<1>2. CASE n = 0
  BY <1>1, <1>2 DEF Carried, AfterFirst
<1>3. CASE n # 0
  BY <1>1, <1>3 DEF Carried, AfterFirst
<1> QED
  BY <1>2, <1>3

LEMMA ClientSideKeepsData ==
  ASSUME ManagersInv, WireInv, DataInv, ClientSide
  PROVE  DataInv'
<1>1. CP!OwnStep
  BY ManagersTypes, ClientSideIsStep
<1>2. UNCHANGED <<serverVars, wire>>
  BY DEF ClientSide
<1> SUFFICES ASSUME NEW c \in Sids
      PROVE  /\ Carried(c, dataToServer[c], toServer[c], s_received[c], SP!Chunks(c),
                        s_clients_map_)'
             /\ Carried(c, dataToClient[c], toClient[c], c_received[c], CP!Chunks(c),
                        c_clients_map_)'
  BY <1>2 DEF DataInv, wire
<1>3. /\ UNCHANGED <<dataToServer, dataToClient, toServer, toClient, s_received, s_clients_map_>>
      /\ SP!Chunks(c)' = SP!Chunks(c)
  BY <1>2 DEF serverVars, wire, SP!Chunks, SP!Elements
<1>4. UNCHANGED c_received /\ CP!Chunks(c)' \subseteq CP!Chunks(c) \cup {CP!FirstChunk}
  BY <1>1, CP!OwnStepChunks, Instances DEF ManagersInv, ClientInv
<1>5. c \in c_clients_map_' => c \in c_clients_map_ \/ c_stage[c] = "none"
  BY <1>1, CP!OwnStepEffect, Instances DEF ManagersInv, ClientInv
<1>6. c_stage[c] = "none" => toClient[c] = 0
  <2> SUFFICES ASSUME c_stage[c] = "none" PROVE toClient[c] = 0
    OBVIOUS
  <2>1. WireOK(c) /\ c_out[c] = <<>>
    BY ClientSays DEF WireInv, ManagersInv
  <2>2. s_stage[c] = "none"
    BY <2>1 DEF WireOK, Started
  <2>3. s_out[c] = <<>>
    BY <2>2, ServerSays DEF ManagersInv
  <2> QED
    BY <2>1, <2>3 DEF WireOK, AnswerArrived
<1>7. /\ dataToClient[c] \in Seq(Nat) /\ toClient[c] \in Nat
      /\ Carried(c, dataToServer[c], toServer[c], s_received[c], SP!Chunks(c), s_clients_map_)
      /\ Carried(c, dataToClient[c], toClient[c], c_received[c], CP!Chunks(c), c_clients_map_)
  BY DEF DataInv, WireInv
<1>8. Carried(c, dataToClient[c], toClient[c], c_received[c], CP!Chunks(c)', c_clients_map_')
  BY <1>4, <1>5, <1>6, <1>7, NothingArrives DEF CP!FirstChunk
<1> QED
  BY <1>3, <1>4, <1>7, <1>8

LEMMA ServerSideKeepsData ==
  ASSUME ManagersInv, WireInv, DataInv, ServerSide
  PROVE  DataInv'
<1>1. SP!OwnStep
  BY ManagersTypes, ServerSideIsStep
<1>2. UNCHANGED <<clientVars, wire>>
  BY DEF ServerSide
<1> SUFFICES ASSUME NEW c \in Sids
      PROVE  /\ Carried(c, dataToServer[c], toServer[c], s_received[c], SP!Chunks(c),
                        s_clients_map_)'
             /\ Carried(c, dataToClient[c], toClient[c], c_received[c], CP!Chunks(c),
                        c_clients_map_)'
  BY <1>2 DEF DataInv, wire
<1>3. /\ UNCHANGED <<dataToServer, dataToClient, toServer, toClient, c_received, c_clients_map_>>
      /\ CP!Chunks(c)' = CP!Chunks(c)
  BY <1>2 DEF clientVars, wire, CP!Chunks, CP!Elements
<1>4. UNCHANGED s_received /\ SP!Chunks(c)' \subseteq SP!Chunks(c) \cup {SP!FirstChunk}
  BY <1>1, SP!OwnStepChunks, Instances DEF ManagersInv, ServerInv
<1>5. c \in s_clients_map_' => c \in s_clients_map_
  BY <1>1, SP!OwnStepEffect, Instances DEF ManagersInv, ServerInv
<1>6. /\ dataToServer[c] \in Seq(Nat) /\ toServer[c] \in Nat
      /\ Carried(c, dataToServer[c], toServer[c], s_received[c], SP!Chunks(c), s_clients_map_)
      /\ Carried(c, dataToClient[c], toClient[c], c_received[c], CP!Chunks(c), c_clients_map_)
  BY DEF DataInv, WireInv
<1>7. Carried(c, dataToServer[c], toServer[c], s_received[c], SP!Chunks(c)', s_clients_map_')
  BY <1>4, <1>5, <1>6, NothingArrives DEF SP!FirstChunk
<1> QED
  BY <1>3, <1>4, <1>6, <1>7

LEMMA ToServerKeepsData ==
  ASSUME ManagersInv, WireInv, DataInv, NEW c \in Sids, ToServer(c)
  PROVE  DataInv'
<1> DEFINE n == toServer[c]
           t == c_out[c][n + 1]
<1>1. n \in Nat /\ n + 1 \in DOMAIN c_out[c]
  <2>1. c_out[c] \in Seq(CP!Tuples) /\ n \in 0 .. Len(c_out[c]) /\ n < Len(c_out[c])
    BY ClientSays DEF ManagersInv, WireInv, WireOK, Started, ToServer
  <2> QED
    BY <2>1
<1>2. /\ t.n = n + 1
      /\ t.type = "tcp_connect" => n = 0
      /\ t.type = "tcp_data" => n > 0
  <2>1. CP!HandedInOrder
    BY DEF ManagersInv, ClientInv, CP!FlowInv, CP!TransportInv
  <2>2. c_out[c] # <<>> /\ (n > 0 \/ n + 1 = 1) /\ (n + 1 = 1 => n = 0)
    BY <1>1, ClientSays DEF ManagersInv
  <2> QED
    BY <1>1, <2>1, <2>2, ClientSays DEF CP!HandedInOrder, ManagersInv
<1>3. /\ UNCHANGED <<dataToClient, toClient, c_received, c_clients_map_>>
      /\ \A d \in Sids : CP!Chunks(d)' = CP!Chunks(d)
  BY DEF ToServer, clientVars, CP!Chunks, CP!Elements
<1>4. /\ toServer' = [toServer EXCEPT ![c] = @ + 1]
      /\ dataToServer' = [dataToServer EXCEPT ![c] = WithData(@, t)]
      /\ \/ t.type = "tcp_connect" /\ SP!RecvConnect(c)
         \/ t.type = "tcp_data" /\ SP!RecvData(c)
         \/ t.type = "tcp_disconnect" /\ SP!RecvDisconnect(c)
         \/ /\ t.type = "tcp_connect" \/ (t.type = "tcp_disconnect" /\ c \in refused)
            /\ UNCHANGED serverVars
  BY ServerRecv DEF ToServer, Refuse, NothingToRemove
<1> HIDE DEF t
<1>5. /\ toServer \in [Sids -> Nat] /\ dataToServer \in [Sids -> Seq(Nat)]
      /\ s_received \in [Sids -> Nat]
  BY SP!OrderTypes, Instances DEF WireInv, DataInv, ManagersInv, ServerInv
<1>6. /\ toServer'[c] = n + 1 /\ dataToServer'[c] = WithData(dataToServer[c], t)
      /\ WithData(dataToServer[c], t) \in Seq(Nat)
      /\ \A d \in Sids \ {c} : toServer'[d] = toServer[d] /\ dataToServer'[d] = dataToServer[d]
  <2>1. WithData(dataToServer[c], t) \in Seq(Nat)
    BY <1>1, <1>2, <1>5 DEF WithData
  <2> QED
    BY <1>4, <1>5, <2>1
<1>7. dataToServer' \in [Sids -> Seq(Nat)]
  BY <1>4, <1>5, <1>6
<1>8. \A d \in Sids :
        Carried(d, dataToServer[d], toServer[d], s_received[d], SP!Chunks(d), s_clients_map_)
  BY DEF DataInv
<1>9. ASSUME NEW d \in Sids \ {c}
      PROVE  /\ s_received'[d] = s_received[d] /\ SP!Chunks(d)' \subseteq SP!Chunks(d)
             /\ d \in s_clients_map_' <=> d \in s_clients_map_
  <2>1. CASE SP!RecvConnect(c) \/ SP!RecvDisconnect(c)
    <3>1. d \in s_clients_map_' <=> d \in s_clients_map_
      BY <2>1 DEF SP!RecvConnect, SP!RecvDisconnect, SP!RemoveClient
    <3> QED
      BY <2>1, <3>1, SP!RecvChunks, Instances DEF ManagersInv, ServerInv
  <2>3. CASE UNCHANGED serverVars
    BY <2>3 DEF serverVars, SP!Chunks, SP!Elements
  <2>2. CASE SP!RecvData(c)
    <3>1. /\ s_received' = [s_received EXCEPT ![c] = @ + 1] /\ UNCHANGED s_clients_map_
          /\ SP!Chunks(d)' \subseteq
               SP!Chunks(d) \cup {k \in {s_received[c] + 1} : d = c /\ c \in s_clients_map_}
      BY <2>2, SP!RecvChunks, Instances DEF ManagersInv, ServerInv
    <3> QED
      BY <1>5, <3>1
  <2> QED
    BY <1>4, <2>1, <2>2, <2>3
<1>10. ASSUME NEW d \in Sids \ {c}
       PROVE  Carried(d, dataToServer[d], toServer[d], s_received[d], SP!Chunks(d),
                      s_clients_map_)'
  <2>1. Carried(d, dataToServer[d], toServer[d], s_received[d], SP!Chunks(d)', s_clients_map_')
    BY <1>5, <1>8, <1>9, NothingArrives
  <2> QED
    BY <1>6, <1>9, <2>1
<1>11. Carried(c, dataToServer[c], toServer[c], s_received[c], SP!Chunks(c), s_clients_map_)'
  <2>1. CASE t.type = "tcp_data"
    <3>1. SP!RecvData(c) /\ n > 0
      BY <1>1, <1>2, <1>4, <2>1
    <3>2. /\ s_received' = [s_received EXCEPT ![c] = @ + 1] /\ UNCHANGED s_clients_map_
          /\ SP!Chunks(c)' \subseteq
               SP!Chunks(c) \cup {k \in {s_received[c] + 1} : c = c /\ c \in s_clients_map_}
      BY <3>1, SP!RecvChunks, Instances DEF ManagersInv, ServerInv
    <3>3. s_received'[c] = s_received[c] + 1
      BY <1>5, <3>2
    <3>4. Carried(c, Append(dataToServer[c], n + 1), n + 1, s_received[c] + 1,
                  SP!Chunks(c)', s_clients_map_)
      BY <1>1, <1>5, <1>8, <3>1, <3>2, DataArrives
    <3> QED
      BY <1>2, <1>6, <2>1, <3>2, <3>3, <3>4 DEF WithData
  <2>2. CASE t.type # "tcp_data"
    <3>1. n = 0 \/ c \notin s_clients_map_'
      <4>1. c \in refused => c \notin s_clients_map_
        BY DEF WireInv, WireOK, Started
      <4> QED
        BY <1>2, <1>4, <2>2, <4>1 DEF SP!RecvDisconnect, SP!RemoveClient, serverVars
    <3>2. s_received' = s_received /\ SP!Chunks(c)' = SP!Chunks(c)
      <4>1. CASE SP!RecvConnect(c) \/ SP!RecvDisconnect(c)
        BY <4>1, SP!RecvChunks, Instances DEF ManagersInv, ServerInv
      <4>2. CASE UNCHANGED serverVars
        BY <4>2 DEF serverVars, SP!Chunks, SP!Elements
      <4> QED
        BY <1>4, <2>2, <4>1, <4>2
    <3>3. Carried(c, dataToServer[c], n + 1, s_received[c], SP!Chunks(c), s_clients_map_')
      BY <1>1, <1>5, <1>8, <3>1, OtherArrives
    <3> QED
      BY <1>6, <2>2, <3>2, <3>3 DEF WithData
  <2> QED
    BY <2>1, <2>2
<1> QED
  BY <1>3, <1>7, <1>10, <1>11 DEF DataInv

LEMMA ToClientKeepsData ==
  ASSUME ManagersInv, WireInv, DataInv, NEW c \in Sids, ToClient(c)
  PROVE  DataInv'
<1> DEFINE n == toClient[c]
           t == s_out[c][n + 1]
<1>1. n \in Nat /\ n + 1 \in DOMAIN s_out[c]
  <2>1. s_out[c] \in Seq(SP!Tuples) /\ n \in 0 .. Len(s_out[c]) /\ n < Len(s_out[c])
    BY ServerSays DEF ManagersInv, WireInv, WireOK, AnswerArrived, ToClient
  <2> QED
    BY <2>1
<1>2. /\ t.n = n + 1
      /\ t.type = "tcp_connect" => n = 0
      /\ t.type = "tcp_data" => n > 0
  <2>1. SP!HandedInOrder
    BY DEF ManagersInv, ServerInv, SP!IInv, SP!QueueInv, SP!TransportInv
  <2>2. (n + 1 > 1 => n > 0) /\ (n + 1 = 1 => n = 0)
    BY <1>1
  <2> QED
    BY <1>1, <2>1, <2>2, ServerSays DEF SP!HandedInOrder, ManagersInv
<1>3. /\ UNCHANGED <<dataToServer, toServer, s_received, s_clients_map_>>
      /\ \A d \in Sids : SP!Chunks(d)' = SP!Chunks(d)
  BY DEF ToClient, serverVars, SP!Chunks, SP!Elements
<1>4. /\ toClient' = [toClient EXCEPT ![c] = @ + 1]
      /\ dataToClient' = [dataToClient EXCEPT ![c] = WithData(@, t)]
      /\ \/ t.type = "tcp_connect" /\ CP!RecvAnswer(c)
         \/ t.type = "tcp_data" /\ CP!RecvData(c)
         \/ t.type = "tcp_disconnect" /\ CP!RecvDisconnect(c)
  BY ClientRecv DEF ToClient
<1> HIDE DEF t
<1>5. /\ toClient \in [Sids -> Nat] /\ dataToClient \in [Sids -> Seq(Nat)]
      /\ c_received \in [Sids -> Nat]
  BY CP!OrderTypes, Instances DEF WireInv, DataInv, ManagersInv, ClientInv
<1>6. /\ toClient'[c] = n + 1 /\ dataToClient'[c] = WithData(dataToClient[c], t)
      /\ WithData(dataToClient[c], t) \in Seq(Nat)
      /\ \A d \in Sids \ {c} : toClient'[d] = toClient[d] /\ dataToClient'[d] = dataToClient[d]
  <2>1. WithData(dataToClient[c], t) \in Seq(Nat)
    BY <1>1, <1>2, <1>5 DEF WithData
  <2> QED
    BY <1>4, <1>5, <2>1
<1>7. dataToClient' \in [Sids -> Seq(Nat)]
  BY <1>4, <1>5, <1>6
<1>8. \A d \in Sids :
        Carried(d, dataToClient[d], toClient[d], c_received[d], CP!Chunks(d), c_clients_map_)
  BY DEF DataInv
<1>9. ASSUME NEW d \in Sids \ {c}
      PROVE  /\ c_received'[d] = c_received[d] /\ CP!Chunks(d)' \subseteq CP!Chunks(d)
             /\ d \in c_clients_map_' <=> d \in c_clients_map_
  <2>1. CASE CP!RecvAnswer(c) \/ CP!RecvDisconnect(c)
    <3>1. d \in c_clients_map_' <=> d \in c_clients_map_
      BY <2>1 DEF CP!RecvAnswer, CP!RecvDisconnect, CP!RemoveClient
    <3> QED
      BY <2>1, <3>1, CP!RecvChunks, Instances DEF ManagersInv, ClientInv
  <2>2. CASE CP!RecvData(c)
    <3>1. /\ c_received' = [c_received EXCEPT ![c] = @ + 1] /\ UNCHANGED c_clients_map_
          /\ CP!Chunks(d)' \subseteq
               CP!Chunks(d) \cup {k \in {c_received[c] + 1} : d = c /\ c \in c_clients_map_}
      BY <2>2, CP!RecvChunks, Instances DEF ManagersInv, ClientInv
    <3> QED
      BY <1>5, <3>1
  <2> QED
    BY <1>4, <2>1, <2>2
<1>10. ASSUME NEW d \in Sids \ {c}
       PROVE  Carried(d, dataToClient[d], toClient[d], c_received[d], CP!Chunks(d),
                      c_clients_map_)'
  <2>1. Carried(d, dataToClient[d], toClient[d], c_received[d], CP!Chunks(d)', c_clients_map_')
    BY <1>5, <1>8, <1>9, NothingArrives
  <2> QED
    BY <1>6, <1>9, <2>1
<1>11. Carried(c, dataToClient[c], toClient[c], c_received[c], CP!Chunks(c), c_clients_map_)'
  <2>1. CASE t.type = "tcp_data"
    <3>1. CP!RecvData(c) /\ n > 0
      BY <1>1, <1>2, <1>4, <2>1
    <3>2. /\ c_received' = [c_received EXCEPT ![c] = @ + 1] /\ UNCHANGED c_clients_map_
          /\ CP!Chunks(c)' \subseteq
               CP!Chunks(c) \cup {k \in {c_received[c] + 1} : c = c /\ c \in c_clients_map_}
      BY <3>1, CP!RecvChunks, Instances DEF ManagersInv, ClientInv
    <3>3. c_received'[c] = c_received[c] + 1
      BY <1>5, <3>2
    <3>4. Carried(c, Append(dataToClient[c], n + 1), n + 1, c_received[c] + 1,
                  CP!Chunks(c)', c_clients_map_)
      BY <1>1, <1>5, <1>8, <3>1, <3>2, DataArrives
    <3> QED
      BY <1>2, <1>6, <2>1, <3>2, <3>3, <3>4 DEF WithData
  <2>2. CASE t.type # "tcp_data"
    <3>1. n = 0 \/ c \notin c_clients_map_'
      BY <1>2, <1>4, <2>2 DEF CP!RecvDisconnect, CP!RemoveClient
    <3>2. c_received' = c_received /\ CP!Chunks(c)' = CP!Chunks(c)
      BY <1>4, <2>2, CP!RecvChunks, Instances DEF ManagersInv, ClientInv
    <3>3. Carried(c, dataToClient[c], n + 1, c_received[c], CP!Chunks(c), c_clients_map_')
      BY <1>1, <1>5, <1>8, <3>1, OtherArrives
    <3> QED
      BY <1>6, <2>2, <3>2, <3>3 DEF WithData
  <2> QED
    BY <2>1, <2>2
<1> QED
  BY <1>3, <1>7, <1>10, <1>11 DEF DataInv

LEMMA NextKeepsData ==
  ASSUME ManagersInv, WireInv, DataInv, [Next]_vars
  PROVE  DataInv'
<1>1. CASE UNCHANGED vars
  BY <1>1 DEF vars, clientVars, serverVars, wire, DataInv, SP!Chunks, SP!Elements,
              CP!Chunks, CP!Elements
<1> QED
  BY <1>1, ClientSideKeepsData, ServerSideKeepsData, ToServerKeepsData, ToClientKeepsData
     DEF Next

LEMMA InitData == Init => DataInv
<1> SUFFICES ASSUME Init PROVE DataInv
  OBVIOUS
<1>1. \A c \in Sids :
        /\ dataToServer[c] = <<>> /\ dataToClient[c] = <<>>
        /\ toServer[c] = 0 /\ toClient[c] = 0
        /\ s_received[c] = 0 /\ s_send_buffers_[c] = <<>> /\ s_written[c] = <<>>
        /\ c_received[c] = 0 /\ c_send_buffers_[c] = <<>> /\ c_written[c] = <<>>
  BY DEF Init, C!Init, C!InitRelay, S!Init, S!InitRelay
<1>2. Len(<<>>) = 0 /\ DOMAIN <<>> = {}
  OBVIOUS
<1>3. \A c \in Sids : SP!Chunks(c) = {} /\ CP!Chunks(c) = {}
  BY <1>1, <1>2 DEF SP!Chunks, SP!Elements, CP!Chunks, CP!Elements
<1>4. <<>> \in Seq(Nat)
  OBVIOUS
<1> QED
  BY <1>1, <1>2, <1>3, <1>4 DEF DataInv, Carried, AfterFirst, Init
-----------------------------------------------------------------------------
(* The theorems.                                                           *)

\* Each manager keeps its invariants when it is driven by the other one, and
\* the frames on their way, data included, agree with the state of both ends.
THEOREM Invariance == ASSUME Quiet PROVE Spec => [](ManagersInv /\ WireInv /\ DataInv)
<1>1. ManagersInv /\ WireInv /\ DataInv /\ [Next]_vars =>
        ManagersInv' /\ WireInv' /\ DataInv'
  BY NextKeepsManagers, NextKeepsWire, NextKeepsData
<1> QED
  BY <1>1, InitManagers, InitWire, InitData, PTL DEF Spec

\* The frames each end sends are those that recv() of the other can meet: no
\* tcp_connect for an id the server knows, no data that no answer precedes or
\* for an id it refused, one answer to a request that was sent.
THEOREM PeerKeepsToProtocolTheorem == ASSUME Quiet PROVE Spec => []PeerKeepsToProtocol
<1>1. ASSUME ManagersInv, WireInv PROVE PeerKeepsToProtocol
  <2> SUFFICES ASSUME NEW c \in Sids
        PROVE
    /\ toServer[c] < Len(c_out[c]) =>
         LET type == c_out[c][toServer[c] + 1].type
         IN  /\ type = "tcp_connect" => c \notin s_clients_map_ /\ s_stage[c] = "none"
             /\ type = "tcp_data" => C!WasHanded(c, "tcp_connect") /\ c_answer[c] # "no"
             /\ type = "tcp_disconnect" => s_stage[c] # "none" \/ c \in refused
    /\ toClient[c] < Len(s_out[c]) =>
         LET type == s_out[c][toClient[c] + 1].type
         IN  /\ type = "tcp_connect" => c_answer[c] = "no" /\ C!WasHanded(c, "tcp_connect")
             /\ type = "tcp_data" => c_answer[c] # "no"
    BY DEF PeerKeepsToProtocol
  <2>1. Started(c) /\ AnswerArrived(c) /\ ClientInv /\ ServerInv
    BY <1>1 DEF WireInv, WireOK, ManagersInv
  <2>2. /\ c_out[c] \in Seq(CP!Tuples) /\ s_out[c] \in Seq(SP!Tuples)
        /\ toServer[c] \in 0 .. Len(c_out[c]) /\ toClient[c] \in 0 .. Len(s_out[c])
    BY <2>1, ClientSays, ServerSays DEF Started, AnswerArrived
  <2>3. c_out[c] # <<>> => C!WasHanded(c, "tcp_connect")
    <3>1. c_out[c] # <<>> => 1 \in DOMAIN c_out[c]
      BY <2>2
    <3> QED
      BY <2>1, <3>1, ClientSays DEF C!WasHanded
  <2>4. ASSUME toServer[c] < Len(c_out[c]), NEW type, type = c_out[c][toServer[c] + 1].type
        PROVE  /\ type = "tcp_connect" => c \notin s_clients_map_ /\ s_stage[c] = "none"
               /\ type = "tcp_data" => C!WasHanded(c, "tcp_connect") /\ c_answer[c] # "no"
               /\ type = "tcp_disconnect" => s_stage[c] # "none" \/ c \in refused
    <3>1. /\ toServer[c] + 1 \in DOMAIN c_out[c] /\ c_out[c] # <<>>
          /\ toServer[c] + 1 = 1 <=> toServer[c] = 0
      BY <2>2, <2>4
    <3>2. /\ type = "tcp_connect" => toServer[c] = 0
          /\ toServer[c] = 0 => type = "tcp_connect"
          /\ type = "tcp_data" => c_answer[c] # "no"
      BY <2>1, <2>4, <3>1, ClientSays
    <3> QED
      BY <2>1, <2>3, <3>1, <3>2 DEF Started
  <2>5. ASSUME toClient[c] < Len(s_out[c]), NEW type, type = s_out[c][toClient[c] + 1].type
        PROVE  /\ type = "tcp_connect" => c_answer[c] = "no" /\ C!WasHanded(c, "tcp_connect")
               /\ type = "tcp_data" => c_answer[c] # "no"
    <3>1. toClient[c] + 1 \in DOMAIN s_out[c] /\ s_out[c] # <<>> /\ toClient[c] \in Nat
      BY <2>2, <2>5
    <3>2. /\ type = "tcp_connect" => toClient[c] = 0
          /\ type = "tcp_data" => toClient[c] > 0 /\ s_out[c][1].type = "tcp_connect"
          /\ s_stage[c] = "done"
      BY <2>1, <2>5, <3>1, ServerSays
    <3>3. c_out[c] # <<>>
      BY <2>1, <2>2, <3>2 DEF Started
    <3> QED
      BY <2>1, <2>3, <3>1, <3>2, <3>3 DEF AnswerArrived
  <2> QED
    BY <2>4, <2>5
<1> QED
  BY <1>1, Invariance, PTL

\* Once the proxy has settled the main transport has nothing left to send.
LEMMA SettledQueues ==
  ASSUME ManagersInv, Settled, NEW c \in Sids
  PROVE  /\ CP!Queued(c) = {} /\ ~CP!InFlight(c)
         /\ SP!Queued(c) = {} /\ ~SP!InFlight(c)
         /\ c_stage[c] = "relaying" => c_out[c] # <<>>
         /\ s_stage[c] = "done" => s_out[c] # <<>>
<1>1. CP!SingleSend /\ SP!SingleSend /\ CP!Told(c) /\ SP!Told(c)
  BY DEF ManagersInv, ClientInv, ServerInv, CP!IInv, SP!IInv, SP!QueueInv,
         SP!TransportInv, CP!LossInv, SP!LossInv
<1>2. c_impl_send_buffers_ = <<>> /\ s_impl_send_buffers_ = <<>>
  BY <1>1 DEF Settled, CP!SingleSend, SP!SingleSend
<1>3. DOMAIN <<>> = {} /\ Len(<<>>) = 0 /\ 1 .. 0 = {} /\ 2 .. 0 = {}
  OBVIOUS
<1>4. CP!Places(c) = {} /\ SP!Places(c) = {}
  BY <1>2, <1>3 DEF CP!Places, SP!Places
<1>5. CP!Live = {} /\ SP!Live = {}
  BY <1>2, <1>3 DEF CP!Live, SP!Live, CP!FirstLive, SP!FirstLive
<1> QED
  BY <1>1, <1>4, <1>5
     DEF CP!Queued, SP!Queued, CP!InFlight, SP!InFlight, CP!Told, SP!Told,
         CP!Sent, SP!Sent

\* Then every request was refused or taken, and if the connecting ended it was
\* answered or its connection dropped.
LEMMA SettledAnswers ==
  ASSUME ManagersInv, WireInv, Settled, NEW c \in Sids, c_stage[c] = "relaying",
         c \notin refused
  PROVE  /\ s_stage[c] # "none"
         /\ Stuck(c) \/ c_answer[c] = "yes" \/ c \notin c_clients_map_
<1>1. WireOK(c) /\ ClientInv /\ ServerInv
  BY DEF WireInv, ManagersInv
<1>2. /\ c_out[c] \in Seq(CP!Tuples) /\ s_out[c] \in Seq(SP!Tuples)
      /\ c_answer[c] \in {"no", "setting", "yes"}
  BY <1>1, ClientSays, ServerSays DEF ClientInv, CP!IInv, CP!ClientTypeOK
<1>3. s_stage[c] # "none"
  <2>1. c_out[c] # <<>> /\ toServer[c] = Len(c_out[c])
    BY SettledQueues DEF Settled
  <2>2. toServer[c] # 0
    BY <1>2, <2>1
  <2> QED
    BY <1>1, <2>2 DEF WireOK, Started
<1> SUFFICES ASSUME ~Stuck(c) PROVE c_answer[c] = "yes" \/ c \notin c_clients_map_
  BY <1>3
<1>4. /\ toClient[c] = Len(s_out[c]) /\ 1 \in DOMAIN s_out[c]
      /\ toClient[c] > 0 /\ 1 \in 1 .. toClient[c]
  <2>1. s_stage[c] = "done"
    BY <1>3 DEF Settled
  <2>2. s_out[c] # <<>> /\ toClient[c] = Len(s_out[c])
    BY <2>1, SettledQueues DEF Settled
  <2> QED
    BY <1>2, <2>2
<1>5. s_out[c][1].type \in {"tcp_connect", "tcp_disconnect"}
  BY <1>1, <1>4, ServerSays
<1>6. CASE s_out[c][1].type = "tcp_connect"
  BY <1>1, <1>2, <1>4, <1>6 DEF WireOK, AnswerArrived, Settled
<1>7. CASE s_out[c][1].type = "tcp_disconnect"
  BY <1>1, <1>4, <1>7 DEF WireOK, ClientEnd, Dropped
<1> QED
  BY <1>5, <1>6, <1>7

\* Once hosts, pools and posted removals have done what they have to, nobody
\* waits for an answer that does not come but those the server refused and
\* those whose resolution is stuck; and no tuple waits at an end that is
\* connected.
THEOREM NobodyIsForgottenTheorem == ASSUME Quiet PROVE Spec => []NobodyIsForgotten
<1>1. ASSUME ManagersInv, WireInv PROVE NobodyIsForgotten
  <2> SUFFICES ASSUME Settled, NEW c \in Sids
        PROVE  /\ c_stage[c] = "relaying" =>
                    \/ c_answer[c] = "yes" \/ c \notin c_clients_map_
                    \/ c \in refused \/ Stuck(c)
               /\ c \in c_clients_map_ /\ c_answer[c] = "yes" => c_recv_buffers_[c] = <<>>
               /\ c \in s_clients_map_ => s_recv_buffers_[c] = <<>>
    BY DEF NobodyIsForgotten
  <2>1. c_stage[c] = "relaying" => \/ c_answer[c] = "yes" \/ c \notin c_clients_map_
                                   \/ c \in refused \/ Stuck(c)
    BY <1>1, SettledAnswers
  <2>2. ~CP!InFlight(c) /\ ~SP!InFlight(c)
    BY <1>1, SettledQueues
  <2>3. c \in c_clients_map_ /\ c_answer[c] = "yes" => c_recv_buffers_[c] = <<>>
    BY <1>1, <2>2
       DEF ManagersInv, ClientInv, CP!FlowInv, CP!FlowOK, CP!Served, CP!IInv,
           CP!SocketInv, CP!SocketOK, CP!BeforeRequest
  <2>4. c \in s_clients_map_ => s_recv_buffers_[c] = <<>>
    BY <1>1, <2>2
       DEF ManagersInv, ServerInv, SP!IInv, SP!QueueInv, SP!BacklogIsServed
  <2> QED
    BY <2>1, <2>3, <2>4
<1> QED
  BY <1>1, Invariance, PTL

\* Once the proxy has settled, one end holds a connection the other has not
\* only if the server refused it, or the tcp_disconnect of the other is stuck
\* in its queue.
THEOREM ClosesTogetherTheorem == ASSUME Quiet PROVE Spec => []ClosesTogether
<1>1. ASSUME ManagersInv, WireInv PROVE ClosesTogether
  <2> SUFFICES ASSUME Settled, NEW c \in Sids, c_stage[c] = "relaying"
        PROVE  \/ c \in c_clients_map_ <=> c \in s_clients_map_
               \/ c \in refused
               \/ c \notin c_clients_map_ /\ Closing(c_recv_buffers_[c]) /\ ~Closing(c_out[c])
               \/ c \notin s_clients_map_ /\ Closing(s_recv_buffers_[c]) /\ ~Closing(s_out[c])
    BY DEF ClosesTogether
  <2> SUFFICES ASSUME c \notin refused
        PROVE  \/ c \in c_clients_map_ <=> c \in s_clients_map_
               \/ c \notin c_clients_map_ /\ Closing(c_recv_buffers_[c]) /\ ~Closing(c_out[c])
               \/ c \notin s_clients_map_ /\ Closing(s_recv_buffers_[c]) /\ ~Closing(s_out[c])
    OBVIOUS
  <2>1. ServerEnd(c) /\ ClientEnd(c) /\ ClientInv /\ ServerInv /\ s_stage[c] # "none"
    BY <1>1, SettledAnswers DEF WireInv, WireOK, ManagersInv
  <2>2. /\ c_out[c] \in Seq(CP!Tuples) /\ s_out[c] \in Seq(SP!Tuples)
    BY <2>1, ClientSays, ServerSays
  <2>3. /\ toServer[c] = Len(c_out[c]) /\ toClient[c] = Len(s_out[c])
        /\ ~c_removing[c] /\ ~s_removing[c]
    BY DEF Settled
  <2>4. /\ Dropped(toServer[c], c_out[c]) <=> Closing(c_out[c])
        /\ Dropped(toClient[c], s_out[c]) <=> Closing(s_out[c])
    BY <2>2, <2>3 DEF Dropped, Closing
  <2>5. /\ CP!Leaving(c) => Closing(c_recv_buffers_[c]) \/ Closing(c_out[c])
        /\ SP!Leaving(c) => Closing(s_recv_buffers_[c]) \/ Closing(s_out[c])
    <3>1. CP!Queued(c) = {} /\ SP!Queued(c) = {}
      BY <1>1, SettledQueues
    <3> QED
      BY <3>1 DEF CP!Leaving, CP!Known, CP!Elements, SP!Leaving, SP!Known,
                  SP!Elements, Closing
  <2>6. /\ Closing(c_out[c]) => c \notin c_clients_map_
        /\ Closing(s_out[c]) => c \notin s_clients_map_
    <3>1. CP!Closed(c) /\ SP!Closed(c)
      BY <2>1 DEF ClientInv, ServerInv, CP!TupleInv, CP!TupleOK, SP!StreamInv
    <3> QED
      BY <2>3, <3>1 DEF CP!Closed, CP!Known, CP!Elements, SP!Closed, SP!Known,
                        SP!Elements, Closing
  <2> QED
    BY <2>1, <2>4, <2>5, <2>6 DEF ServerEnd, ClientEnd
<1> QED
  BY <1>1, Invariance, PTL
-----------------------------------------------------------------------------
(* End to end, each direction is the stream of FrameStream.                *)

Upto(n) == [i \in 1 .. n |-> i]

\* How many of the chunks w came as data.
Count(w) == Len(w) - (IF w # <<>> /\ w[1] = 0 THEN 1 ELSE 0)

\* Consecutive chunks that came as data with consecutive numbers.
LEMMA PayloadIsCount ==
  ASSUME NEW w \in Seq(Nat), NEW numbers, NEW b \in {0, 1},
         \A i \in DOMAIN w : w[i] = i - b,
         \A i \in DOMAIN w : w[i] > 0 => w[i] \in DOMAIN numbers /\ numbers[w[i]] = w[i] + 1
  PROVE  /\ Count(w) \in Nat
         /\ Payload(w, numbers) = Upto(Count(w))
         /\ Count(w) > 0 => Count(w) \in DOMAIN numbers
<1> DEFINE base == IF w # <<>> /\ w[1] = 0 THEN 1 ELSE 0
<1>1. /\ Len(w) \in Nat /\ DOMAIN w = 1 .. Len(w)
      /\ w # <<>> <=> Len(w) > 0
  OBVIOUS
<1>2. Len(w) > 0 => base = b
  <2> SUFFICES ASSUME Len(w) > 0 PROVE base = b
    OBVIOUS
  <2>1. w # <<>> /\ w[1] = 1 - b
    BY <1>1
  <2> QED
    BY <2>1
<1>3. base \in {0, 1} /\ (Len(w) = 0 => base = 0)
  BY <1>1
<1>4. Count(w) = Len(w) - base /\ Count(w) \in Nat
  BY <1>1, <1>3 DEF Count
<1>5. Payload(w, numbers) =
        [i \in 1 .. Len(w) - base |->
           IF w[i + base] \in DOMAIN numbers THEN numbers[w[i + base]] - 1 ELSE 0]
  BY DEF Payload
<1> HIDE DEF base
<1>6. ASSUME NEW i \in 1 .. Len(w) - base
      PROVE  /\ w[i + base] = i /\ i \in DOMAIN numbers
             /\ (IF w[i + base] \in DOMAIN numbers THEN numbers[w[i + base]] - 1 ELSE 0) = i
  <2>1. i + base \in DOMAIN w /\ i \in Nat /\ i > 0 /\ base = b /\ (i + base) - b = i
    BY <1>1, <1>2, <1>3
  <2>2. w[i + base] = i
    BY <2>1
  <2>3. i \in DOMAIN numbers /\ numbers[i] = i + 1
    BY <2>1, <2>2
  <2> QED
    BY <2>1, <2>2, <2>3
<1>7. Payload(w, numbers) = Upto(Count(w))
  BY <1>4, <1>5, <1>6 DEF Upto
<1>8. Count(w) > 0 => Count(w) \in 1 .. Len(w) - base
  BY <1>4
<1> QED
  BY <1>4, <1>6, <1>7, <1>8

\* One more chunk.
LEMMA CountAppend ==
  ASSUME NEW w \in Seq(Nat), NEW k \in Nat
  PROVE  /\ Count(w) \in Nat
         /\ Count(Append(w, k)) = Count(w) \/ Count(Append(w, k)) = Count(w) + 1
<1> DEFINE v == Append(w, k)
<1>1. /\ Len(w) \in Nat /\ Len(v) = Len(w) + 1 /\ v \in Seq(Nat)
      /\ w = <<>> <=> Len(w) = 0
      /\ \A i \in 1 .. Len(w) : v[i] = w[i]
  OBVIOUS
<1> HIDE DEF v
<1>2. v # <<>>
  BY <1>1
<1>3. CASE w = <<>>
  <2>1. Count(w) = 0 /\ Len(v) = 1
    BY <1>1, <1>3 DEF Count
  <2>2. Count(v) = 0 \/ Count(v) = 1
    BY <1>2, <2>1 DEF Count
  <2> QED
    BY <2>1, <2>2 DEF v
<1>4. CASE w # <<>>
  <2>1. v[1] = w[1] /\ Len(w) \in Nat /\ Len(w) > 0
    BY <1>1, <1>4
  <2>2. Count(w) \in Nat /\ Count(v) = Count(w) + 1
    BY <1>1, <1>2, <1>4, <2>1 DEF Count
  <2> QED
    BY <2>2 DEF v
<1> QED
  BY <1>3, <1>4

LEMMA UptoAppend ==
  ASSUME NEW n \in Nat
  PROVE  Len(Upto(n)) = n /\ Append(Upto(n), n + 1) = Upto(n + 1)
<1>1. Upto(n) \in Seq(Nat) /\ Len(Upto(n)) = n
  BY DEF Upto
<1>2. Upto(n + 1) \in Seq(Nat) /\ Len(Upto(n + 1)) = n + 1
  BY DEF Upto
<1>3. /\ Append(Upto(n), n + 1) \in Seq(Nat) /\ Len(Append(Upto(n), n + 1)) = n + 1
      /\ \A i \in 1 .. n : Append(Upto(n), n + 1)[i] = Upto(n)[i]
      /\ Append(Upto(n), n + 1)[n + 1] = n + 1
  BY <1>1
<1>4. \A i \in 1 .. n + 1 : Append(Upto(n), n + 1)[i] = Upto(n + 1)[i]
  <2> SUFFICES ASSUME NEW i \in 1 .. n + 1 PROVE Append(Upto(n), n + 1)[i] = i
    BY DEF Upto
  <2>1. CASE i = n + 1
    BY <1>3, <2>1
  <2>2. CASE i # n + 1
    <3>1. i \in 1 .. n
      BY <2>2
    <3> QED
      BY <1>3, <3>1 DEF Upto
  <2> QED
    BY <2>1, <2>2
<1>5. Append(Upto(n), n + 1) = Upto(n + 1)
  BY <1>2, <1>3, <1>4, SMTT(60)
<1> QED
  BY <1>1, <1>5

Produced(p) == [c \in Sids |-> AfterFirst(p[c])]
HandedOver(w) == [c \in Sids |-> Upto(Count(w[c]))]

\* A step of the streams, or none.
Moves(produced, producedAfter, handed, handedAfter) ==
  \/ producedAfter = produced /\ handedAfter = handed
  \/ \E c \in Sids : /\ producedAfter = [produced EXCEPT ![c] = @ + 1]
                     /\ handedAfter = handed
  \/ \E c \in Sids : /\ producedAfter = produced
                     /\ Len(handed[c]) < producedAfter[c]
                     /\ handedAfter = [handed EXCEPT ![c] = Append(@, Len(@) + 1)]

\* One end pushes a tuple or the other writes a chunk, both of one connection.
LEMMA StreamStep ==
  ASSUME NEW p \in [Sids -> Nat], NEW q \in [Sids -> Nat],
         NEW w \in [Sids -> Seq(Nat)], NEW v \in [Sids -> Seq(Nat)],
         p = q \/ w = v,
         p = q \/ \E c \in Sids : q = [p EXCEPT ![c] = @ + 1],
         w = v \/ \E c \in Sids, k \in Nat : v = [w EXCEPT ![c] = Append(@, k)],
         \A c \in Sids : Count(v[c]) <= AfterFirst(q[c])
  PROVE  Moves(Produced(p), Produced(q), HandedOver(w), HandedOver(v))
<1> DEFINE produced == [c \in Sids |-> AfterFirst(p[c])]
           producedAfter == [c \in Sids |-> AfterFirst(q[c])]
           handed == [c \in Sids |-> Upto(Count(w[c]))]
           handedAfter == [c \in Sids |-> Upto(Count(v[c]))]
<1> SUFFICES Moves(produced, producedAfter, handed, handedAfter)
  BY DEF Produced, HandedOver
<1> USE DEF Moves
<1>1. CASE p = q /\ w = v
  BY <1>1
<1>2. CASE w = v /\ \E c \in Sids : q = [p EXCEPT ![c] = @ + 1]
  <2>1. PICK c \in Sids : q = [p EXCEPT ![c] = @ + 1]
    BY <1>2
  <2>2. p[c] \in Nat /\ q[c] = p[c] + 1 /\ \A d \in Sids \ {c} : q[d] = p[d]
    BY <2>1
  <2>3. CASE p[c] = 0
    <3>1. AfterFirst(q[c]) = AfterFirst(p[c])
      BY <2>2, <2>3 DEF AfterFirst
    <3> QED
      BY <1>2, <2>2, <3>1
  <2>4. CASE p[c] # 0
    <3> DEFINE n == p[c]
    <3>0. n \in Nat /\ n # 0 /\ n + 1 # 0 /\ (n + 1) - 1 = (n - 1) + 1
      BY <2>2, <2>4
    <3> HIDE DEF n
    <3>1. AfterFirst(n + 1) = AfterFirst(n) + 1
      BY <3>0 DEF AfterFirst
    <3>3. q[c] = n + 1 /\ p[c] = n
      BY <2>2 DEF n
    <3>2. producedAfter = [produced EXCEPT ![c] = @ + 1]
      BY <2>2, <3>1, <3>3
    <3> QED
      BY <1>2, <3>2
  <2> QED
    BY <2>3, <2>4
<1>3. CASE p = q /\ \E c \in Sids, k \in Nat : v = [w EXCEPT ![c] = Append(@, k)]
  <2>1. PICK c \in Sids, k \in Nat : v = [w EXCEPT ![c] = Append(@, k)]
    BY <1>3
  <2>2. w[c] \in Seq(Nat) /\ v[c] = Append(w[c], k) /\ \A d \in Sids \ {c} : v[d] = w[d]
    BY <2>1
  <2>3. Count(w[c]) \in Nat /\ (Count(v[c]) = Count(w[c]) \/ Count(v[c]) = Count(w[c]) + 1)
    BY <2>2, CountAppend
  <2>4. CASE Count(v[c]) = Count(w[c])
    BY <1>3, <2>2, <2>4
  <2>5. CASE Count(v[c]) = Count(w[c]) + 1
    <3>1. /\ handed[c] = Upto(Count(w[c])) /\ Len(handed[c]) = Count(w[c])
          /\ handedAfter[c] = Append(handed[c], Len(handed[c]) + 1)
          /\ \A d \in Sids \ {c} : handedAfter[d] = handed[d]
      BY <2>2, <2>3, <2>5, UptoAppend
    <3>2. Len(handed[c]) < producedAfter[c]
      <4>1. AfterFirst(q[c]) \in Nat /\ Count(v[c]) <= AfterFirst(q[c])
        BY DEF AfterFirst
      <4> QED
        BY <2>3, <2>5, <3>1, <4>1
    <3>3. handedAfter = [handed EXCEPT ![c] = Append(@, Len(@) + 1)]
      <4>1. handed = [d \in Sids |-> handed[d]] /\ handedAfter = [d \in Sids |-> handedAfter[d]]
        OBVIOUS
      <4> HIDE DEF handed, handedAfter
      <4> QED
        BY <3>1, <4>1
    <3> QED
      BY <1>3, <3>2, <3>3
  <2> QED
    BY <2>3, <2>4, <2>5
<1> QED
  BY <1>1, <1>2, <1>3

\* What has arrived of n frames of which each was pushed.
LEMMA ArrivedWasPushed ==
  ASSUME NEW count \in Nat, NEW numbers \in Seq(Nat), NEW n \in Nat, NEW pushed \in Nat,
         n <= pushed, Len(numbers) <= AfterFirst(n),
         count > 0 => count \in DOMAIN numbers
  PROVE  count <= AfterFirst(pushed)
<1>1. /\ Len(numbers) \in Nat /\ DOMAIN numbers = 1 .. Len(numbers)
      /\ AfterFirst(n) \in Nat /\ AfterFirst(pushed) \in Nat
  BY DEF AfterFirst
<1>2. AfterFirst(n) <= AfterFirst(pushed)
  BY DEF AfterFirst
<1>3. count > 0 => count <= Len(numbers)
  BY <1>1
<1> QED
  BY <1>1, <1>2, <1>3

\* The remote host of c got a prefix of what its browser sent.
LEMMA UpstreamState ==
  ASSUME ManagersInv, WireInv, DataInv, NEW c \in Sids
  PROVE  /\ Payload(s_written[c], dataToServer[c]) = Upto(Count(s_written[c]))
         /\ Count(s_written[c]) <= AfterFirst(c_pushed[c])
<1> DEFINE w == s_written[c]
           numbers == dataToServer[c]
<1>1. /\ w \in Seq(Nat) /\ numbers \in Seq(Nat) /\ c_pushed[c] \in Nat
      /\ SP!Base(w) \in {0, 1}
  <2>1. CP!QueuesTypeOK
    BY ManagersTypes
  <2> QED
    BY <2>1, SP!OrderTypes, Instances
       DEF ManagersInv, ServerInv, DataInv, CP!QueuesTypeOK, SP!Base
<1>2. \A i \in DOMAIN w : w[i] = i - SP!Base(w)
  BY DEF ManagersInv, ServerInv, SP!OrderInv, SP!InOrder
<1>3. \A i \in DOMAIN w : w[i] > 0 => w[i] \in DOMAIN numbers /\ numbers[w[i]] = w[i] + 1
  BY DEF DataInv, Carried, SP!Chunks, SP!Elements
<1>4. toServer[c] \in Nat /\ toServer[c] <= c_pushed[c]
  <2>1. c_out[c] \in Seq(CP!Tuples) /\ toServer[c] \in 0 .. Len(c_out[c]) /\ CP!HandedInOrder
    BY ClientSays DEF ManagersInv, ClientInv, CP!IInv, CP!FlowInv, CP!TransportInv,
                      WireInv, WireOK, Started
  <2>2. \A i \in DOMAIN c_out[c] : c_out[c][i].n <= c_pushed[c]
    BY ClientSays DEF ManagersInv, ClientInv, CP!TupleInv, CP!TupleOK, CP!RequestFirst
  <2>3. \A i \in DOMAIN c_out[c] : i <= c_pushed[c]
    BY <2>1, <2>2 DEF CP!HandedInOrder
  <2> QED
    BY <1>1, <2>1, <2>3
<1>5. Len(numbers) <= AfterFirst(toServer[c])
  BY DEF DataInv, Carried
<1> HIDE DEF w, numbers
<1>6. /\ Count(w) \in Nat /\ Payload(w, numbers) = Upto(Count(w))
      /\ Count(w) > 0 => Count(w) \in DOMAIN numbers
  BY <1>1, <1>2, <1>3, PayloadIsCount
<1>7. Count(w) <= AfterFirst(c_pushed[c])
  BY <1>1, <1>4, <1>5, <1>6, ArrivedWasPushed
<1> QED
  BY <1>6, <1>7 DEF w, numbers

\* The browser of c got a prefix of what its remote host sent.
LEMMA DownstreamState ==
  ASSUME ManagersInv, WireInv, DataInv, NEW c \in Sids
  PROVE  /\ Payload(c_written[c], dataToClient[c]) = Upto(Count(c_written[c]))
         /\ Count(c_written[c]) <= AfterFirst(s_pushed[c])
<1> DEFINE w == c_written[c]
           numbers == dataToClient[c]
<1>1. w \in Seq(Nat) /\ numbers \in Seq(Nat) /\ s_pushed[c] \in Nat
  <2>1. SP!QueuesTypeOK
    BY ManagersTypes
  <2> QED
    BY <2>1, CP!OrderTypes, Instances
       DEF ManagersInv, ClientInv, DataInv, SP!QueuesTypeOK
<1>2. PICK b \in {0, 1} : \A i \in DOMAIN w : w[i] = i - b
  BY DEF ManagersInv, ClientInv, CP!OrderInv, CP!InOrder, CP!Consecutive
<1>3. \A i \in DOMAIN w : w[i] > 0 => w[i] \in DOMAIN numbers /\ numbers[w[i]] = w[i] + 1
  BY DEF DataInv, Carried, CP!Chunks, CP!Elements
<1>4. toClient[c] \in Nat /\ toClient[c] <= s_pushed[c]
  <2>1. s_out[c] \in Seq(SP!Tuples) /\ toClient[c] \in 0 .. Len(s_out[c]) /\ SP!HandedInOrder
    BY ServerSays DEF ManagersInv, ServerInv, SP!IInv, SP!QueueInv, SP!TransportInv,
                      WireInv, WireOK, AnswerArrived
  <2>2. \A i \in DOMAIN s_out[c] : s_out[c][i].n <= s_pushed[c]
    BY ServerSays DEF ManagersInv, ServerInv, SP!StreamInv, SP!Answered
  <2>3. \A i \in DOMAIN s_out[c] : i <= s_pushed[c]
    BY <2>1, <2>2 DEF SP!HandedInOrder
  <2> QED
    BY <1>1, <2>1, <2>3
<1>5. Len(numbers) <= AfterFirst(toClient[c])
  BY DEF DataInv, Carried
<1> HIDE DEF w, numbers
<1>6. /\ Count(w) \in Nat /\ Payload(w, numbers) = Upto(Count(w))
      /\ Count(w) > 0 => Count(w) \in DOMAIN numbers
  BY <1>1, <1>2, <1>3, PayloadIsCount
<1>7. Count(w) <= AfterFirst(s_pushed[c])
  BY <1>1, <1>4, <1>5, <1>6, ArrivedWasPushed
<1> QED
  BY <1>6, <1>7 DEF w, numbers

\* What a step changes of the streams: one end pushes one tuple, or the other
\* writes one chunk.
LEMMA NextStreams ==
  ASSUME Quiet, ManagersInv, [Next]_vars
  PROVE  /\ c_pushed' = c_pushed \/ s_written' = s_written
         /\ s_pushed' = s_pushed \/ c_written' = c_written
         /\ c_pushed' = c_pushed \/ \E c \in Sids : c_pushed' = [c_pushed EXCEPT ![c] = @ + 1]
         /\ s_pushed' = s_pushed \/ \E c \in Sids : s_pushed' = [s_pushed EXCEPT ![c] = @ + 1]
         /\ \/ c_written' = c_written
            \/ \E c \in Sids, k \in Nat : c_written' = [c_written EXCEPT ![c] = Append(@, k)]
         /\ \/ s_written' = s_written
            \/ \E c \in Sids, k \in Nat : s_written' = [s_written EXCEPT ![c] = Append(@, k)]
<1>1. [CP!Next]_(CP!vars) /\ [SP!Next]_(SP!vars) /\ CP!Quiet
  BY ManagersTypes, ClientNext, ServerNext DEF Quiet, CP!Quiet
<1>2. c_pushed' = c_pushed \/ \E c \in Sids : c_pushed' = [c_pushed EXCEPT ![c] = @ + 1]
  BY <1>1, CP!NextPushes, Instances DEF ManagersInv, ClientInv
<1>3. s_pushed' = s_pushed \/ \E c \in Sids : s_pushed' = [s_pushed EXCEPT ![c] = @ + 1]
  BY <1>1, SP!NextPushes, Instances DEF ManagersInv, ServerInv
<1>4. \/ c_written' = c_written
      \/ \E c \in Sids, k \in Nat : c_written' = [c_written EXCEPT ![c] = Append(@, k)]
  BY <1>1, CP!NextWrites, Instances DEF ManagersInv, ClientInv
<1>5. \/ s_written' = s_written
      \/ \E c \in Sids, k \in Nat : s_written' = [s_written EXCEPT ![c] = Append(@, k)]
  BY <1>1, SP!NextWrites, Instances DEF ManagersInv, ServerInv
<1>6. /\ c_pushed' = c_pushed \/ s_written' = s_written
      /\ s_pushed' = s_pushed \/ c_written' = c_written
  <2>1. CASE ClientSide \/ \E c \in Sids : ToClient(c)
    <3>1. s_written' = s_written /\ s_pushed' = s_pushed
      BY <2>1 DEF ClientSide, ToClient, serverVars
    <3> QED
      BY <3>1
  <2>2. CASE ServerSide \/ \E c \in Sids : ToServer(c)
    <3>1. c_written' = c_written /\ c_pushed' = c_pushed
      BY <2>2 DEF ServerSide, ToServer, clientVars
    <3> QED
      BY <3>1
  <2>3. CASE UNCHANGED vars
    BY <2>3 DEF vars, clientVars, serverVars
  <2> QED
    BY <2>1, <2>2, <2>3 DEF Next
<1> QED
  BY <1>2, <1>3, <1>4, <1>5, <1>6

\* What was written at either end of each direction is a prefix of what was
\* pushed at the other.
StreamsOK ==
  /\ c_pushed \in [Sids -> Nat] /\ s_pushed \in [Sids -> Nat]
  /\ c_written \in [Sids -> Seq(Nat)] /\ s_written \in [Sids -> Seq(Nat)]
  /\ \A c \in Sids :
       /\ Payload(s_written[c], dataToServer[c]) = Upto(Count(s_written[c]))
       /\ Count(s_written[c]) <= AfterFirst(c_pushed[c])
       /\ Payload(c_written[c], dataToClient[c]) = Upto(Count(c_written[c]))
       /\ Count(c_written[c]) <= AfterFirst(s_pushed[c])

LEMMA StreamsHold == ManagersInv /\ WireInv /\ DataInv => StreamsOK
<1> SUFFICES ASSUME ManagersInv, WireInv, DataInv PROVE StreamsOK
  OBVIOUS
<1>1. c_pushed \in [Sids -> Nat] /\ s_pushed \in [Sids -> Nat]
  BY ManagersTypes DEF CP!QueuesTypeOK, SP!QueuesTypeOK
<1>2. c_written \in [Sids -> Seq(Nat)] /\ s_written \in [Sids -> Seq(Nat)]
  BY CP!OrderTypes, SP!OrderTypes, Instances DEF ManagersInv, ClientInv, ServerInv
<1> QED
  BY <1>1, <1>2, UpstreamState, DownstreamState DEF StreamsOK

LEMMA InitStreams ==
  ASSUME Init
  PROVE  Upstream!Init /\ Downstream!Init
<1>1. \A c \in Sids :
        /\ c_pushed[c] = 0 /\ s_pushed[c] = 0 /\ s_written[c] = <<>> /\ c_written[c] = <<>>
        /\ dataToServer[c] = <<>> /\ dataToClient[c] = <<>>
  BY DEF Init, C!Init, C!InitRelay, C!InitTransport, S!Init, S!InitRelay, S!InitTransport
<1>2. Payload(<<>>, <<>>) = <<>>
  <2>1. [i \in 1 .. 0 |-> IF (<<>>)[i + 0] \in DOMAIN <<>> THEN (<<>>)[(<<>>)[i + 0]] - 1 ELSE 0]
          = <<>>
    OBVIOUS
  <2> QED
    BY <2>1 DEF Payload
<1> QED
  BY <1>1, <1>2 DEF Upstream!Init, Downstream!Init, AfterFirst

LEMMA UpstreamNext ==
  ASSUME Quiet, ManagersInv, StreamsOK, StreamsOK', [Next]_vars
  PROVE  [Upstream!Next]_<<[c \in Sids |-> AfterFirst(c_pushed[c])],
                           [c \in Sids |-> Payload(s_written[c], dataToServer[c])]>>
<1>1. /\ [c \in Sids |-> Payload(s_written[c], dataToServer[c])] = HandedOver(s_written)
      /\ [c \in Sids |-> Payload(s_written[c], dataToServer[c])]' = HandedOver(s_written')
      /\ [c \in Sids |-> AfterFirst(c_pushed[c])] = Produced(c_pushed)
      /\ [c \in Sids |-> AfterFirst(c_pushed[c])]' = Produced(c_pushed')
  BY DEF StreamsOK, Produced, HandedOver
<1>2. Moves(Produced(c_pushed), Produced(c_pushed'), HandedOver(s_written),
            HandedOver(s_written'))
  <2>1. /\ c_pushed \in [Sids -> Nat] /\ c_pushed' \in [Sids -> Nat]
        /\ s_written \in [Sids -> Seq(Nat)] /\ s_written' \in [Sids -> Seq(Nat)]
        /\ \A c \in Sids : Count(s_written'[c]) <= AfterFirst(c_pushed'[c])
    BY DEF StreamsOK
  <2>2. /\ c_pushed = c_pushed' \/ s_written = s_written'
        /\ c_pushed = c_pushed' \/ \E c \in Sids : c_pushed' = [c_pushed EXCEPT ![c] = @ + 1]
        /\ \/ s_written = s_written'
           \/ \E c \in Sids, k \in Nat : s_written' = [s_written EXCEPT ![c] = Append(@, k)]
    BY NextStreams
  <2> QED
    BY <2>1, <2>2, StreamStep
<1>3. CASE Produced(c_pushed') = Produced(c_pushed) /\ HandedOver(s_written') = HandedOver(s_written)
  BY <1>1, <1>3
<1>4. ASSUME NEW c \in Sids,
             Produced(c_pushed') = [Produced(c_pushed) EXCEPT ![c] = @ + 1],
             HandedOver(s_written') = HandedOver(s_written)
      PROVE  Upstream!Next
  <2>1. Upstream!Produce(c)
    BY <1>1, <1>4 DEF Upstream!Produce
  <2>2. UNCHANGED [d \in Sids |-> Payload(s_written[d], dataToServer[d])]
    BY <1>1, <1>4
  <2> QED
    BY <2>1, <2>2 DEF Upstream!Next, Upstream!Step
<1>5. ASSUME NEW c \in Sids,
             Produced(c_pushed') = Produced(c_pushed),
             Len(HandedOver(s_written)[c]) < Produced(c_pushed')[c],
             HandedOver(s_written') = [HandedOver(s_written) EXCEPT ![c] = Append(@, Len(@) + 1)]
      PROVE  Upstream!Next
  <2>1. Upstream!Hand(c)
    BY <1>1, <1>5 DEF Upstream!Hand
  <2>2. UNCHANGED [d \in Sids |-> AfterFirst(c_pushed[d])]
    BY <1>1, <1>5
  <2> QED
    BY <2>1, <2>2 DEF Upstream!Next, Upstream!Step
<1> QED
  BY <1>2, <1>3, <1>4, <1>5 DEF Moves

LEMMA DownstreamNext ==
  ASSUME Quiet, ManagersInv, StreamsOK, StreamsOK', [Next]_vars
  PROVE  [Downstream!Next]_<<[c \in Sids |-> AfterFirst(s_pushed[c])],
                             [c \in Sids |-> Payload(c_written[c], dataToClient[c])]>>
<1>1. /\ [c \in Sids |-> Payload(c_written[c], dataToClient[c])] = HandedOver(c_written)
      /\ [c \in Sids |-> Payload(c_written[c], dataToClient[c])]' = HandedOver(c_written')
      /\ [c \in Sids |-> AfterFirst(s_pushed[c])] = Produced(s_pushed)
      /\ [c \in Sids |-> AfterFirst(s_pushed[c])]' = Produced(s_pushed')
  BY DEF StreamsOK, Produced, HandedOver
<1>2. Moves(Produced(s_pushed), Produced(s_pushed'), HandedOver(c_written),
            HandedOver(c_written'))
  <2>1. /\ s_pushed \in [Sids -> Nat] /\ s_pushed' \in [Sids -> Nat]
        /\ c_written \in [Sids -> Seq(Nat)] /\ c_written' \in [Sids -> Seq(Nat)]
        /\ \A c \in Sids : Count(c_written'[c]) <= AfterFirst(s_pushed'[c])
    BY DEF StreamsOK
  <2>2. /\ s_pushed = s_pushed' \/ c_written = c_written'
        /\ s_pushed = s_pushed' \/ \E c \in Sids : s_pushed' = [s_pushed EXCEPT ![c] = @ + 1]
        /\ \/ c_written = c_written'
           \/ \E c \in Sids, k \in Nat : c_written' = [c_written EXCEPT ![c] = Append(@, k)]
    BY NextStreams
  <2> QED
    BY <2>1, <2>2, StreamStep
<1>3. CASE Produced(s_pushed') = Produced(s_pushed) /\ HandedOver(c_written') = HandedOver(c_written)
  BY <1>1, <1>3
<1>4. ASSUME NEW c \in Sids,
             Produced(s_pushed') = [Produced(s_pushed) EXCEPT ![c] = @ + 1],
             HandedOver(c_written') = HandedOver(c_written)
      PROVE  Downstream!Next
  <2>1. Downstream!Produce(c)
    BY <1>1, <1>4 DEF Downstream!Produce
  <2>2. UNCHANGED [d \in Sids |-> Payload(c_written[d], dataToClient[d])]
    BY <1>1, <1>4
  <2> QED
    BY <2>1, <2>2 DEF Downstream!Next, Downstream!Step
<1>5. ASSUME NEW c \in Sids,
             Produced(s_pushed') = Produced(s_pushed),
             Len(HandedOver(c_written)[c]) < Produced(s_pushed')[c],
             HandedOver(c_written') = [HandedOver(c_written) EXCEPT ![c] = Append(@, Len(@) + 1)]
      PROVE  Downstream!Next
  <2>1. Downstream!Hand(c)
    BY <1>1, <1>5 DEF Downstream!Hand
  <2>2. UNCHANGED [d \in Sids |-> AfterFirst(s_pushed[d])]
    BY <1>1, <1>5
  <2> QED
    BY <2>1, <2>2 DEF Downstream!Next, Downstream!Step
<1> QED
  BY <1>2, <1>3, <1>4, <1>5 DEF Moves

\* As long as nothing meets set_connected() (Quiet; the code does meet it, and
\* then sends a chunk twice): every chunk read from a browser that is written
\* to its remote host is written there once and in order, through the queues
\* of both ends.
THEOREM UpstreamTheorem == ASSUME Quiet PROVE Spec => UpstreamInOrder
<1>1. Init => Upstream!Init
  BY InitStreams
<1>2. Spec => [](ManagersInv /\ StreamsOK)
  BY Invariance, StreamsHold, PTL
<1>3. ManagersInv /\ StreamsOK /\ StreamsOK' /\ [Next]_vars =>
        [Upstream!Next]_<<[c \in Sids |-> AfterFirst(c_pushed[c])],
                          [c \in Sids |-> Payload(s_written[c], dataToServer[c])]>>
  BY UpstreamNext
<1> QED
  BY <1>1, <1>2, <1>3, PTL DEF Spec, UpstreamInOrder, Upstream!Spec

\* The same, under the same assumption, for what is read from a remote host.
THEOREM DownstreamTheorem == ASSUME Quiet PROVE Spec => DownstreamInOrder
<1>1. Init => Downstream!Init
  BY InitStreams
<1>2. Spec => [](ManagersInv /\ StreamsOK)
  BY Invariance, StreamsHold, PTL
<1>3. ManagersInv /\ StreamsOK /\ StreamsOK' /\ [Next]_vars =>
        [Downstream!Next]_<<[c \in Sids |-> AfterFirst(s_pushed[c])],
                            [c \in Sids |-> Payload(c_written[c], dataToClient[c])]>>
  BY DownstreamNext
<1> QED
  BY <1>1, <1>2, <1>3, PTL DEF Spec, DownstreamInOrder, Downstream!Spec
=============================================================================
