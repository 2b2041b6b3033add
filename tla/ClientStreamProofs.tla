-------------------------- MODULE ClientStreamProofs --------------------------
(***************************************************************************)
(* Theorems about what a connection of ClientManager sends and writes.     *)
(* TupleInv and OrderInv hold whatever may meet a recv() inside            *)
(* set_connected(); FlowInv needs the three constants to be FALSE, as runs *)
(* with one of them TRUE show.  They rest on ClientManagerProofs.          *)
(***************************************************************************)
EXTENDS ClientManagerProofs

\* Before tcp_connect is handed over nothing else is, it waits in the queues
\* and there is no answer.
Requested(c) ==
  /\ out[c] = <<>> => /\ \A t \in Queued(c) : t.type = "tcp_connect"
                      /\ stage[c] = "relaying" => recv_buffers_[c] # <<>>
                      /\ answer[c] = "no"
  /\ out[c] # <<>> => out[c][1].type = "tcp_connect"

\* The peer has answered, and set_connected() is through unless read callbacks
\* run inside it.
MaySendData(c) == is_connected_[c] /\ (answer[c] = "setting" => ReadRaces)

\* Data is queued or handed over only then.
Gated(c) ==
  \A t \in Queued(c) \cup Elements(out[c]) : t.type = "tcp_data" => MaySendData(c)

\* No tuple is numbered beyond the pushes, and the request is the first.
RequestFirst(c) ==
  \A t \in Known(c) : t.n <= pushed[c] /\ (t.type = "tcp_connect" => t.n = 1)

\* A client that is to send tcp_disconnect, or has sent it, is to be removed.
Closed(c) ==
  c \in clients_map_ /\ (\E t \in Known(c) : t.type = "tcp_disconnect") => removing[c]

TupleOK(c) == Requested(c) /\ Gated(c) /\ RequestFirst(c) /\ Closed(c)

TupleInv == HeadHanded /\ \A c \in Sids : TupleOK(c)

\* What is written, is being written and waits are consecutive chunks, from
\* the payload of the answer (b = 1) or the first of the data (b = 0) up to
\* the last one received while the client is in the map.
Consecutive(c, b) ==
  /\ \A i \in DOMAIN written[c] : written[c][i] = i - b
  /\ \A j \in DOMAIN send_buffers_[c] : send_buffers_[c][j] = Len(written[c]) + j - b
  /\ c \in clients_map_ \/ answer[c] # "yes" =>
       received[c] = Len(written[c]) + Len(send_buffers_[c]) - b

InOrder(c) ==
  /\ \E b \in {0, 1} : Consecutive(c, b)
  /\ answer[c] # "yes" => written[c] = <<>> /\ received[c] = 0
  /\ stage[c] = "relaying" /\ writes[c] = 1 => write_buffer_[c] = send_buffers_[c][1]

OrderInv == \A c \in Sids : InOrder(c)

\* Nothing meets a recv() inside set_connected().
Quiet == ~ReadRaces /\ ~CloseRaces /\ ~LateCompletion

\* An answered client in the map with something to send has a frame queued.
Served(c) ==
  c \in clients_map_ /\ answer[c] = "yes" /\ recv_buffers_[c] # <<>> => InFlight(c)

\* Nothing of what a client in the map without a frame has to send was
\* handed over, so that set_connected() may send the oldest of it.
Held(c) ==
  c \in clients_map_ /\ recv_buffers_[c] # <<>> /\ ~InFlight(c) =>
    Len(out[c]) = pushed[c] - Len(recv_buffers_[c])

\* No frame is queued between the two steps of set_connected().
Settled(c) == answer[c] = "setting" => ~InFlight(c)

FlowOK(c) == Served(c) /\ Held(c) /\ Settled(c)

FlowInv == TransportInv /\ ~corrupted /\ \A c \in Sids : FlowOK(c)

\* A connection whose header is read is in the map; the request of one that
\* relays was handed over or is queued; a posted removal was announced.
Told(c) ==
  /\ stage[c] = "heading" => c \in clients_map_
  /\ stage[c] = "relaying" => Sent(c)
  /\ removing[c] => Leaving(c)

LossInv == \A c \in Sids : Told(c)
-----------------------------------------------------------------------------
(* Data waits for the answer, and a closed connection is removed.          *)

\* A step that queues or hands over the tuples of news, and those queued.
LEMMA SendStep ==
  ASSUME NEW c \in Sids, Requested(c), Gated(c), NEW news,
         out'[c] \in Seq(Tuples),
         Queued(c)' \subseteq Queued(c) \cup news,
         Elements(out'[c]) \subseteq Elements(out[c]) \cup Queued(c) \cup news,
         out[c] # <<>> => out'[c] # <<>> /\ out'[c][1] = out[c][1],
         out[c] = <<>> => \A t \in news : t.type = "tcp_connect",
         \A t \in news : t.type = "tcp_data" => MaySendData(c)',
         MaySendData(c) => MaySendData(c)',
         out'[c] = <<>> => /\ stage'[c] = "relaying" => recv_buffers_'[c] # <<>>
                           /\ answer'[c] = "no"
  PROVE  Requested(c)' /\ Gated(c)'
<1>1. Gated(c)'
  BY DEF Gated
<1>2. ASSUME out[c] = <<>>, out'[c] # <<>> PROVE out'[c][1].type = "tcp_connect"
  <2>1. Elements(out[c]) = {}
    BY <1>2 DEF Elements
  <2>2. out'[c][1] \in Elements(out'[c])
    BY <1>2 DEF Elements
  <2> QED
    BY <1>2, <2>1, <2>2 DEF Requested
<1>3. Requested(c)'
  BY <1>2 DEF Requested
<1> QED
  BY <1>1, <1>3

\* A step that does not touch the tuples of a connection.
LEMMA TupleUntouched ==
  ASSUME NEW c \in Sids, TupleOK(c),
         Known(c)' \subseteq Known(c), Queued(c)' = Queued(c), out'[c] = out[c],
         UNCHANGED <<recv_buffers_[c], pushed[c], is_connected_[c], answer[c]>>,
         stage'[c] = "relaying" => stage[c] = "relaying",
         c \in clients_map_' => /\ c \in clients_map_ \/ Known(c) = {}
                                /\ removing'[c] = removing[c]
  PROVE  TupleOK(c)'
BY DEF TupleOK, Requested, Gated, MaySendData, RequestFirst, Closed

\* Steps that touch no tuple, and none but the map, the progress of a
\* connection that does not relay and a removal that was posted.
LEMMA OtherStepsKeepTuples ==
  ASSUME TupleInv,
         UNCHANGED <<recvVars, impl_send_buffers_, out, is_connected_, answer>>,
         \A d \in Sids :
           /\ stage'[d] = "relaying" => stage[d] = "relaying"
           /\ d \in clients_map_' => /\ d \in clients_map_ \/ Known(d) = {}
                                     /\ removing'[d] = removing[d]
  PROVE  TupleInv'
<1>1. \A d \in Sids : Known(d)' = Known(d) /\ Queued(d)' = Queued(d) /\ out'[d] = out[d]
  BY DEF Known, Queued, Places, recvVars
<1>2. \A d \in Sids : TupleOK(d)'
  BY <1>1, TupleUntouched DEF TupleInv, recvVars
<1> QED
  BY <1>2 DEF TupleInv, HeadHanded

\* A push: of the request as the first tuple, of data, which is sent only if
\* the flag is set, or of tcp_disconnect, sent only if the request was.
LEMMA PushKeepsTuples ==
  ASSUME IInv, TupleInv, QueuesTypeOK',
         NEW c \in Sids, NEW type \in FrameTypes, NEW now \in BOOLEAN,
         PushTuple(c, type, now),
         UNCHANGED <<clients_map_, is_connected_, answer>>,
         \A d \in Sids \ {c} : UNCHANGED <<stage[d], removing[d]>>,
         now /\ out[c] = <<>> => type = "tcp_connect",
         now /\ type = "tcp_data" => MaySendData(c),
         type = "tcp_connect" => pushed[c] = 0,
         IF type = "tcp_disconnect" THEN removing'[c] ELSE removing'[c] = removing[c]
  PROVE  TupleInv'
<1> DEFINE t == [type |-> type, n |-> pushed[c] + 1]
           news == IF now THEN {t} ELSE {}
<1>1. QueuesTypeOK /\ TupleOK(c) /\ \A d \in Sids \ {c} : TupleOK(d)
  BY DEF IInv, TupleInv
<1>2. /\ Known(c)' \subseteq Known(c) \cup {t}
      /\ Queued(c)' \subseteq Queued(c) \cup news
      /\ Elements(out'[c]) \subseteq Elements(out[c]) \cup news
      /\ recv_buffers_'[c] # <<>>
      /\ \A d \in Sids \ {c} : /\ Known(d)' = Known(d) /\ Queued(d)' = Queued(d)
                               /\ UNCHANGED <<recv_buffers_[d], out[d]>>
      /\ \A d \in Sids : out[d] # <<>> => out'[d] # <<>> /\ out'[d][1] = out[d][1]
  BY <1>1, PushKnown
<1>3. /\ t.type = type /\ (\A u \in news : now /\ u = t)
      /\ pushed[c] = 0 => t.n = 1
      /\ MaySendData(c)' <=> MaySendData(c)
  BY DEF MaySendData
<1> HIDE DEF t, news
<1>4. /\ pushed[c] \in Nat /\ pushed'[c] = pushed[c] + 1 /\ t.n = pushed[c] + 1
      /\ \A d \in Sids \ {c} : pushed'[d] = pushed[d]
  <2>1. t.n = pushed[c] + 1
    BY DEF t
  <2>2. pushed \in [Sids -> Nat]
    BY <1>1 DEF QueuesTypeOK
  <2>3. pushed' = [pushed EXCEPT ![c] = pushed[c] + 1]
    BY DEF PushTuple
  <2> QED
    BY <2>1, <2>2, <2>3
<1>5. HeadHanded'
  BY <1>1, PushKeepsHead DEF TupleInv
<1>6. Requested(c)' /\ Gated(c)'
  <2>1. Requested(c) /\ Gated(c) /\ out'[c] \in Seq(Tuples)
    BY <1>1 DEF TupleOK, QueuesTypeOK
  <2>2. /\ out[c] = <<>> => \A u \in news : u.type = "tcp_connect"
        /\ \A u \in news : u.type = "tcp_data" => MaySendData(c)'
    BY <1>3
  <2>3. out'[c] = <<>> => answer'[c] = "no"
    BY <1>2, <2>1 DEF Requested
  <2> QED
    BY <1>2, <1>3, <2>1, <2>2, <2>3, SendStep
<1>7. RequestFirst(c)' /\ Closed(c)'
  <2>1. \A u \in Known(c) : u.n \in Nat
    BY <1>1, KnownTuples
  <2> QED
    BY <1>1, <1>2, <1>3, <1>4, <2>1 DEF TupleOK, RequestFirst, Closed
<1>8. \A d \in Sids \ {c} : TupleOK(d)'
  BY <1>1, <1>2, <1>4, TupleUntouched
<1> QED
  BY <1>5, <1>6, <1>7, <1>8 DEF TupleInv, TupleOK

LEMMA ConnectRequestKeepsTuples ==
  ASSUME IInv, TupleInv, QueuesTypeOK', NEW c \in Sids, ConnectRequest(c)
  PROVE  TupleInv'
<1>1. /\ stage' = [stage EXCEPT ![c] = "relaying"]
      /\ PushTuple(c, "tcp_connect", TRUE)
      /\ UNCHANGED <<clients_map_, removing, is_connected_, answer>>
  BY DEF ConnectRequest
<1>2. \A d \in Sids \ {c} : stage'[d] = stage[d]
  BY <1>1 DEF IInv, ClientTypeOK
<1>3. pushed[c] = 0
  BY DEF ConnectRequest, Handler, IInv, SocketInv, SocketOK, BeforeRequest
<1> QED
  BY <1>1, <1>2, <1>3, PushKeepsTuples DEF FrameTypes

\* The flag gates the send, and it is not set before the request is out.
LEMMA ReadChunkKeepsTuples ==
  ASSUME IInv, TupleInv, QueuesTypeOK', NEW c \in Sids, ReadChunk(c)
  PROVE  TupleInv'
<1> DEFINE now == recv_buffers_[c] = <<>> /\ is_connected_[c]
<1>1. /\ PushTuple(c, "tcp_data", now)
      /\ UNCHANGED <<clients_map_, stage, removing, is_connected_, answer>>
      /\ answer[c] = "setting" => ReadRaces
  BY DEF ReadChunk, clientVars
<1>2. now \in BOOLEAN /\ (now => is_connected_[c] /\ MaySendData(c))
  BY <1>1 DEF IInv, ClientTypeOK, MaySendData
<1>3. Connected(c) /\ Requested(c)
  BY DEF IInv, SocketInv, SocketOK, TupleInv, TupleOK
<1>4. ~(now /\ out[c] = <<>>)
  BY <1>2, <1>3 DEF Connected, Requested
<1> HIDE DEF now
<1> QED
  BY <1>1, <1>2, <1>4, PushKeepsTuples DEF FrameTypes

\* tcp_disconnect waits behind a request that was not handed over.
LEMMA FailureKeepsTuples ==
  ASSUME IInv, TupleInv, QueuesTypeOK', NEW c \in Sids, ReadFailed(c) \/ WriteFailed(c)
  PROVE  TupleInv'
<1> DEFINE now == recv_buffers_[c] = <<>>
<1>1. /\ stage[c] = "relaying"
      /\ PushTuple(c, "tcp_disconnect", now)
      /\ removing' = [removing EXCEPT ![c] = TRUE]
      /\ UNCHANGED <<clients_map_, stage, is_connected_, answer>>
  BY DEF ReadFailed, WriteFailed, Handler, SendDisconnect
<1>2. removing'[c] /\ \A d \in Sids \ {c} : removing'[d] = removing[d]
  BY <1>1 DEF IInv, ClientTypeOK, RelayTypeOK
<1>3. ~(now /\ out[c] = <<>>)
  BY <1>1 DEF TupleInv, TupleOK, Requested
<1>4. now \in BOOLEAN
  OBVIOUS
<1> HIDE DEF now
<1> QED
  BY <1>1, <1>2, <1>3, <1>4, PushKeepsTuples DEF FrameTypes

LEMMA RecvAnswerKeepsTuples ==
  ASSUME IInv, TupleInv, NEW c \in Sids, RecvAnswer(c)
  PROVE  TupleInv'
<1>1. /\ \E i \in DOMAIN out[c] : TRUE
      /\ \/ is_connected_' = [is_connected_ EXCEPT ![c] = TRUE]
         \/ UNCHANGED is_connected_
      /\ \E a \in {"setting", "yes"} : answer' = [answer EXCEPT ![c] = a]
      /\ answer[c] = "no"
      /\ UNCHANGED <<clients_map_, stage, removing, recvVars, implVars>>
  BY DEF RecvAnswer, WasHanded
<1>2. /\ answer \in [Sids -> {"no", "setting", "yes"}]
      /\ is_connected_ \in [Sids -> BOOLEAN]
      /\ TupleOK(c) /\ \A d \in Sids \ {c} : TupleOK(d)
  BY DEF IInv, ClientTypeOK, TupleInv
<1>3. \A d \in Sids : Known(d)' = Known(d) /\ Queued(d)' = Queued(d) /\ out'[d] = out[d]
  BY <1>1, KnownUntouched
<1>4. out[c] # <<>>
  BY <1>1
<1>5. /\ is_connected_[c] => is_connected_'[c]
      /\ \A d \in Sids \ {c} : UNCHANGED <<is_connected_[d], answer[d]>>
  BY <1>1, <1>2
<1>6. ~is_connected_[c]
  BY <1>1 DEF IInv, SocketInv, SocketOK, Connected
<1>7. TupleOK(c)'
  <2>1. MaySendData(c) => MaySendData(c)'
    BY <1>5, <1>6 DEF MaySendData
  <2> QED
    BY <1>1, <1>2, <1>3, <1>4, <1>5, <2>1
       DEF TupleOK, Requested, Gated, RequestFirst, Closed, recvVars
<1>8. \A d \in Sids \ {c} : TupleOK(d)'
  BY <1>1, <1>2, <1>3, <1>5, TupleUntouched DEF recvVars
<1> QED
  BY <1>1, <1>7, <1>8 DEF TupleInv, HeadHanded, implVars

\* The oldest tuple that waits is sent, the flag being set.
LEMMA SetConnectedKeepsTuples ==
  ASSUME IInv, TupleInv, QueuesTypeOK', NEW c \in Sids, SetConnected(c)
  PROVE  TupleInv'
<1>1. /\ answer[c] = "setting" /\ answer' = [answer EXCEPT ![c] = "yes"]
      /\ recv_buffers_[c] # <<>> => SendToMainSocket(c, Head(recv_buffers_[c]))
      /\ recv_buffers_[c] = <<>> => UNCHANGED implVars
      /\ UNCHANGED <<clients_map_, stage, removing, is_connected_, recv_buffers_, pushed>>
  BY DEF SetConnected, recvVars
<1>2. /\ QueuesTypeOK /\ Connected(c)
      /\ TupleOK(c) /\ \A d \in Sids \ {c} : TupleOK(d)
      /\ answer \in [Sids -> {"no", "setting", "yes"}]
  BY DEF IInv, ClientTypeOK, SocketInv, SocketOK, TupleInv
<1>3. is_connected_[c] /\ out[c] # <<>>
  BY <1>1, <1>2 DEF Connected, TupleOK, Requested
<1>4. MaySendData(c)'
  BY <1>1, <1>2, <1>3 DEF MaySendData
<1>5. /\ \A d \in Sids : Known(d)' \subseteq Known(d)
      /\ \A d \in Sids \ {c} : Queued(d)' = Queued(d) /\ out'[d] = out[d]
      /\ \A d \in Sids : out[d] # <<>> => out'[d] # <<>> /\ out'[d][1] = out[d][1]
  BY SetConnectedKnown
<1>6. Requested(c)' /\ Gated(c)'
  <2>1. Requested(c) /\ Gated(c) /\ out'[c] \in Seq(Tuples)
    BY <1>2 DEF TupleOK, QueuesTypeOK
  <2>2. Queued(c)' \cup Elements(out'[c]) \subseteq Known(c)
    BY <1>5 DEF Known
  <2> QED
    BY <1>1, <1>3, <1>5, <1>4, <2>1, <2>2, SendStep
<1>7. RequestFirst(c)' /\ Closed(c)'
  BY <1>1, <1>2, <1>5 DEF TupleOK, RequestFirst, Closed
<1>8. \A d \in Sids \ {c} : TupleOK(d)'
  BY <1>1, <1>2, <1>5, TupleUntouched
<1>9. HeadHanded'
  <2>1. CASE recv_buffers_[c] = <<>>
    BY <1>1, <2>1 DEF TupleInv, HeadHanded, implVars
  <2>2. CASE recv_buffers_[c] # <<>>
    <3>1. recv_buffers_[c] \in Seq(Tuples)
      BY <1>2 DEF QueuesTypeOK
    <3>2. PICK t \in Tuples : t = Head(recv_buffers_[c])
      BY <2>2, <3>1
    <3> QED
      BY <1>1, <1>2, <2>2, <3>2, SendKeepsHead DEF TupleInv
  <2> QED
    BY <2>1, <2>2
<1> QED
  BY <1>6, <1>7, <1>8, <1>9 DEF TupleInv, TupleOK

\* A completion sends the next tuple of the client whose frame is at the
\* head, so its request was handed over.
LEMMA SendCompleteKeepsTuples ==
  ASSUME IInv, TupleInv, QueuesTypeOK', SendComplete
  PROVE  TupleInv'
<1>1. QueuesTypeOK /\ SingleSend /\ \A d \in Sids : TupleOK(d)
  BY DEF IInv, TupleInv
<1>2. PICK c \in Sids : c = current_sending_user_
  BY <1>1 DEF QueuesTypeOK
<1>3. /\ finishing = "called"
      /\ UNCHANGED <<pushed, clients_map_, stage, removing, is_connected_, answer>>
      /\ \/ recv_buffers_[c] # <<>> /\ PopTuple(c, is_connected_[c])
         \/ UNCHANGED <<recv_buffers_, implVars>>
  BY <1>2 DEF SendComplete, NotifyMainSocketComplete, clientVars
<1>4. CASE UNCHANGED <<recv_buffers_, implVars>>
  BY <1>3, <1>4, OtherStepsKeepTuples DEF implVars, recvVars
<1>5. CASE recv_buffers_[c] # <<>> /\ PopTuple(c, is_connected_[c])
  <2>1. out[c] # <<>>
    <3>1. impl_send_buffers_ # <<>> /\ c = Head(impl_send_buffers_).sid
      BY <1>1, <1>2, <1>3 DEF SingleSend, QueuesTypeOK
    <3>2. impl_send_buffers_[1].sid = c
      <4>1. impl_send_buffers_ \in Seq(Frames)
        BY <1>1 DEF QueuesTypeOK
      <4>2. Head(impl_send_buffers_) = impl_send_buffers_[1]
        BY <3>1, <4>1
      <4> QED
        BY <3>1, <4>2
    <3>3. Elements(out[c]) # {}
      BY <3>1, <3>2 DEF TupleInv, HeadHanded
    <3> QED
      BY <3>3 DEF Elements
  <2>2. PICK open \in BOOLEAN : open = is_connected_[c]
    BY DEF IInv, ClientTypeOK
  <2>3. /\ \A d \in Sids : Known(d)' \subseteq Known(d)
        /\ \E t \in Known(c) :
             /\ Queued(c)' \subseteq Queued(c) \cup (IF open THEN {t} ELSE {})
             /\ Elements(out'[c]) \subseteq Elements(out[c]) \cup (IF open THEN {t} ELSE {})
        /\ \A d \in Sids \ {c} :
             Queued(d)' = Queued(d) /\ UNCHANGED <<recv_buffers_[d], out[d]>>
        /\ \A d \in Sids : out[d] # <<>> => out'[d] # <<>> /\ out'[d][1] = out[d][1]
    BY <1>1, <1>5, <2>2, PopKnown
  <2>4. PICK news : /\ Queued(c)' \subseteq Queued(c) \cup news
                    /\ Elements(out'[c]) \subseteq Elements(out[c]) \cup news
                    /\ news # {} => open
    BY <2>3
  <2>5. Requested(c)' /\ Gated(c)'
    <3>1. Requested(c) /\ Gated(c) /\ out'[c] \in Seq(Tuples)
      BY <1>1 DEF TupleOK, QueuesTypeOK
    <3>2. /\ MaySendData(c)' <=> MaySendData(c)
          /\ open => MaySendData(c)
      BY <1>3, <2>2 DEF MaySendData, SendComplete, MapFree
    <3> QED
      BY <1>3, <2>1, <2>3, <2>4, <3>1, <3>2, SendStep
  <2>6. RequestFirst(c)' /\ Closed(c)'
    BY <1>1, <1>3, <2>3 DEF TupleOK, RequestFirst, Closed
  <2>7. \A d \in Sids \ {c} : TupleOK(d)'
    BY <1>1, <1>3, <2>3, TupleUntouched
  <2>8. HeadHanded'
    BY <1>1, <1>5, PopKeepsHead DEF TupleInv
  <2> QED
    BY <2>5, <2>6, <2>7, <2>8 DEF TupleInv, TupleOK
<1> QED
  BY <1>3, <1>4, <1>5

\* The next frame is handed over: a tuple that was queued.
LEMMA SendNextKeepsTuples ==
  ASSUME IInv, TupleInv, QueuesTypeOK', SendNext
  PROVE  TupleInv'
<1>1. /\ PopFrame
      /\ UNCHANGED <<recv_buffers_, pushed, clients_map_, stage, removing, is_connected_, answer>>
  BY DEF SendNext, PopFrame, recvVars, clientVars
<1>2. QueuesTypeOK /\ SingleSend
  BY DEF IInv
<1>3. /\ \A d \in Sids : /\ Known(d)' \subseteq Known(d)
                         /\ Queued(d)' \subseteq Queued(d)
                         /\ Elements(out'[d]) \subseteq Elements(out[d]) \cup Queued(d)
      /\ \A d \in Sids : out[d] # <<>> => out'[d] # <<>> /\ out'[d][1] = out[d][1]
      /\ HeadHanded'
  BY <1>1, <1>2, PopFrameKnown
<1>4. ASSUME NEW d \in Sids PROVE TupleOK(d)'
  <2>1. /\ Requested(d) /\ Gated(d) /\ RequestFirst(d) /\ Closed(d)
        /\ out'[d] \in Seq(Tuples)
    BY DEF TupleInv, TupleOK, QueuesTypeOK
  <2>2. out'[d] = <<>> => /\ stage'[d] = "relaying" => recv_buffers_'[d] # <<>>
                          /\ answer'[d] = "no"
    BY <1>1, <1>3, <2>1 DEF Requested
  <2>3. Requested(d)' /\ Gated(d)'
    <3> DEFINE news == {}
    <3>1. \A t \in news : FALSE
      OBVIOUS
    <3> HIDE DEF news
    <3>2. /\ Queued(d)' \subseteq Queued(d) \cup news
          /\ Elements(out'[d]) \subseteq Elements(out[d]) \cup Queued(d) \cup news
          /\ out[d] # <<>> => out'[d] # <<>> /\ out'[d][1] = out[d][1]
      BY <1>3
    <3>3. MaySendData(d) => MaySendData(d)'
      BY <1>1 DEF MaySendData
    <3> QED
      BY <2>1, <2>2, <3>1, <3>2, <3>3, SendStep
  <2>4. RequestFirst(d)' /\ Closed(d)'
    BY <1>1, <1>3, <2>1 DEF RequestFirst, Closed
  <2> QED
    BY <2>3, <2>4 DEF TupleOK
<1> QED
  BY <1>3, <1>4 DEF TupleInv

\* Steps that push, send or pop nothing.
LEMMA RemainingStepsKeepTuples ==
  ASSUME IInv, TupleInv,
         \/ HostFinishes \/ AcceptFailed \/ PoolExits \/ UNCHANGED vars
         \/ \E c \in Sids :
              \/ Accept(c) \/ HeaderFailed(c) \/ PacRequest(c) \/ PacWritten(c)
              \/ StopReading(c) \/ ChunkWritten(c) \/ RemoveSelf(c)
              \/ RecvData(c) \/ RecvDisconnect(c)
  PROVE  TupleInv'
<1>1. CASE HostFinishes \/ AcceptFailed \/ PoolExits \/ UNCHANGED vars
  BY <1>1, OtherStepsKeepTuples
     DEF HostFinishes, FinishSend, AcceptFailed, PoolExits, vars, clientVars,
         recvVars, implVars
<1>2. ASSUME NEW c \in Sids, StopReading(c) \/ ChunkWritten(c) \/ RecvData(c)
      PROVE  TupleInv'
  BY <1>2, OtherStepsKeepTuples
     DEF StopReading, ChunkWritten, RecvData, clientVars, recvVars, implVars
<1>3. ASSUME NEW c \in Sids, RecvDisconnect(c) \/ RemoveSelf(c)
      PROVE  TupleInv'
  <2>1. removing \in [Sids -> BOOLEAN]
    BY DEF IInv, ClientTypeOK, RelayTypeOK
  <2>2. /\ clients_map_' = clients_map_ \ {c}
        /\ \A d \in Sids \ {c} : removing'[d] = removing[d]
        /\ UNCHANGED <<recvVars, impl_send_buffers_, out, is_connected_,
                       answer, stage>>
    BY <1>3, <2>1 DEF RecvDisconnect, RemoveSelf, RemoveClient, recvVars, implVars
  <2> QED
    BY <2>2, OtherStepsKeepTuples
<1>4. ASSUME NEW c \in Sids,
             Accept(c) \/ HeaderFailed(c) \/ PacRequest(c) \/ PacWritten(c)
      PROVE  TupleInv'
  <2>1. /\ clients_map_' \subseteq clients_map_ \cup {c}
        /\ UNCHANGED <<recvVars, impl_send_buffers_, out, is_connected_,
                       answer, removing>>
        /\ \E s \in {"heading", "closed", "pac"} : stage' = [stage EXCEPT ![c] = s]
        /\ stage[c] # "relaying"
    BY <1>4 DEF Accept, HeaderFailed, PacRequest, PacWritten, Handler,
                RemoveClient, recvVars, implVars
  <2>2. /\ Known(c) = {}
        /\ \A d \in Sids : stage'[d] = "relaying" => stage[d] = "relaying"
    BY <2>1 DEF IInv, ClientTypeOK, SocketInv, SocketOK, BeforeRequest
  <2> QED
    BY <2>1, <2>2, OtherStepsKeepTuples
<1> QED
  BY <1>1, <1>2, <1>3, <1>4

LEMMA NextKeepsTuples ==
  ASSUME IInv, TupleInv, QueuesTypeOK', [Next]_vars
  PROVE  TupleInv'
<1>1. ASSUME NEW c \in Sids, Accept(c) \/ Requesting(c) \/ Relaying(c) \/ Peer(c)
      PROVE  TupleInv'
  <2>1. CASE Accept(c) \/ Requesting(c)
    BY <2>1, ConnectRequestKeepsTuples, RemainingStepsKeepTuples DEF Requesting
  <2>2. CASE Relaying(c)
    BY <2>2, ReadChunkKeepsTuples, FailureKeepsTuples,
       RemainingStepsKeepTuples DEF Relaying
  <2>3. CASE Peer(c)
    BY <2>3, RecvAnswerKeepsTuples, SetConnectedKeepsTuples,
       RemainingStepsKeepTuples DEF Peer
  <2> QED
    BY <1>1, <2>1, <2>2, <2>3
<1> QED
  BY <1>1, SendCompleteKeepsTuples, SendNextKeepsTuples,
     RemainingStepsKeepTuples DEF Next

LEMMA InitTuples == Init => TupleInv
<1> SUFFICES ASSUME Init PROVE TupleInv
  OBVIOUS
<1>1. /\ impl_send_buffers_ = <<>>
      /\ \A c \in Sids : /\ out[c] = <<>> /\ recv_buffers_[c] = <<>>
                         /\ stage[c] = "none" /\ answer[c] = "no"
  BY DEF Init, InitRelay, InitTransport
<1>2. \A c \in Sids : Queued(c) = {} /\ Known(c) = {}
  <2>1. DOMAIN <<>> = {}
    OBVIOUS
  <2>2. Elements(<<>>) = {} /\ \A c \in Sids : Places(c) = {}
    BY <1>1, <2>1 DEF Elements, Places
  <2> QED
    BY <1>1, <2>2 DEF Known, Queued
<1> QED
  BY <1>1, <1>2 DEF TupleInv, HeadHanded, TupleOK, Requested, Gated, RequestFirst,
                      Closed, Known

\* Every tuple of a connection, waiting or handed over, keeps to the order of
\* request, answer, data and removal.
THEOREM TupleInvariance == Spec => []TupleInv
<1>1. IInv /\ IInv' /\ TupleInv /\ [Next]_vars => TupleInv'
  BY NextKeepsTuples DEF IInv
<1> QED
  BY <1>1, InitTuples, Invariance, PTL DEF Spec

\* However early the browser sends data, none of it is handed to the host
\* before the peer has answered, and the request is handed over first.
THEOREM DataWaitsForAnswerTheorem == Spec => []DataWaitsForAnswer
<1>1. ASSUME TupleInv, IInv PROVE DataWaitsForAnswer
  <2> SUFFICES ASSUME NEW c \in Sids, NEW i \in DOMAIN out[c],
                      out[c][i].type = "tcp_data"
               PROVE  is_connected_[c] /\ out[c][1].type = "tcp_connect"
    BY DEF DataWaitsForAnswer
  <2>1. Requested(c) /\ Gated(c)
    BY <1>1 DEF TupleInv, TupleOK
  <2>2. out[c] # <<>> /\ out[c][i] \in Elements(out[c])
    BY <1>1 DEF Elements, IInv, QueuesTypeOK
  <2> QED
    BY <2>1, <2>2 DEF Requested, Gated, MaySendData
<1> QED
  BY <1>1, TupleInvariance, Invariance, PTL

\* A connection whose tcp_disconnect was handed over is out of the map or its
\* posted removal is still to run.
THEOREM ClosedIsRemovedTheorem == Spec => []ClosedIsRemoved
<1>1. ASSUME TupleInv, IInv PROVE ClosedIsRemoved
  <2>1. clients_map_ \subseteq Sids
    BY <1>1 DEF IInv, ClientTypeOK
  <2> QED
    BY <1>1, <2>1 DEF ClosedIsRemoved, TupleInv, TupleOK, Closed, Known, Elements
<1> QED
  BY <1>1, TupleInvariance, Invariance, PTL
-----------------------------------------------------------------------------
(* The browser gets the peer's chunks in order.                            *)

\* A step that leaves what c receives and writes alone; c may leave the map,
\* or enter it before it is answered.
LEMMA OrderUntouched ==
  ASSUME NEW c \in Sids, InOrder(c),
         UNCHANGED <<received[c], written[c], send_buffers_[c]>>,
         stage'[c] = "relaying" /\ writes'[c] = 1 =>
           stage[c] = "relaying" /\ writes[c] = 1 /\ write_buffer_'[c] = write_buffer_[c],
         answer'[c] # "yes" => answer[c] # "yes",
         c \in clients_map_' => c \in clients_map_ \/ answer[c] # "yes"
  PROVE  InOrder(c)'
BY DEF InOrder, Consecutive

LEMMA OthersKeepOrder ==
  ASSUME OrderInv,
         UNCHANGED <<stage, answer, received, written, send_buffers_,
                     write_buffer_, writes>>,
         clients_map_' \subseteq clients_map_
  PROVE  OrderInv'
BY OrderUntouched DEF OrderInv

\* The queue and counter types the steps below rest on.
LEMMA OrderTypes ==
  ASSUME IInv
  PROVE  /\ stage \in [Sids -> {"none", "heading", "pac", "relaying", "closed"}]
         /\ answer \in [Sids -> {"no", "setting", "yes"}]
         /\ send_buffers_ \in [Sids -> Seq(Nat)] /\ write_buffer_ \in [Sids -> Nat]
         /\ writes \in [Sids -> Nat] /\ received \in [Sids -> Nat]
         /\ written \in [Sids -> Seq(Nat)]
         /\ \A c \in Sids : /\ BeforeRequest(c) /\ BeforeAnswer(c) /\ Connected(c)
                            /\ Writing(c)
BY DEF IInv, SocketInv, ClientTypeOK, RelayTypeOK, SocketOK

\* A connection that does not relay yet: only the state of its header changes.
LEMMA RequestingKeepsOrder ==
  ASSUME OrderInv, IInv, NEW c \in Sids, Accept(c) \/ Requesting(c)
  PROVE  OrderInv'
<1>1. /\ clients_map_' \subseteq clients_map_ \cup {c}
      /\ UNCHANGED <<answer, received, written, send_buffers_>>
      /\ \/ /\ \E s \in {"heading", "pac", "closed"} : stage' = [stage EXCEPT ![c] = s]
            /\ \A d \in Sids \ {c} : writes'[d] = writes[d] /\ write_buffer_'[d] = write_buffer_[d]
         \/ /\ stage[c] = "heading" /\ stage' = [stage EXCEPT ![c] = "relaying"]
            /\ UNCHANGED <<writes, write_buffer_>>
      /\ stage[c] # "relaying"
  <2>1. /\ writes \in [Sids -> Nat] /\ write_buffer_ \in [Sids -> Nat]
    BY OrderTypes
  <2> QED
    BY <2>1 DEF Accept, Requesting, HeaderFailed, PacRequest, PacWritten,
                ConnectRequest, RemoveClient, Handler, DoWrite, writeVars
<1>2. /\ BeforeRequest(c) /\ InOrder(c) /\ \A d \in Sids \ {c} : InOrder(d)
      /\ stage \in [Sids -> {"none", "heading", "pac", "relaying", "closed"}]
  BY OrderTypes DEF OrderInv
<1>3. /\ \A d \in Sids \ {c} : stage'[d] = stage[d] /\ UNCHANGED <<writes[d], write_buffer_[d]>>
      /\ stage'[c] = "relaying" => writes'[c] = 0
      /\ answer[c] # "yes"
  BY <1>1, <1>2 DEF BeforeRequest
<1>4. InOrder(c)'
  BY <1>1, <1>2, <1>3, OrderUntouched
<1>5. \A d \in Sids \ {c} : InOrder(d)'
  BY <1>1, <1>2, <1>3, OrderUntouched
<1> QED
  BY <1>4, <1>5 DEF OrderInv

\* A sequence of chunks that grows.
LEMMA AppendSeq ==
  ASSUME NEW s \in Seq(Nat), NEW x \in Nat
  PROVE  /\ Len(s) \in Nat /\ DOMAIN s = 1 .. Len(s)
         /\ s # <<>> => 1 \in 1 .. Len(s)
         /\ s = <<>> => Len(s) = 0
         /\ Len(Append(s, x)) = Len(s) + 1
         /\ DOMAIN Append(s, x) = 1 .. Len(s) + 1
         /\ Append(s, x)[Len(s) + 1] = x
         /\ \A j \in 1 .. Len(s) : Append(s, x)[j] = s[j]
OBVIOUS

\* The next chunk is queued behind the others.
LEMMA AddChunkKeepsOrder ==
  ASSUME OrderInv, IInv, NEW c \in Sids, NEW chunk \in Nat, NEW b \in {0, 1},
         ClientAddSendBuffer(c, chunk, is_connected_[c]),
         stage[c] = "relaying", answer'[c] = "yes",
         \A i \in DOMAIN written[c] : written[c][i] = i - b,
         \A j \in DOMAIN send_buffers_[c] : send_buffers_[c][j] = Len(written[c]) + j - b,
         chunk = Len(written[c]) + Len(send_buffers_[c]) + 1 - b,
         received'[c] = chunk,
         UNCHANGED <<clients_map_, stage, written>>,
         \A d \in Sids \ {c} : UNCHANGED <<answer[d], received[d]>>
  PROVE  OrderInv'
<1>1. /\ send_buffers_' = [send_buffers_ EXCEPT ![c] = Append(@, chunk)]
      /\ IF send_buffers_[c] = <<>> /\ is_connected_[c]
           THEN /\ write_buffer_' = [write_buffer_ EXCEPT ![c] = chunk]
                /\ writes' = [writes EXCEPT ![c] = @ + 1]
           ELSE UNCHANGED <<write_buffer_, writes>>
  BY DEF ClientAddSendBuffer, DoWrite
<1>2. /\ send_buffers_'[c] = Append(send_buffers_[c], chunk)
      /\ \A d \in Sids \ {c} : UNCHANGED <<send_buffers_[d], write_buffer_[d], writes[d]>>
      /\ IF send_buffers_[c] = <<>> /\ is_connected_[c]
           THEN write_buffer_'[c] = chunk
           ELSE UNCHANGED <<write_buffer_[c], writes[c]>>
  BY <1>1, OrderTypes
<1>3. /\ InOrder(c) /\ Writing(c)
      /\ send_buffers_[c] \in Seq(Nat) /\ Len(written[c]) \in Nat
  BY OrderTypes DEF OrderInv
<1>4. /\ Len(send_buffers_'[c]) = Len(send_buffers_[c]) + 1
      /\ DOMAIN send_buffers_'[c] = 1 .. Len(send_buffers_[c]) + 1
      /\ send_buffers_'[c][Len(send_buffers_[c]) + 1] = chunk
      /\ \A j \in 1 .. Len(send_buffers_[c]) :
           send_buffers_'[c][j] = send_buffers_[c][j]
      /\ DOMAIN send_buffers_[c] = 1 .. Len(send_buffers_[c])
      /\ Len(send_buffers_[c]) \in Nat
      /\ send_buffers_[c] # <<>> => 1 \in 1 .. Len(send_buffers_[c])
      /\ send_buffers_[c] = <<>> => Len(send_buffers_[c]) = 0
  <2>1. PICK q \in Seq(Nat) : q = send_buffers_[c]
    BY <1>3
  <2>2. PICK r : r = Append(q, chunk) /\ r = send_buffers_'[c]
    BY <1>2, <2>1
  <2>3. /\ Len(q) \in Nat /\ DOMAIN q = 1 .. Len(q)
        /\ q # <<>> => 1 \in 1 .. Len(q)
        /\ q = <<>> => Len(q) = 0
        /\ Len(Append(q, chunk)) = Len(q) + 1
        /\ DOMAIN Append(q, chunk) = 1 .. Len(q) + 1
        /\ Append(q, chunk)[Len(q) + 1] = chunk
        /\ \A j \in 1 .. Len(q) : Append(q, chunk)[j] = q[j]
    BY <2>1, AppendSeq, Zenon
  <2> QED
    BY <2>1, <2>2, <2>3
<1>a. \A m, k \in Nat : m + k + 1 - b = m + (k + 1) - b
  OBVIOUS
<1>5. ASSUME NEW j \in DOMAIN send_buffers_'[c]
      PROVE  send_buffers_'[c][j] = Len(written[c]) + j - b
  <2>1. CASE j = Len(send_buffers_[c]) + 1
    BY <1>3, <1>4, <1>a, <2>1
  <2>2. CASE j # Len(send_buffers_[c]) + 1
    BY <1>4, <2>2
  <2> QED
    BY <2>1, <2>2
<1>6. writes'[c] = 1 => write_buffer_'[c] = send_buffers_'[c][1]
  <2>1. CASE send_buffers_[c] = <<>>
    BY <1>2, <1>3, <1>4, <2>1 DEF Writing
  <2>2. CASE send_buffers_[c] # <<>>
    BY <1>2, <1>3, <1>4, <2>2 DEF InOrder
  <2> QED
    BY <2>1, <2>2
<1>7. received'[c] = Len(written[c]) + Len(send_buffers_'[c]) - b
  BY <1>3, <1>4, <1>a
<1>8. InOrder(c)'
  BY <1>5, <1>6, <1>7 DEF InOrder, Consecutive
<1>9. \A d \in Sids \ {c} : InOrder(d)'
  BY <1>2, OrderUntouched DEF OrderInv
<1> QED
  BY <1>8, <1>9 DEF OrderInv

LEMMA RecvDataKeepsOrder ==
  ASSUME OrderInv, IInv, NEW c \in Sids, RecvData(c)
  PROVE  OrderInv'
<1>1. /\ answer[c] = "yes"
      /\ received' = [received EXCEPT ![c] = received[c] + 1]
      /\ UNCHANGED <<clients_map_, stage, answer, written>>
      /\ c \in clients_map_ => ClientAddSendBuffer(c, received[c] + 1, is_connected_[c])
      /\ c \notin clients_map_ => UNCHANGED <<send_buffers_, write_buffer_, writes>>
  BY DEF RecvData, clientVars
<1>2. /\ received'[c] = received[c] + 1 /\ received[c] \in Nat
      /\ \A d \in Sids \ {c} : received'[d] = received[d]
  BY <1>1, OrderTypes
<1>3. /\ InOrder(c) /\ Len(written[c]) \in Nat /\ Len(send_buffers_[c]) \in Nat
      /\ stage[c] = "relaying"
  BY <1>1, OrderTypes, AnsweredIsRelaying DEF OrderInv
<1>4. PICK b \in {0, 1} : Consecutive(c, b)
  BY <1>3 DEF InOrder
<1>5. CASE c \notin clients_map_
  <2>1. Consecutive(c, b)'
    BY <1>1, <1>4, <1>5 DEF Consecutive
  <2>2. InOrder(c)'
    BY <1>1, <1>3, <1>5, <2>1 DEF InOrder
  <2>3. \A d \in Sids \ {c} : InOrder(d)'
    BY <1>1, <1>2, <1>5, OrderUntouched DEF OrderInv
  <2> QED
    BY <2>2, <2>3 DEF OrderInv
<1>6. CASE c \in clients_map_
  <2>1. /\ \A i \in DOMAIN written[c] : written[c][i] = i - b
        /\ \A j \in DOMAIN send_buffers_[c] :
             send_buffers_[c][j] = Len(written[c]) + j - b
        /\ received[c] + 1 = Len(written[c]) + Len(send_buffers_[c]) + 1 - b
    <3>1. \A m, k \in Nat : m + k - b + 1 = m + k + 1 - b
      OBVIOUS
    <3> QED
      BY <1>3, <1>4, <1>6, <3>1 DEF Consecutive
  <2>2. PICK chunk \in Nat : chunk = received[c] + 1
    BY <1>2
  <2> QED
    BY <1>1, <1>2, <1>3, <1>6, <2>1, <2>2, AddChunkKeepsOrder
<1> QED
  BY <1>5, <1>6

\* The payload of the answer, if any, is written before the data.
LEMMA SetConnectedKeepsOrder ==
  ASSUME OrderInv, IInv, NEW c \in Sids, SetConnected(c)
  PROVE  OrderInv'
<1>1. /\ answer[c] = "setting" /\ answer' = [answer EXCEPT ![c] = "yes"]
      /\ UNCHANGED <<clients_map_, stage, written, received>>
      /\ \/ ClientAddSendBuffer(c, 0, is_connected_[c])
         \/ UNCHANGED <<send_buffers_, write_buffer_, writes>>
  BY DEF SetConnected, Established, FirstChunk
<1>2. answer'[c] = "yes" /\ \A d \in Sids \ {c} : answer'[d] = answer[d]
  BY <1>1, OrderTypes
<1>3. /\ InOrder(c) /\ written[c] = <<>> /\ received[c] = 0
      /\ send_buffers_[c] = <<>> /\ stage[c] = "relaying"
  BY <1>1, OrderTypes, AnsweredIsRelaying DEF OrderInv, InOrder, BeforeAnswer
<1>4. CASE UNCHANGED <<send_buffers_, write_buffer_, writes>>
  <2>1. InOrder(c)'
    BY <1>1, <1>2, <1>3, <1>4 DEF InOrder, Consecutive
  <2>2. \A d \in Sids \ {c} : InOrder(d)'
    BY <1>1, <1>2, <1>4, OrderUntouched DEF OrderInv
  <2> QED
    BY <2>1, <2>2 DEF OrderInv
<1>5. CASE ClientAddSendBuffer(c, 0, is_connected_[c])
  <2>1. /\ DOMAIN written[c] = {} /\ Len(written[c]) = 0
        /\ DOMAIN send_buffers_[c] = {} /\ Len(send_buffers_[c]) = 0
    BY <1>3
  <2>2. PICK b \in {0, 1} : b = 1
    OBVIOUS
  <2>3. PICK chunk \in Nat : chunk = 0
    OBVIOUS
  <2>4. chunk = Len(written[c]) + Len(send_buffers_[c]) + 1 - b
    BY <2>1, <2>2, <2>3
  <2> QED
    BY <1>1, <1>2, <1>3, <1>5, <2>1, <2>3, <2>4, AddChunkKeepsOrder
<1> QED
  BY <1>1, <1>4, <1>5

\* The write callback: the front was written, and the next chunk is its
\* successor.
LEMMA ChunkWrittenKeepsOrder ==
  ASSUME OrderInv, IInv, NEW c \in Sids, ChunkWritten(c)
  PROVE  OrderInv'
<1> DEFINE q == send_buffers_[c]
           w == written[c]
           v == Append(w, write_buffer_[c])
<1>1. /\ stage[c] = "relaying" /\ writes[c] > 0
      /\ written' = [written EXCEPT ![c] = Append(@, write_buffer_[c])]
      /\ send_buffers_' = [send_buffers_ EXCEPT ![c] = Tail(q)]
      /\ IF Tail(q) # <<>>
           THEN /\ write_buffer_' = [write_buffer_ EXCEPT ![c] = Head(Tail(q))]
                /\ UNCHANGED writes
           ELSE /\ writes' = [writes EXCEPT ![c] = @ - 1]
                /\ UNCHANGED write_buffer_
      /\ UNCHANGED <<clients_map_, stage, answer, received>>
  BY DEF ChunkWritten, Handler, PopAndWriteNext, clientVars
<1>2. /\ q \in Seq(Nat) /\ w \in Seq(Nat) /\ InOrder(c)
      /\ writes[c] = 1 /\ q # <<>> /\ answer[c] = "yes"
      /\ write_buffer_[c] \in Nat
  BY <1>1, OrderTypes DEF OrderInv, Writing, BeforeAnswer
<1>3. /\ send_buffers_'[c] = Tail(q)
      /\ written'[c] = v
      /\ Tail(q) # <<>> => write_buffer_'[c] = Head(Tail(q))
      /\ Tail(q) = <<>> => writes'[c] = 0
      /\ \A d \in Sids \ {c} :
           UNCHANGED <<written[d], send_buffers_[d], write_buffer_[d], writes[d]>>
  BY <1>1, <1>2, OrderTypes
<1>4. /\ Len(q) \in Nat /\ Len(q) >= 1 /\ DOMAIN q = 1 .. Len(q)
      /\ Len(Tail(q)) = Len(q) - 1 /\ DOMAIN Tail(q) = 1 .. Len(q) - 1
      /\ \A j \in 1 .. Len(q) - 1 : Tail(q)[j] = q[j + 1] /\ j + 1 \in 1 .. Len(q)
      /\ Tail(q) # <<>> => Head(Tail(q)) = Tail(q)[1]
  BY <1>2
<1>5. PICK b \in {0, 1} : Consecutive(c, b)
  BY <1>2 DEF InOrder
<1>6. write_buffer_[c] = Len(w) + 1 - b
  <2>1. write_buffer_[c] = q[1] /\ 1 \in DOMAIN q
    BY <1>1, <1>2, <1>4 DEF InOrder
  <2> QED
    BY <1>5, <2>1 DEF Consecutive
<1>7. /\ Len(v) = Len(w) + 1 /\ Len(w) \in Nat /\ DOMAIN w = 1 .. Len(w)
      /\ DOMAIN v = 1 .. Len(w) + 1
      /\ v[Len(w) + 1] = write_buffer_[c]
      /\ \A i \in 1 .. Len(w) : v[i] = w[i]
  BY <1>2
<1> HIDE DEF v
<1>8. Consecutive(c, b)'
  <2>1. ASSUME NEW i \in DOMAIN v PROVE v[i] = i - b
    <3>1. CASE i = Len(w) + 1
      BY <1>6, <1>7, <3>1
    <3>2. CASE i # Len(w) + 1
      BY <1>5, <1>7, <3>2 DEF Consecutive
    <3> QED
      BY <3>1, <3>2
  <2>2. ASSUME NEW j \in DOMAIN Tail(q) PROVE Tail(q)[j] = Len(v) + j - b
    <3>1. Tail(q)[j] = q[j + 1] /\ j + 1 \in DOMAIN q /\ j \in Nat
      BY <1>4
    <3>2. q[j + 1] = Len(w) + (j + 1) - b
      BY <1>5, <3>1 DEF Consecutive
    <3>3. \A m, k \in Nat : m + (k + 1) - b = (m + 1) + k - b
      OBVIOUS
    <3> QED
      BY <1>7, <3>1, <3>2, <3>3
  <2>3. c \in clients_map_ => received[c] = Len(v) + Len(Tail(q)) - b
    <3>1. \A m, k \in Nat : m + k - b = (m + 1) + (k - 1) - b
      OBVIOUS
    <3> HIDE DEF q, w
    <3> QED
      BY <1>4, <1>5, <1>7, <3>1 DEF Consecutive, q, w
  <2> HIDE DEF q, w
  <2> QED
    BY <1>1, <1>2, <1>3, <2>1, <2>2, <2>3 DEF Consecutive
<1>9. InOrder(c)'
  <2>1. writes'[c] = 1 => write_buffer_'[c] = send_buffers_'[c][1]
    BY <1>3, <1>4
  <2> HIDE DEF q, w
  <2> QED
    BY <1>1, <1>2, <1>8, <2>1 DEF InOrder
<1>10. \A d \in Sids \ {c} : InOrder(d)'
  BY <1>1, <1>3, OrderUntouched DEF OrderInv
<1> QED
  BY <1>9, <1>10 DEF OrderInv

LEMMA NextKeepsOrder ==
  ASSUME OrderInv, IInv, [Next]_vars
  PROVE  OrderInv'
<1>1. CASE HostFinishes \/ SendComplete \/ SendNext \/ AcceptFailed \/ PoolExits
           \/ UNCHANGED vars
  BY <1>1, OthersKeepOrder
     DEF HostFinishes, SendComplete, SendNext, AcceptFailed, PoolExits, vars,
         clientVars, writeVars
<1>2. ASSUME NEW c \in Sids, Peer(c) PROVE OrderInv'
  <2>1. CASE RecvAnswer(c)
    <3>1. /\ \E a \in {"setting", "yes"} : answer' = [answer EXCEPT ![c] = a]
          /\ answer[c] # "yes"
          /\ UNCHANGED <<clients_map_, stage, writeVars, received>>
      BY <2>1 DEF RecvAnswer
    <3>2. \A d \in Sids : answer'[d] # "yes" => answer[d] # "yes"
      BY <3>1, OrderTypes
    <3> QED
      BY <3>1, <3>2, OrderUntouched DEF OrderInv, writeVars
  <2>2. CASE RecvDisconnect(c)
    BY <2>2, OthersKeepOrder DEF RecvDisconnect, RemoveClient, writeVars
  <2> QED
    BY <1>2, <2>1, <2>2, SetConnectedKeepsOrder, RecvDataKeepsOrder DEF Peer
<1>3. ASSUME NEW c \in Sids, Relaying(c) PROVE OrderInv'
  <2>1. CASE ReadChunk(c) \/ StopReading(c) \/ ReadFailed(c)
    BY <2>1, OthersKeepOrder
       DEF ReadChunk, StopReading, ReadFailed, clientVars, writeVars
  <2>2. CASE WriteFailed(c)
    <3>1. /\ writes' = [writes EXCEPT ![c] = @ - 1] /\ writes[c] > 0
          /\ UNCHANGED <<clients_map_, stage, answer, send_buffers_,
                         write_buffer_, written, received>>
      BY <2>2 DEF WriteFailed
    <3>2. writes[c] = 1
      BY <3>1, OrderTypes DEF Writing
    <3>3. \A d \in Sids : writes'[d] = 1 => writes[d] = 1
      BY <3>1, <3>2, OrderTypes
    <3> QED
      BY <3>1, <3>3, OrderUntouched DEF OrderInv
  <2>3. CASE RemoveSelf(c)
    BY <2>3, OthersKeepOrder DEF RemoveSelf, RemoveClient, writeVars
  <2> QED
    BY <1>3, <2>1, <2>2, <2>3, ChunkWrittenKeepsOrder DEF Relaying
<1> QED
  BY <1>1, <1>2, <1>3, RequestingKeepsOrder DEF Next

LEMMA InitOrder == Init => OrderInv
<1> SUFFICES ASSUME Init, NEW c \in Sids PROVE InOrder(c)
  BY DEF OrderInv
<1>1. /\ written[c] = <<>> /\ send_buffers_[c] = <<>> /\ received[c] = 0
      /\ stage[c] = "none"
  BY DEF Init, InitRelay
<1>2. /\ DOMAIN written[c] = {} /\ Len(written[c]) = 0
      /\ DOMAIN send_buffers_[c] = {} /\ Len(send_buffers_[c]) = 0
  BY <1>1
<1>3. Consecutive(c, 0)
  BY <1>1, <1>2 DEF Consecutive
<1> QED
  BY <1>1, <1>3 DEF InOrder

\* What the socket of a browser is written is the payload of the answer, if
\* it has one, and then the peer's chunks as recv() was called: none twice,
\* none skipped, whatever meets recv() inside set_connected().
THEOREM WrittenInOrderTheorem == Spec => []WrittenInOrder
<1>1. OrderInv /\ IInv /\ [Next]_vars => OrderInv'
  BY NextKeepsOrder
<1>2. ASSUME OrderInv, IInv PROVE WrittenInOrder
  <2> SUFFICES ASSUME NEW c \in Sids
               PROVE  LET w    == written[c]
                          base == IF w # <<>> /\ w[1] = FirstChunk THEN 1 ELSE 0
                      IN  \A i \in DOMAIN w : w[i] = i - base
    BY DEF WrittenInOrder
  <2>1. PICK b \in {0, 1} : \A i \in DOMAIN written[c] : written[c][i] = i - b
    BY <1>2 DEF OrderInv, InOrder, Consecutive
  <2>2. CASE written[c] = <<>>
    BY <2>2
  <2>3. CASE written[c] # <<>>
    <3>1. 1 \in DOMAIN written[c]
      BY <1>2, <2>3, OrderTypes
    <3>2. written[c][1] = 1 - b
      BY <2>1, <3>1
    <3>3. b = IF written[c][1] = FirstChunk THEN 1 ELSE 0
      BY <3>2 DEF FirstChunk
    <3> QED
      BY <2>1, <2>3, <3>3
  <2> QED
    BY <2>2, <2>3
<1> QED
  BY <1>1, <1>2, InitOrder, Invariance, PTL DEF Spec
-----------------------------------------------------------------------------
(* One tuple of a client at a time, when nothing meets set_connected().    *)

\* A step that does not touch the tuples of d, nor its answer.
LEMMA FlowUntouched ==
  ASSUME NEW d \in Sids, FlowOK(d),
         InFlight(d) <=> InFlight(d)',
         ~InFlight(d) => out'[d] = out[d],
         UNCHANGED <<recv_buffers_[d], pushed[d], answer[d]>>,
         d \in clients_map_' => d \in clients_map_ \/ recv_buffers_[d] = <<>>
  PROVE  FlowOK(d)'
BY DEF FlowOK, Served, Held, Settled

\* Steps that touch no queue and no answer.
LEMMA OtherStepsKeepFlow ==
  ASSUME FlowInv, UNCHANGED <<recvVars, implVars, finishing, answer, corrupted>>,
         \A d \in Sids :
           d \in clients_map_' => d \in clients_map_ \/ recv_buffers_[d] = <<>>
  PROVE  FlowInv'
<1>1. TransportInv' /\ \A d \in Sids : InFlight(d) <=> InFlight(d)'
  BY TransportUntouched DEF FlowInv
<1>2. \A d \in Sids : UNCHANGED <<recv_buffers_[d], pushed[d], answer[d], out[d]>>
  BY DEF recvVars, implVars
<1>3. \A d \in Sids : FlowOK(d)'
  BY <1>1, <1>2, FlowUntouched DEF FlowInv
<1> QED
  BY <1>1, <1>3 DEF FlowInv

\* A push outside set_connected() that is sent only if it is alone, and waits
\* alone only while the peer has not answered.
LEMMA PushKeepsFlow ==
  ASSUME FlowInv, NEW c \in Sids, NEW type \in FrameTypes, NEW now \in BOOLEAN,
         PushTuple(c, type, now),
         UNCHANGED <<finishing, clients_map_, answer, corrupted>>,
         answer[c] # "setting",
         now => recv_buffers_[c] = <<>>,
         c \in clients_map_ /\ answer[c] = "yes" /\ recv_buffers_[c] = <<>> => now
  PROVE  FlowInv'
<1>1. /\ TransportInv /\ QueuesTypeOK /\ FlowOK(c) /\ HandedInOrder
      /\ \A d \in Sids \ {c} : FlowOK(d)
  BY DEF FlowInv, TransportInv
<1>2. /\ recv_buffers_'[c] # <<>>
      /\ pushed'[c] = pushed[c] + 1 /\ pushed[c] \in Nat
      /\ \A d \in Sids \ {c} : UNCHANGED <<recv_buffers_[d], pushed[d], out[d]>>
  BY <1>1, PushKnown
<1>3. /\ Len(recv_buffers_'[c]) = Len(recv_buffers_[c]) + 1
      /\ Len(recv_buffers_[c]) \in Nat
      /\ recv_buffers_[c] = <<>> => Len(recv_buffers_[c]) = 0
  BY <1>1, PushEffect DEF QueuesTypeOK
<1>4. CASE now
  <2>1. PushTuple(c, type, TRUE) /\ recv_buffers_[c] = <<>>
    BY <1>4, Zenon
  <2>2. /\ TransportInv' /\ InFlight(c)'
        /\ \A d \in Sids \ {c} : InFlight(d) <=> InFlight(d)'
    BY <1>1, <2>1, PushAlone
  <2>3. FlowOK(c)'
    BY <2>2 DEF FlowOK, Served, Held, Settled
  <2>4. \A d \in Sids \ {c} : FlowOK(d)'
    BY <1>1, <1>2, <2>2, FlowUntouched
  <2> QED
    BY <2>2, <2>3, <2>4 DEF FlowInv
<1>5. CASE ~now
  <2>1. PushTuple(c, type, FALSE)
    BY <1>5, Zenon
  <2>2. TransportInv' /\ \A d \in Sids : InFlight(d) <=> InFlight(d)'
    BY <1>1, <2>1, PushWaits
  <2>3. UNCHANGED out
    BY <2>1 DEF PushTuple, implVars
  <2>4. Served(c)' /\ Settled(c)'
    BY <1>1, <1>5, <2>2 DEF FlowOK, Served, Settled
  <2>5. Held(c)'
    <3> SUFFICES ASSUME c \in clients_map_, ~InFlight(c)
                 PROVE  Len(out[c]) = pushed'[c] - Len(recv_buffers_'[c])
      BY <2>2, <2>3 DEF Held
    <3>1. Len(out[c]) = pushed[c] - Len(recv_buffers_[c])
      <4>1. CASE recv_buffers_[c] = <<>>
        BY <1>1, <1>2, <1>3, <4>1 DEF HandedInOrder
      <4>2. CASE recv_buffers_[c] # <<>>
        BY <1>1, <4>2 DEF FlowOK, Held
      <4> QED
        BY <4>1, <4>2
    <3>2. \A p, l \in Nat : (p + 1) - (l + 1) = p - l
      OBVIOUS
    <3> QED
      BY <1>2, <1>3, <3>1, <3>2
  <2>6. \A d \in Sids \ {c} : FlowOK(d)'
    BY <1>1, <1>2, <2>2, FlowUntouched
  <2> QED
    BY <2>2, <2>4, <2>5, <2>6 DEF FlowInv, FlowOK
<1> QED
  BY <1>4, <1>5

LEMMA ConnectRequestKeepsFlow ==
  ASSUME FlowInv, IInv, NEW c \in Sids, ConnectRequest(c)
  PROVE  FlowInv'
<1>1. /\ stage[c] = "heading" /\ PushTuple(c, "tcp_connect", TRUE)
      /\ UNCHANGED <<finishing, clients_map_, answer, corrupted>>
  BY DEF ConnectRequest, Handler, poolVars
<1>2. recv_buffers_[c] = <<>> /\ answer[c] = "no"
  BY <1>1 DEF IInv, SocketInv, SocketOK, BeforeRequest
<1> QED
  BY <1>1, <1>2, PushKeepsFlow DEF FrameTypes

\* A read callback does not run inside set_connected().
LEMMA ReadChunkKeepsFlow ==
  ASSUME Quiet, FlowInv, IInv, NEW c \in Sids, ReadChunk(c)
  PROVE  FlowInv'
<1> DEFINE now == recv_buffers_[c] = <<>> /\ is_connected_[c]
<1>1. /\ PushTuple(c, "tcp_data", now) /\ answer[c] # "setting"
      /\ UNCHANGED <<finishing, clients_map_, answer, corrupted>>
  BY DEF ReadChunk, Quiet, clientVars, poolVars
<1>2. Connected(c) /\ is_connected_[c] \in BOOLEAN
  BY DEF IInv, ClientTypeOK, SocketInv, SocketOK
<1>3. /\ now \in BOOLEAN /\ (now => recv_buffers_[c] = <<>>)
      /\ c \in clients_map_ /\ answer[c] = "yes" /\ recv_buffers_[c] = <<>> => now
  BY <1>2 DEF Connected
<1> HIDE DEF now
<1> QED
  BY <1>1, <1>3, PushKeepsFlow DEF FrameTypes

\* Neither does a write callback: there is nothing to write before it.
LEMMA FailureKeepsFlow ==
  ASSUME Quiet, FlowInv, IInv, NEW c \in Sids, ReadFailed(c) \/ WriteFailed(c)
  PROVE  FlowInv'
<1> DEFINE now == recv_buffers_[c] = <<>>
<1>1. /\ PushTuple(c, "tcp_disconnect", now)
      /\ UNCHANGED <<finishing, clients_map_, answer, corrupted>>
      /\ answer[c] # "setting" \/ (stage[c] = "relaying" /\ writes[c] > 0)
  BY DEF ReadFailed, WriteFailed, Handler, SendDisconnect, Quiet, poolVars
<1>2. stage[c] = "relaying" /\ writes[c] > 0 => answer[c] = "yes"
  <2>1. BeforeAnswer(c) /\ Writing(c) /\ writes[c] \in Nat
    BY DEF IInv, ClientTypeOK, RelayTypeOK, SocketInv, SocketOK
  <2> QED
    BY <2>1 DEF BeforeAnswer, Writing
<1>3. /\ now \in BOOLEAN /\ (now => recv_buffers_[c] = <<>>)
      /\ c \in clients_map_ /\ answer[c] = "yes" /\ recv_buffers_[c] = <<>> => now
  OBVIOUS
<1> HIDE DEF now
<1> QED
  BY <1>1, <1>2, <1>3, PushKeepsFlow DEF FrameTypes

\* When the answer comes the request's send is completed, no tcp_disconnect
\* was sent before it, and data is not sent yet: nothing is in flight.
LEMMA RecvAnswerKeepsFlow ==
  ASSUME Quiet, FlowInv, IInv, TupleInv, NEW c \in Sids, RecvAnswer(c)
  PROVE  FlowInv'
<1>1. /\ answer[c] = "no"
      /\ ~Sending(c, "tcp_connect")
      /\ c \in clients_map_ => ~Sending(c, "tcp_disconnect")
      /\ c \in clients_map_ => answer' = [answer EXCEPT ![c] = "setting"]
      /\ c \notin clients_map_ => answer' = [answer EXCEPT ![c] = "yes"]
      /\ UNCHANGED <<clients_map_, recvVars, implVars, finishing, corrupted>>
  BY DEF RecvAnswer, Quiet, poolVars
<1>2. /\ TransportInv /\ QueuesTypeOK /\ Gated(c) /\ Connected(c)
      /\ \A d \in Sids \ {c} : FlowOK(d)
      /\ answer \in [Sids -> {"no", "setting", "yes"}]
  BY DEF FlowInv, IInv, ClientTypeOK, SocketInv, SocketOK, TupleInv, TupleOK
<1>3. c \in clients_map_ => ~InFlight(c)
  <2> SUFFICES ASSUME c \in clients_map_, NEW i \in Live,
                      impl_send_buffers_[i].sid = c
               PROVE  FALSE
    BY DEF InFlight
  <2>1. /\ i \in DOMAIN impl_send_buffers_
        /\ impl_send_buffers_[i].tuple \in Tuples
    BY <1>2, LiveFrames
  <2>2. impl_send_buffers_[i].tuple.type \in FrameTypes
    BY <2>1 DEF Tuples
  <2>3. impl_send_buffers_[i].tuple.type = "tcp_data"
    BY <1>1, <2>2 DEF FrameTypes, Sending
  <2>4. impl_send_buffers_[i].tuple \in Queued(c)
    BY <2>1 DEF Queued, Places
  <2> QED
    BY <1>1, <1>2, <2>3, <2>4 DEF Gated, MaySendData, Connected
<1>4. TransportInv' /\ \A d \in Sids : InFlight(d) <=> InFlight(d)'
  BY <1>1, <1>2, TransportUntouched
<1>5. /\ answer'[c] = IF c \in clients_map_ THEN "setting" ELSE "yes"
      /\ \A d \in Sids \ {c} : answer'[d] = answer[d]
      /\ \A d \in Sids : UNCHANGED <<recv_buffers_[d], pushed[d], out[d]>>
  BY <1>1, <1>2 DEF recvVars, implVars
<1>6. FlowOK(c)'
  <2>1. Held(c)
    BY DEF FlowInv, FlowOK
  <2> QED
    BY <1>1, <1>3, <1>4, <1>5, <2>1 DEF FlowOK, Served, Held, Settled
<1>7. \A d \in Sids \ {c} : FlowOK(d)'
  BY <1>1, <1>2, <1>4, <1>5, FlowUntouched
<1> QED
  BY <1>1, <1>4, <1>6, <1>7 DEF FlowInv

\* set_connected() sends the oldest tuple that waits, if there is one.
LEMMA SetConnectedKeepsFlow ==
  ASSUME FlowInv, IInv, NEW c \in Sids, SetConnected(c)
  PROVE  FlowInv'
<1>1. /\ answer[c] = "setting" /\ answer' = [answer EXCEPT ![c] = "yes"]
      /\ recv_buffers_[c] # <<>> => SendToMainSocket(c, Head(recv_buffers_[c]))
      /\ recv_buffers_[c] = <<>> => UNCHANGED implVars
      /\ UNCHANGED <<clients_map_, recvVars, finishing, corrupted>>
  BY DEF SetConnected, poolVars
<1>2. /\ TransportInv /\ QueuesTypeOK /\ FlowOK(c) /\ Connected(c)
      /\ \A d \in Sids \ {c} : FlowOK(d)
      /\ answer \in [Sids -> {"no", "setting", "yes"}]
  BY DEF FlowInv, IInv, ClientTypeOK, SocketInv, SocketOK
<1>3. /\ answer'[c] = "yes" /\ \A d \in Sids \ {c} : answer'[d] = answer[d]
      /\ \A d \in Sids : UNCHANGED <<recv_buffers_[d], pushed[d]>>
      /\ c \in clients_map_ /\ ~InFlight(c)
      /\ \A d \in Sids \ {c} : out'[d] = out[d]
  BY <1>1, <1>2, SetConnectedKnown DEF FlowOK, Settled, Connected, recvVars
<1>4. CASE recv_buffers_[c] = <<>>
  <2>1. TransportInv' /\ \A d \in Sids : InFlight(d) <=> InFlight(d)'
    BY <1>1, <1>2, <1>4, TransportUntouched
  <2>2. FlowOK(c)'
    BY <1>3, <1>4 DEF FlowOK, Served, Held, Settled
  <2>3. \A d \in Sids \ {c} : FlowOK(d)'
    BY <1>1, <1>2, <1>3, <2>1, FlowUntouched
  <2> QED
    BY <1>1, <2>1, <2>2, <2>3 DEF FlowInv
<1>5. CASE recv_buffers_[c] # <<>>
  <2>1. Len(out[c]) = pushed[c] - Len(recv_buffers_[c])
    BY <1>2, <1>3, <1>5 DEF FlowOK, Held
  <2>2. /\ TransportInv' /\ InFlight(c)'
        /\ \A d \in Sids \ {c} : InFlight(d) <=> InFlight(d)'
    BY <1>1, <1>2, <1>3, <1>5, <2>1, SendFrontKeeps
  <2>3. FlowOK(c)'
    BY <1>3, <2>2 DEF FlowOK, Served, Held, Settled
  <2>4. \A d \in Sids \ {c} : FlowOK(d)'
    BY <1>1, <1>2, <1>3, <2>2, FlowUntouched
  <2> QED
    BY <1>1, <2>2, <2>3, <2>4 DEF FlowInv
<1> QED
  BY <1>4, <1>5

\* send_complete() finds the tuple it pops, and sends the next one if the
\* flag is set.
LEMMA SendCompleteKeepsFlow ==
  ASSUME FlowInv, IInv, SendComplete
  PROVE  FlowInv'
<1>1. /\ TransportInv /\ QueuesTypeOK /\ ~corrupted /\ Numbered
      /\ \A d \in Sids : FlowOK(d)
  BY DEF FlowInv, TransportInv
<1>2. PICK c \in Sids : c = current_sending_user_
  BY <1>1 DEF QueuesTypeOK
<1>3. /\ recv_buffers_[c] \in Seq(Tuples) /\ recv_buffers_[c] # <<>>
      /\ finishing = "called"
      /\ Len(out[c]) = Head(recv_buffers_[c]).n
  BY <1>1, <1>2, Completion DEF SendComplete
<1>4. /\ finishing' = "notified" /\ UNCHANGED <<clients_map_, pushed, answer, corrupted>>
      /\ c \in clients_map_ => PopTuple(c, is_connected_[c])
      /\ c \notin clients_map_ => UNCHANGED <<recvVars, implVars>>
      /\ \A d \in Sids : answer[d] # "setting"
  BY <1>2, <1>3 DEF SendComplete, NotifyMainSocketComplete, MapFree, clientVars, recvVars
<1>5. CASE c \notin clients_map_
  <2>1. TransportInv' /\ \A d \in Sids \ {c} : InFlight(d) <=> InFlight(d)'
    BY <1>1, <1>2, <1>3, <1>4, <1>5, SkipKeeps
  <2>2. \A d \in Sids : UNCHANGED <<recv_buffers_[d], pushed[d], answer[d], out[d]>>
    BY <1>4, <1>5 DEF recvVars, implVars
  <2>3. FlowOK(c)'
    BY <1>4, <1>5 DEF FlowOK, Served, Held, Settled
  <2>4. \A d \in Sids \ {c} : FlowOK(d)'
    BY <1>1, <1>4, <2>1, <2>2, FlowUntouched
  <2> QED
    BY <1>1, <1>4, <2>1, <2>3, <2>4 DEF FlowInv
<1>6. CASE c \in clients_map_
  <2>1. PICK open \in BOOLEAN : open = is_connected_[c]
    BY DEF IInv, ClientTypeOK
  <2>2. /\ TransportInv' /\ UNCHANGED out
        /\ \A d \in Sids \ {c} : InFlight(d) <=> InFlight(d)'
        /\ open /\ recv_buffers_'[c] # <<>> => InFlight(c)'
    BY <1>1, <1>2, <1>3, <1>4, <1>6, <2>1, PopTupleKeeps
  <2>3. recv_buffers_' = [recv_buffers_ EXCEPT ![c] = Tail(recv_buffers_[c])]
    BY <1>4, <1>6 DEF PopTuple
  <2>4. /\ recv_buffers_'[c] = Tail(recv_buffers_[c])
        /\ \A d \in Sids \ {c} : UNCHANGED <<recv_buffers_[d], pushed[d], answer[d]>>
    BY <1>1, <1>4, <2>3 DEF QueuesTypeOK
  <2>5. Served(c)'
    <3>1. answer[c] = "yes" => open
      BY <1>6, <2>1 DEF IInv, SocketInv, SocketOK, Connected
    <3> QED
      BY <1>4, <2>2, <3>1 DEF Served
  <2>6. Held(c)'
    <3>1. /\ Len(recv_buffers_'[c]) = Len(recv_buffers_[c]) - 1
          /\ Len(recv_buffers_[c]) \in Nat /\ pushed[c] \in Nat
          /\ Head(recv_buffers_[c]) = recv_buffers_[c][1]
          /\ 1 \in DOMAIN recv_buffers_[c]
      BY <1>1, <1>3, <2>4 DEF QueuesTypeOK
    <3>2. Len(out[c]) = pushed[c] - Len(recv_buffers_[c]) + 1
      BY <1>1, <1>3, <3>1 DEF Numbered
    <3>3. \A p, l \in Nat : p - l + 1 = p - (l - 1)
      OBVIOUS
    <3> QED
      BY <1>4, <2>2, <3>1, <3>2, <3>3 DEF Held
  <2>7. Settled(c)'
    BY <1>4 DEF Settled
  <2>8. \A d \in Sids \ {c} : FlowOK(d)'
    BY <1>1, <1>4, <2>2, <2>4, FlowUntouched
  <2> QED
    BY <1>1, <1>4, <2>2, <2>5, <2>6, <2>7, <2>8 DEF FlowInv, FlowOK
<1> QED
  BY <1>5, <1>6

\* The other two steps of a send.
LEMMA FrameStepsKeepFlow ==
  ASSUME FlowInv, HostFinishes \/ SendNext
  PROVE  FlowInv'
<1>1. /\ FinishSend \/ PopFrame
      /\ UNCHANGED <<recvVars, clients_map_, answer, corrupted>>
  BY DEF HostFinishes, SendNext, FinishSend, PopFrame, clientVars, poolVars
<1>2. /\ TransportInv' /\ \A d \in Sids : InFlight(d) <=> InFlight(d)'
      /\ \A d \in Sids : ~InFlight(d) => out'[d] = out[d]
  BY <1>1, FinishSendKeeps, PopFrameKeeps DEF FlowInv, FinishSend
<1>3. \A d \in Sids : UNCHANGED <<recv_buffers_[d], pushed[d], answer[d]>>
  BY <1>1 DEF recvVars
<1>4. \A d \in Sids : FlowOK(d)'
  BY <1>1, <1>2, <1>3, FlowUntouched DEF FlowInv
<1> QED
  BY <1>1, <1>2, <1>4 DEF FlowInv

LEMMA RemainingStepsKeepFlow ==
  ASSUME FlowInv, IInv,
         \/ AcceptFailed \/ PoolExits \/ UNCHANGED vars
         \/ \E c \in Sids :
              \/ Accept(c) \/ HeaderFailed(c) \/ PacRequest(c) \/ PacWritten(c)
              \/ StopReading(c) \/ ChunkWritten(c) \/ RemoveSelf(c)
              \/ RecvData(c) \/ RecvDisconnect(c)
  PROVE  FlowInv'
<1>1. CASE AcceptFailed \/ PoolExits \/ UNCHANGED vars
  BY <1>1, OtherStepsKeepFlow
     DEF AcceptFailed, PoolExits, vars, clientVars, poolVars
<1>2. ASSUME NEW c \in Sids, StopReading(c) \/ ChunkWritten(c) \/ RecvData(c)
      PROVE  FlowInv'
  BY <1>2, OtherStepsKeepFlow
     DEF StopReading, ChunkWritten, RecvData, clientVars, poolVars
<1>3. ASSUME NEW c \in Sids,
             \/ HeaderFailed(c) \/ PacRequest(c) \/ PacWritten(c)
             \/ RemoveSelf(c) \/ RecvDisconnect(c)
      PROVE  FlowInv'
  BY <1>3, OtherStepsKeepFlow
     DEF HeaderFailed, PacRequest, PacWritten, RemoveSelf, RecvDisconnect,
         RemoveClient, poolVars
<1>4. ASSUME NEW c \in Sids, Accept(c) PROVE FlowInv'
  <2>1. /\ clients_map_' = clients_map_ \cup {c} /\ stage[c] = "none"
        /\ UNCHANGED <<recvVars, implVars, finishing, answer, corrupted>>
    BY <1>4 DEF Accept, poolVars
  <2>2. recv_buffers_[c] = <<>>
    BY <2>1 DEF IInv, SocketInv, SocketOK, BeforeRequest
  <2> QED
    BY <2>1, <2>2, OtherStepsKeepFlow
<1> QED
  BY <1>1, <1>2, <1>3, <1>4

LEMMA NextKeepsFlow ==
  ASSUME Quiet, FlowInv, IInv, TupleInv, [Next]_vars
  PROVE  FlowInv'
<1>1. ASSUME NEW c \in Sids, Accept(c) \/ Requesting(c) \/ Relaying(c) \/ Peer(c)
      PROVE  FlowInv'
  <2>1. CASE Accept(c) \/ Requesting(c)
    BY <2>1, ConnectRequestKeepsFlow, RemainingStepsKeepFlow DEF Requesting
  <2>2. CASE Relaying(c)
    BY <2>2, ReadChunkKeepsFlow, FailureKeepsFlow, RemainingStepsKeepFlow
       DEF Relaying
  <2>3. CASE Peer(c)
    BY <2>3, RecvAnswerKeepsFlow, SetConnectedKeepsFlow,
       RemainingStepsKeepFlow DEF Peer
  <2> QED
    BY <1>1, <2>1, <2>2, <2>3
<1> QED
  BY <1>1, SendCompleteKeepsFlow, FrameStepsKeepFlow, RemainingStepsKeepFlow
     DEF Next

LEMMA InitFlow == Init => FlowInv
<1> SUFFICES ASSUME Init PROVE FlowInv
  OBVIOUS
<1>1. \A c \in Sids : recv_buffers_[c] = <<>> /\ answer[c] = "no"
  BY DEF Init, InitRelay, InitTransport
<1>2. TransportInv /\ ~corrupted
  BY InitKeeps DEF Init, InitRelay
<1> QED
  BY <1>1, <1>2 DEF FlowInv, FlowOK, Served, Held, Settled

\* If no read callback runs inside set_connected(), the host completes the
\* send of tcp_connect before it passes on the answer, and no answer meets a
\* tcp_disconnect, the transport's invariant holds in every reachable state.
THEOREM FlowInvariance == ASSUME Quiet PROVE Spec => []FlowInv
<1>1. IInv /\ TupleInv /\ FlowInv /\ [Next]_vars => FlowInv'
  BY NextKeepsFlow
<1> QED
  BY <1>1, InitFlow, Invariance, TupleInvariance, PTL DEF Spec

\* send_ready_'s protocol under the same conditions: one tuple of a client in
\* flight, its oldest, an answered client is never left waiting with nothing
\* in flight, and no empty queue is popped.
THEOREM OneInFlightTheorem == ASSUME Quiet PROVE Spec => []OneInFlight
<1>1. IInv /\ FlowInv => OneInFlight
  BY DEF IInv, ClientTypeOK, FlowInv, FlowOK, Served, TransportInv,
         OneInFlight, BacklogIsServed
<1> QED
  BY <1>1, Invariance, FlowInvariance, PTL
-----------------------------------------------------------------------------
(* Nothing a connection has to send is lost, under the same conditions.    *)

LEMMA ToldUntouched ==
  ASSUME NEW c \in Sids, Told(c), Grows(c),
         stage'[c] = "relaying" => stage[c] = "relaying",
         stage'[c] = "heading" => \/ c \in clients_map_'
                                  \/ stage[c] = "heading" /\ c \notin clients_map_,
         removing'[c] => removing[c]
  PROVE  Told(c)'
BY DEF Told, Grows, Leaving

\* Steps that touch no tuple, and relay or remove no connection anew.
LEMMA OtherStepsLoseNothing ==
  ASSUME LossInv, UNCHANGED <<recv_buffers_, impl_send_buffers_, out>>,
         \A d \in Sids :
           /\ stage'[d] = "relaying" => stage[d] = "relaying"
           /\ stage'[d] = "heading" => \/ d \in clients_map_'
                                       \/ stage[d] = "heading" /\ d \notin clients_map_
           /\ removing'[d] => removing[d]
  PROVE  LossInv' /\ \A d \in Sids : Grows(d)
<1>1. \A d \in Sids : Grows(d)
  BY DEF Grows, Known, Queued, Places, Sent, Begins
<1>2. \A d \in Sids : Told(d)'
  BY <1>1, ToldUntouched DEF LossInv
<1> QED
  BY <1>1, <1>2 DEF LossInv

\* A push of the request, which is sent, or behind it.
LEMMA PushLosesNothing ==
  ASSUME LossInv, IInv, NEW c \in Sids, NEW type \in FrameTypes, NEW now \in BOOLEAN,
         PushTuple(c, type, now), UNCHANGED clients_map_,
         stage'[c] = "relaying", now \/ stage[c] = "relaying",
         removing'[c] => removing[c] \/ type = "tcp_disconnect",
         \A d \in Sids \ {c} : UNCHANGED <<stage[d], removing[d]>>
  PROVE  LossInv' /\ \A d \in Sids : Grows(d)
<1> DEFINE t == [type |-> type, n |-> pushed[c] + 1]
<1>1. /\ \A d \in Sids : Grows(d)
      /\ t \in Known(c)'
      /\ now => Sent(c)'
  BY PushGrows DEF IInv
<1>2. t.type = type
  OBVIOUS
<1> HIDE DEF t
<1>3. Told(c) /\ \A d \in Sids \ {c} : Told(d)
  BY DEF LossInv
<1>4. Told(c)'
  <2>1. Sent(c)'
    BY <1>1, <1>3 DEF Told, Grows
  <2>2. removing'[c] => Leaving(c)'
    BY <1>1, <1>2, <1>3 DEF Told, Grows, Leaving
  <2> QED
    BY <2>1, <2>2 DEF Told
<1>5. \A d \in Sids \ {c} : Told(d)'
  BY <1>1, <1>3, ToldUntouched
<1> QED
  BY <1>1, <1>4, <1>5 DEF LossInv

LEMMA FailureLosesNothing ==
  ASSUME LossInv, IInv, NEW c \in Sids, ReadFailed(c) \/ WriteFailed(c)
  PROVE  LossInv' /\ \A d \in Sids : Grows(d)
<1> DEFINE now == recv_buffers_[c] = <<>>
<1>1. /\ stage[c] = "relaying"
      /\ PushTuple(c, "tcp_disconnect", now)
      /\ removing' = [removing EXCEPT ![c] = TRUE]
      /\ UNCHANGED <<clients_map_, stage>>
  BY DEF ReadFailed, WriteFailed, Handler, SendDisconnect
<1>2. \A d \in Sids \ {c} : removing'[d] = removing[d]
  BY <1>1 DEF IInv, ClientTypeOK, RelayTypeOK
<1>3. now \in BOOLEAN
  OBVIOUS
<1> HIDE DEF now
<1> QED
  BY <1>1, <1>2, <1>3, PushLosesNothing DEF FrameTypes

LEMMA ReadChunkLosesNothing ==
  ASSUME LossInv, IInv, NEW c \in Sids, ReadChunk(c)
  PROVE  LossInv' /\ \A d \in Sids : Grows(d)
<1> DEFINE now == recv_buffers_[c] = <<>> /\ is_connected_[c]
<1>1. /\ stage[c] = "relaying"
      /\ PushTuple(c, "tcp_data", now)
      /\ UNCHANGED <<clients_map_, stage, removing>>
  BY DEF ReadChunk, Handler, clientVars
<1>2. now \in BOOLEAN
  OBVIOUS
<1> HIDE DEF now
<1> QED
  BY <1>1, <1>2, PushLosesNothing DEF FrameTypes

LEMMA ConnectRequestLosesNothing ==
  ASSUME LossInv, IInv, NEW c \in Sids, ConnectRequest(c)
  PROVE  LossInv' /\ \A d \in Sids : Grows(d)
<1>1. /\ stage' = [stage EXCEPT ![c] = "relaying"]
      /\ PushTuple(c, "tcp_connect", TRUE)
      /\ UNCHANGED <<clients_map_, removing>>
  BY DEF ConnectRequest
<1>2. stage'[c] = "relaying" /\ \A d \in Sids \ {c} : stage'[d] = stage[d]
  BY <1>1 DEF IInv, ClientTypeOK
<1> QED
  BY <1>1, <1>2, PushLosesNothing DEF FrameTypes

\* The steps that move tuples: none is lost, and no connection changes.
LEMMA MovesLoseNothing ==
  ASSUME LossInv, UNCHANGED <<clients_map_, stage, removing>>,
         \A d \in Sids : Grows(d)
  PROVE  LossInv' /\ \A d \in Sids : Grows(d)
BY ToldUntouched DEF LossInv

LEMMA SetConnectedLosesNothing ==
  ASSUME LossInv, IInv, NEW c \in Sids, SetConnected(c)
  PROVE  LossInv' /\ \A d \in Sids : Grows(d)
<1>1. /\ recv_buffers_[c] # <<>> => SendToMainSocket(c, Head(recv_buffers_[c]))
      /\ recv_buffers_[c] = <<>> => UNCHANGED implVars
      /\ UNCHANGED <<clients_map_, stage, removing, recv_buffers_>>
  BY DEF SetConnected, recvVars
<1>2. CASE recv_buffers_[c] = <<>>
  BY <1>1, <1>2, OtherStepsLoseNothing DEF implVars
<1>3. CASE recv_buffers_[c] # <<>>
  <2>1. QueuesTypeOK /\ recv_buffers_[c] \in Seq(Tuples)
    BY DEF IInv, QueuesTypeOK
  <2>2. PICK t \in Tuples : t = Head(recv_buffers_[c])
    BY <1>3, <2>1
  <2>3. \A d \in Sids : Grows(d)
    BY <1>1, <1>3, <2>1, <2>2, SendGrows, BeginsElements DEF Grows, Known
  <2> QED
    BY <1>1, <2>3, MovesLoseNothing
<1> QED
  BY <1>2, <1>3

LEMMA SendCompleteLosesNothing ==
  ASSUME LossInv, FlowInv, IInv, SendComplete
  PROVE  LossInv' /\ \A d \in Sids : Grows(d)
<1>1. QueuesTypeOK /\ SingleSend /\ FrameIsFront
  BY DEF IInv, FlowInv, TransportInv
<1>2. PICK c \in Sids : c = current_sending_user_
  BY <1>1 DEF QueuesTypeOK
<1>3. /\ finishing = "called" /\ UNCHANGED <<clients_map_, stage, removing>>
      /\ \/ PopTuple(c, is_connected_[c])
         \/ UNCHANGED <<recv_buffers_, implVars>>
  BY <1>2 DEF SendComplete, NotifyMainSocketComplete, clientVars
<1>4. CASE UNCHANGED <<recv_buffers_, implVars>>
  BY <1>3, <1>4, OtherStepsLoseNothing DEF implVars
<1>5. CASE PopTuple(c, is_connected_[c])
  <2>1. \A d \in Sids : Grows(d)
    BY <1>1, <1>2, <1>3, <1>5, PopGrows
  <2> QED
    BY <1>3, <2>1, MovesLoseNothing
<1> QED
  BY <1>3, <1>4, <1>5

LEMMA SendNextLosesNothing ==
  ASSUME LossInv, IInv, TupleInv, SendNext
  PROVE  LossInv' /\ \A d \in Sids : Grows(d)
<1>1. PopFrame /\ UNCHANGED <<clients_map_, stage, removing>>
  BY DEF SendNext, clientVars
<1>2. \A d \in Sids : Grows(d)
  BY <1>1, PopFrameGrows DEF IInv, TupleInv
<1> QED
  BY <1>1, <1>2, MovesLoseNothing

\* A connection leaves the map only when its header was not complete, when
\* the peer says so, or when its removal was posted.
LEMMA RemainingStepsLoseNothing ==
  ASSUME LossInv, IInv,
         \/ HostFinishes \/ AcceptFailed \/ PoolExits \/ UNCHANGED vars
         \/ \E c \in Sids :
              \/ Accept(c) \/ HeaderFailed(c) \/ PacRequest(c) \/ PacWritten(c)
              \/ StopReading(c) \/ ChunkWritten(c) \/ RemoveSelf(c)
              \/ RecvAnswer(c) \/ RecvData(c) \/ RecvDisconnect(c)
  PROVE  LossInv' /\ \A d \in Sids : Grows(d)
<1>1. CASE HostFinishes \/ AcceptFailed \/ PoolExits \/ UNCHANGED vars
  BY <1>1, OtherStepsLoseNothing
     DEF LossInv, Told, HostFinishes, FinishSend, AcceptFailed, PoolExits, vars,
         clientVars, recvVars, implVars
<1>2. ASSUME NEW c \in Sids,
             StopReading(c) \/ ChunkWritten(c) \/ RecvAnswer(c) \/ RecvData(c)
      PROVE  LossInv' /\ \A d \in Sids : Grows(d)
  BY <1>2, OtherStepsLoseNothing
     DEF LossInv, Told, StopReading, ChunkWritten, RecvAnswer, RecvData, clientVars,
         recvVars, implVars
<1>3. ASSUME NEW c \in Sids, RecvDisconnect(c) \/ RemoveSelf(c)
      PROVE  LossInv' /\ \A d \in Sids : Grows(d)
  <2>1. /\ \/ out[c] # <<>> /\ UNCHANGED removing
           \/ removing[c] /\ removing' = [removing EXCEPT ![c] = FALSE]
        /\ clients_map_' = clients_map_ \ {c}
        /\ UNCHANGED <<recv_buffers_, impl_send_buffers_, out, stage>>
    BY <1>3 DEF RecvDisconnect, WasHanded, RemoveSelf, RemoveClient, recvVars, implVars
  <2>2. stage[c] = "relaying"
    <3>1. CASE out[c] # <<>>
      BY <3>1, HandedIsRelaying
    <3>2. CASE removing[c]
      <4>1. Known(c) # {}
        BY <3>2 DEF LossInv, Told, Leaving
      <4> QED
        BY <4>1 DEF IInv, SocketInv, SocketOK, BeforeRequest
    <3> QED
      BY <2>1, <3>1, <3>2
  <2>3. \A d \in Sids : removing'[d] => removing[d]
    BY <2>1 DEF IInv, ClientTypeOK, RelayTypeOK
  <2> QED
    BY <2>1, <2>2, <2>3, OtherStepsLoseNothing DEF LossInv, Told
<1>4. ASSUME NEW c \in Sids,
             Accept(c) \/ HeaderFailed(c) \/ PacRequest(c) \/ PacWritten(c)
      PROVE  LossInv' /\ \A d \in Sids : Grows(d)
  <2>1. /\ \/ clients_map_' = clients_map_ \cup {c} /\ stage' = [stage EXCEPT ![c] = "heading"]
           \/ /\ \E s \in {"closed", "pac"} : stage' = [stage EXCEPT ![c] = s]
              /\ clients_map_' \in {clients_map_, clients_map_ \ {c}}
        /\ UNCHANGED <<recv_buffers_, impl_send_buffers_, out, removing>>
    BY <1>4 DEF Accept, HeaderFailed, PacRequest, PacWritten, RemoveClient,
                recvVars, implVars
  <2>2. \A d \in Sids :
          /\ stage'[d] = "relaying" => stage[d] = "relaying"
          /\ stage'[d] = "heading" => \/ d \in clients_map_'
                                      \/ stage[d] = "heading" /\ d \notin clients_map_
    BY <2>1 DEF IInv, ClientTypeOK, LossInv, Told
  <2> QED
    BY <2>1, <2>2, OtherStepsLoseNothing
<1> QED
  BY <1>1, <1>2, <1>3, <1>4

LEMMA NextLosesNothing ==
  ASSUME LossInv, FlowInv, IInv, TupleInv, [Next]_vars
  PROVE  LossInv' /\ \A d \in Sids : Grows(d)
<1>1. ASSUME NEW c \in Sids, Accept(c) \/ Requesting(c) \/ Relaying(c) \/ Peer(c)
      PROVE  LossInv' /\ \A d \in Sids : Grows(d)
  <2>1. CASE Accept(c) \/ Requesting(c)
    BY <2>1, ConnectRequestLosesNothing, RemainingStepsLoseNothing DEF Requesting
  <2>2. CASE Relaying(c)
    BY <2>2, ReadChunkLosesNothing, FailureLosesNothing,
       RemainingStepsLoseNothing DEF Relaying
  <2>3. CASE Peer(c)
    BY <2>3, SetConnectedLosesNothing, RemainingStepsLoseNothing DEF Peer
  <2> QED
    BY <1>1, <2>1, <2>2, <2>3
<1> QED
  BY <1>1, SendCompleteLosesNothing, SendNextLosesNothing,
     RemainingStepsLoseNothing DEF Next

LEMMA InitLosesNothing == Init => LossInv
BY DEF Init, InitRelay, LossInv, Told

\* Under the same conditions the request of every relaying connection stays
\* with the main transport, and so does the tcp_disconnect that announces a
\* removal.
THEOREM LossInvariance == ASSUME Quiet PROVE Spec => []LossInv
<1>1. LossInv /\ FlowInv /\ IInv /\ TupleInv /\ [Next]_vars => LossInv'
  BY NextLosesNothing
<1> QED
  BY <1>1, InitLosesNothing, Invariance, TupleInvariance, FlowInvariance, PTL DEF Spec

\* Then no step loses a tuple of a client that is in the map: what was handed over stays as it is, and a
\* tuple that waits goes on waiting or is handed over.  (The tuples of a client
\* that has left the map are destroyed with it.)
THEOREM NothingIsLost ==
  ASSUME Quiet PROVE Spec => [][\A c \in Sids : c \in clients_map_' => Grows(c)]_vars
<1>1. LossInv /\ FlowInv /\ IInv /\ TupleInv /\ [Next]_vars
       => [\A c \in Sids : c \in clients_map_' => Grows(c)]_vars
  BY NextLosesNothing
<1> QED
  BY <1>1, LossInvariance, Invariance, TupleInvariance, FlowInvariance, PTL
     DEF Spec
-----------------------------------------------------------------------------
(* What the peer can see of a step that is no recv() of a frame.           *)

OwnStep ==
  \/ \E c \in Sids : Accept(c) \/ Requesting(c) \/ Relaying(c) \/ SetConnected(c)
  \/ HostFinishes
  \/ SendComplete
  \/ SendNext

\* No connection is answered, only a new one comes into the map, and one that
\* relays leaves it only if its removal was posted.
LEMMA OwnStepEffect ==
  ASSUME IInv, LossInv, OwnStep, NEW d \in Sids
  PROVE  /\ answer'[d] = "no" <=> answer[d] = "no"
         /\ d \in clients_map_' => d \in clients_map_ \/ stage[d] = "none"
         /\ stage'[d] = "relaying" => \/ d \in clients_map_' \/ removing[d]
                                      \/ stage[d] = "relaying" /\ d \notin clients_map_
<1>1. /\ stage \in [Sids -> {"none", "heading", "pac", "relaying", "closed"}]
      /\ answer \in [Sids -> {"no", "setting", "yes"}]
      /\ Told(d)
  BY DEF IInv, ClientTypeOK, LossInv
<1>2. ASSUME NEW c \in Sids, Accept(c) \/ Requesting(c)
      PROVE  /\ UNCHANGED answer
             /\ clients_map_' \subseteq clients_map_ \cup {e \in {c} : stage[c] = "none"}
             /\ stage'[d] = "relaying" => \/ d \in clients_map_'
                                          \/ stage[d] = "relaying" /\ d \notin clients_map_
  <2>1. CASE Accept(c)
    <3>1. /\ stage[c] = "none" /\ stage' = [stage EXCEPT ![c] = "heading"]
          /\ clients_map_' = clients_map_ \cup {c} /\ UNCHANGED answer
      BY <2>1 DEF Accept
    <3> QED
      BY <1>1, <3>1
  <2>2. CASE ConnectRequest(c)
    <3>1. /\ stage[c] = "heading" /\ stage' = [stage EXCEPT ![c] = "relaying"]
          /\ UNCHANGED <<clients_map_, answer>>
      BY <2>2 DEF ConnectRequest, Handler
    <3>2. c \in clients_map_
      BY <3>1 DEF LossInv, Told
    <3> QED
      BY <1>1, <3>1, <3>2
  <2>3. CASE HeaderFailed(c) \/ PacRequest(c) \/ PacWritten(c)
    <3>1. /\ \E s \in {"closed", "pac"} : stage' = [stage EXCEPT ![c] = s]
          /\ clients_map_' \in {clients_map_, clients_map_ \ {c}}
          /\ UNCHANGED answer
      BY <2>3 DEF HeaderFailed, PacRequest, PacWritten, RemoveClient
    <3> QED
      BY <1>1, <3>1
  <2> QED
    BY <1>2, <2>1, <2>2, <2>3 DEF Requesting
<1>3. ASSUME NEW c \in Sids, Relaying(c)
      PROVE  /\ UNCHANGED <<stage, answer>>
             /\ \/ UNCHANGED clients_map_
                \/ clients_map_' = clients_map_ \ {c} /\ removing[c]
  BY <1>3 DEF Relaying, ReadChunk, StopReading, ReadFailed, ChunkWritten,
              WriteFailed, RemoveSelf, RemoveClient, clientVars
<1>4. ASSUME NEW c \in Sids, SetConnected(c)
      PROVE  /\ UNCHANGED <<stage, clients_map_>>
             /\ answer[c] = "setting" /\ answer' = [answer EXCEPT ![c] = "yes"]
  BY <1>4 DEF SetConnected
<1>5. CASE HostFinishes \/ SendComplete \/ SendNext
  BY <1>5 DEF HostFinishes, SendComplete, SendNext, clientVars
<1> QED
  BY <1>1, <1>2, <1>3, <1>4, <1>5 DEF OwnStep
-----------------------------------------------------------------------------
(* The client implements FrameStream under the same conditions.            *)

\* A step of the client is a step of FrameStream or stutters.
LEMMA NextIsStep ==
  ASSUME Quiet, FlowInv, IInv, [Next]_vars
  PROVE  (\E c \in Sids : Stream!Step(c)) \/ UNCHANGED <<pushed, out>>
<1>1. TransportInv /\ QueuesTypeOK /\ \A c \in Sids : FlowOK(c)
  BY DEF FlowInv, TransportInv
<1>2. CASE SendNext
  BY <1>1, <1>2, PopFrameIsStep DEF SendNext
<1>3. CASE SendComplete
  <2>1. PICK c \in Sids : c = current_sending_user_
    BY <1>1 DEF QueuesTypeOK
  <2>2. PICK open \in BOOLEAN : open = is_connected_[c]
    BY DEF IInv, ClientTypeOK
  <2>3. /\ finishing = "called" /\ UNCHANGED pushed
        /\ \/ PopTuple(c, open) /\ finishing' = "notified"
           \/ UNCHANGED implVars
    BY <1>3, <2>1, <2>2 DEF SendComplete, NotifyMainSocketComplete
  <2>4. UNCHANGED out
    BY <1>1, <2>1, <2>3, PopTupleKeeps DEF implVars
  <2> QED
    BY <2>3, <2>4
<1>4. CASE HostFinishes \/ AcceptFailed \/ PoolExits \/ UNCHANGED vars
  BY <1>4 DEF HostFinishes, FinishSend, AcceptFailed, PoolExits, vars,
              recvVars, implVars
<1>5. ASSUME NEW c \in Sids, SendDisconnect(c) PROVE Stream!Step(c)
  <2>1. PushTuple(c, "tcp_disconnect", recv_buffers_[c] = <<>>)
    BY <1>5 DEF SendDisconnect
  <2> QED
    BY <1>1, <2>1, PushIsStep DEF FrameTypes
<1>6. ASSUME NEW c \in Sids, Accept(c) \/ Requesting(c)
      PROVE  Stream!Step(c) \/ UNCHANGED <<pushed, out>>
  <2>1. CASE ConnectRequest(c)
    <3>1. PushTuple(c, "tcp_connect", TRUE) /\ recv_buffers_[c] = <<>>
      BY <2>1 DEF ConnectRequest, Handler, IInv, SocketInv, SocketOK, BeforeRequest
    <3> QED
      BY <1>1, <3>1, PushIsStep DEF FrameTypes
  <2>2. CASE Accept(c) \/ HeaderFailed(c) \/ PacRequest(c) \/ PacWritten(c)
    BY <2>2 DEF Accept, HeaderFailed, PacRequest, PacWritten, RemoveClient,
                recvVars, implVars
  <2> QED
    BY <1>6, <2>1, <2>2 DEF Requesting
<1>7. ASSUME NEW c \in Sids, Relaying(c)
      PROVE  Stream!Step(c) \/ UNCHANGED <<pushed, out>>
  <2>1. CASE ReadChunk(c)
    <3> DEFINE now == recv_buffers_[c] = <<>> /\ is_connected_[c]
    <3>1. PushTuple(c, "tcp_data", now)
      BY <2>1 DEF ReadChunk
    <3>2. now \in BOOLEAN /\ (now => recv_buffers_[c] = <<>>)
      BY DEF IInv, ClientTypeOK
    <3> HIDE DEF now
    <3> QED
      BY <1>1, <3>1, <3>2, PushIsStep DEF FrameTypes
  <2>2. CASE ReadFailed(c) \/ WriteFailed(c)
    BY <1>5, <2>2 DEF ReadFailed, WriteFailed
  <2>3. CASE StopReading(c) \/ ChunkWritten(c) \/ RemoveSelf(c)
    BY <2>3 DEF StopReading, ChunkWritten, RemoveSelf, RemoveClient,
                recvVars, implVars
  <2> QED
    BY <1>7, <2>1, <2>2, <2>3 DEF Relaying
<1>8. ASSUME NEW c \in Sids, Peer(c)
      PROVE  Stream!Step(c) \/ UNCHANGED <<pushed, out>>
  <2>1. CASE SetConnected(c)
    <3>1. /\ answer[c] = "setting" /\ UNCHANGED pushed
          /\ recv_buffers_[c] # <<>> => SendToMainSocket(c, Head(recv_buffers_[c]))
          /\ recv_buffers_[c] = <<>> => UNCHANGED out
      BY <2>1 DEF SetConnected, recvVars, implVars
    <3>2. CASE recv_buffers_[c] # <<>>
      <4>1. c \in clients_map_
        BY <3>1 DEF IInv, SocketInv, SocketOK, Connected
      <4>2. Len(out[c]) = pushed[c] - Len(recv_buffers_[c])
        BY <1>1, <3>1, <3>2, <4>1 DEF FlowOK, Held, Settled
      <4> QED
        BY <1>1, <3>1, <3>2, <4>2, SendFrontIsStep
    <3> QED
      BY <3>1, <3>2
  <2>2. CASE RecvAnswer(c) \/ RecvData(c) \/ RecvDisconnect(c)
    BY <2>2 DEF RecvAnswer, RecvData, RecvDisconnect, RemoveClient, recvVars, implVars
  <2> QED
    BY <1>8, <2>1, <2>2 DEF Peer
<1> QED
  BY <1>2, <1>3, <1>4, <1>6, <1>7, <1>8 DEF Next

\* Under the same conditions the tuples of every connection reach
\* cb_send_buffer_ in the order in which they were pushed, none twice and
\* none skipped.
THEOREM Refinement == ASSUME Quiet PROVE Spec => FramesInOrder
<1>1. Init => Stream!Init
  BY InitIsInit DEF Init, InitRelay
<1>2. FlowInv /\ IInv /\ [Next]_vars => [Stream!Next]_<<pushed, Handed>>
  <2> SUFFICES ASSUME FlowInv, IInv, [Next]_vars
               PROVE  Stream!Next \/ UNCHANGED <<pushed, Handed>>
    OBVIOUS
  <2>1. CASE \E c \in Sids : Stream!Step(c)
    BY <2>1 DEF Stream!Next
  <2>2. CASE UNCHANGED <<pushed, out>>
    BY <2>2 DEF Handed
  <2> QED
    BY <2>1, <2>2, NextIsStep
<1> QED
  BY <1>1, <1>2, Invariance, FlowInvariance, PTL
     DEF Spec, FramesInOrder, Stream!Spec, Handed, Numbers
-----------------------------------------------------------------------------
(* The chunks of a connection.                                             *)

\* Those that wait for its socket or were written to it.
Chunks(c) == Elements(send_buffers_[c]) \cup Elements(written[c])

\* A step of the manager itself makes no chunk but the payload of the answer,
\* and writes those it has.
LEMMA OwnStepChunks ==
  ASSUME IInv, OrderInv, OwnStep, NEW d \in Sids
  PROVE  UNCHANGED received /\ Chunks(d)' \subseteq Chunks(d) \cup {FirstChunk}
<1>1. /\ send_buffers_[d] \in Seq(Nat) /\ written[d] \in Seq(Nat)
      /\ written \in [Sids -> Seq(Nat)] /\ send_buffers_ \in [Sids -> Seq(Nat)]
  BY OrderTypes
<1>2. ASSUME NEW c \in Sids, SetConnected(c)
      PROVE  UNCHANGED received /\ Chunks(d)' \subseteq Chunks(d) \cup {FirstChunk}
  <2>1. /\ UNCHANGED <<received, written>>
        /\ \/ UNCHANGED send_buffers_
           \/ send_buffers_' = [send_buffers_ EXCEPT ![c] = Append(@, FirstChunk)]
    BY <1>2 DEF SetConnected, ClientAddSendBuffer, Established
  <2>2. \/ send_buffers_'[d] = send_buffers_[d]
        \/ send_buffers_'[d] = Append(send_buffers_[d], FirstChunk)
    BY <1>1, <2>1
  <2>3. FirstChunk \in Nat
    BY DEF FirstChunk
  <2>4. Elements(send_buffers_'[d]) \subseteq Elements(send_buffers_[d]) \cup {FirstChunk}
    BY <1>1, <2>2, <2>3, AppendElements
  <2> QED
    BY <2>1, <2>4 DEF Chunks
<1>3. ASSUME NEW c \in Sids, ChunkWritten(c)
      PROVE  UNCHANGED received /\ Chunks(d)' \subseteq Chunks(d)
  <2>1. /\ stage[c] = "relaying" /\ writes[c] > 0 /\ UNCHANGED received
        /\ written' = [written EXCEPT ![c] = Append(@, write_buffer_[c])]
        /\ send_buffers_' = [send_buffers_ EXCEPT ![c] = Tail(send_buffers_[c])]
    BY <1>3 DEF ChunkWritten, Handler, PopAndWriteNext
  <2>2. CASE d # c
    <3>1. written'[d] = written[d] /\ send_buffers_'[d] = send_buffers_[d]
      BY <1>1, <2>1, <2>2
    <3> QED
      BY <2>1, <3>1 DEF Chunks
  <2>3. CASE d = c
    <3>1. send_buffers_[d] # <<>> /\ write_buffer_[d] = send_buffers_[d][1]
      BY <2>1, <2>3, OrderTypes DEF Writing, OrderInv, InOrder
    <3>2. /\ Elements(Tail(send_buffers_[d])) \subseteq Elements(send_buffers_[d])
          /\ Head(send_buffers_[d]) \in Elements(send_buffers_[d])
      BY <1>1, <3>1, TailElements
    <3>3. /\ Head(send_buffers_[d]) = send_buffers_[d][1]
          /\ send_buffers_[d][1] \in Nat
      BY <1>1, <3>1
    <3>4. /\ written'[d] = Append(written[d], write_buffer_[d])
          /\ send_buffers_'[d] = Tail(send_buffers_[d])
      BY <1>1, <2>1, <2>3
    <3>5. Elements(written'[d]) \subseteq Elements(written[d]) \cup {write_buffer_[d]}
      BY <1>1, <3>1, <3>3, <3>4, AppendElements
    <3> QED
      BY <2>1, <3>1, <3>2, <3>3, <3>4, <3>5 DEF Chunks
  <2> QED
    BY <2>2, <2>3
<1>4. ASSUME UNCHANGED <<received, send_buffers_, written>>
      PROVE  UNCHANGED received /\ Chunks(d)' \subseteq Chunks(d)
  BY <1>4 DEF Chunks
<1>5. ASSUME NEW c \in Sids, Accept(c) \/ Requesting(c)
      PROVE  UNCHANGED <<received, send_buffers_, written>>
  BY <1>5 DEF Accept, Requesting, HeaderFailed, PacRequest, PacWritten, ConnectRequest,
              RemoveClient, writeVars
<1>6. ASSUME NEW c \in Sids, Relaying(c) PROVE
        ChunkWritten(c) \/ UNCHANGED <<received, send_buffers_, written>>
  BY <1>6 DEF Relaying, ReadChunk, StopReading, ReadFailed, WriteFailed, RemoveSelf,
              RemoveClient, writeVars
<1>7. CASE HostFinishes \/ SendComplete \/ SendNext
  <2>1. UNCHANGED <<received, send_buffers_, written>>
    BY <1>7 DEF HostFinishes, SendComplete, SendNext, writeVars
  <2> QED
    BY <1>4, <2>1
<1> QED
  BY <1>2, <1>3, <1>4, <1>5, <1>6, <1>7 DEF OwnStep

\* recv() adds the chunk of tcp_data if the id is in the map.
LEMMA RecvChunks ==
  ASSUME IInv, NEW c \in Sids, NEW d \in Sids
  PROVE  /\ RecvAnswer(c) \/ RecvDisconnect(c) =>
              UNCHANGED <<received, written>> /\ Chunks(d)' = Chunks(d)
         /\ RecvData(c) =>
              /\ received' = [received EXCEPT ![c] = @ + 1]
              /\ UNCHANGED <<clients_map_, written>>
              /\ Chunks(d)' \subseteq
                   Chunks(d) \cup {k \in {received[c] + 1} : d = c /\ c \in clients_map_}
<1>1. send_buffers_ \in [Sids -> Seq(Nat)] /\ received[c] + 1 \in Nat
  BY OrderTypes
<1>2. ASSUME RecvAnswer(c) \/ RecvDisconnect(c)
      PROVE  UNCHANGED <<received, written>> /\ Chunks(d)' = Chunks(d)
  BY <1>2 DEF RecvAnswer, RecvDisconnect, RemoveClient, writeVars, Chunks
<1>3. ASSUME RecvData(c)
      PROVE  /\ received' = [received EXCEPT ![c] = @ + 1]
             /\ UNCHANGED <<clients_map_, written>>
             /\ Chunks(d)' \subseteq
                  Chunks(d) \cup {k \in {received[c] + 1} : d = c /\ c \in clients_map_}
  <2>1. /\ received' = [received EXCEPT ![c] = @ + 1]
        /\ UNCHANGED <<clients_map_, written>>
        /\ \/ UNCHANGED send_buffers_
           \/ /\ c \in clients_map_
              /\ send_buffers_' = [send_buffers_ EXCEPT ![c] = Append(@, received[c] + 1)]
    BY <1>3 DEF RecvData, ClientAddSendBuffer, clientVars
  <2>2. \/ send_buffers_'[d] = send_buffers_[d]
        \/ /\ d = c /\ c \in clients_map_
           /\ send_buffers_'[d] = Append(send_buffers_[d], received[c] + 1)
    BY <1>1, <2>1
  <2>3. Elements(Append(send_buffers_[d], received[c] + 1)) \subseteq
          Elements(send_buffers_[d]) \cup {received[c] + 1}
    BY <1>1, AppendElements
  <2> QED
    BY <2>1, <2>2, <2>3 DEF Chunks
<1> QED
  BY <1>2, <1>3

\* A step writes one chunk at most.
LEMMA NextWrites ==
  ASSUME IInv, [Next]_vars
  PROVE  \/ UNCHANGED written
         \/ \E c \in Sids, k \in Nat : written' = [written EXCEPT ![c] = Append(@, k)]
<1>1. ASSUME NEW c \in Sids, ChunkWritten(c)
      PROVE  \E k \in Nat : written' = [written EXCEPT ![c] = Append(@, k)]
  <2>1. write_buffer_[c] \in Nat
    BY OrderTypes
  <2>2. written' = [written EXCEPT ![c] = Append(@, write_buffer_[c])]
    BY <1>1 DEF ChunkWritten
  <2> QED
    BY <2>1, <2>2
<1>2. ASSUME NEW c \in Sids, Accept(c) \/ Requesting(c) PROVE UNCHANGED written
  BY <1>2 DEF Accept, Requesting, HeaderFailed, PacRequest, PacWritten, ConnectRequest,
              RemoveClient, writeVars
<1>3. ASSUME NEW c \in Sids, Relaying(c) PROVE ChunkWritten(c) \/ UNCHANGED written
  BY <1>3 DEF Relaying, ReadChunk, StopReading, ReadFailed, WriteFailed, RemoveSelf,
              RemoveClient, writeVars
<1>4. ASSUME NEW c \in Sids, Peer(c) PROVE UNCHANGED written
  BY <1>4 DEF Peer, RecvAnswer, SetConnected, RecvData, RecvDisconnect, RemoveClient,
              writeVars
<1>5. CASE HostFinishes \/ SendComplete \/ SendNext \/ AcceptFailed \/ PoolExits
           \/ UNCHANGED vars
  BY <1>5 DEF HostFinishes, SendComplete, SendNext, AcceptFailed, PoolExits, vars,
              writeVars
<1> QED
  BY <1>1, <1>2, <1>3, <1>4, <1>5 DEF Next

\* A step pushes one tuple at most.
LEMMA NextPushes ==
  ASSUME Quiet, FlowInv, IInv, [Next]_vars
  PROVE  UNCHANGED pushed \/ \E c \in Sids : pushed' = [pushed EXCEPT ![c] = @ + 1]
BY NextIsStep DEF Stream!Step, Stream!Produce
=============================================================================
