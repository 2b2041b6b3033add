---------------------------- MODULE ClientManager ----------------------------
(***************************************************************************)
(* client_manager (src/sunny_client_manager.cpp): the end of the tunnel    *)
(* that browsers connect to.  It accepts a connection, reads its HTTP      *)
(* header, asks the peer to connect (or serves the PAC file itself) and    *)
(* starts reading the body at once.  What is read before the peer's answer *)
(* waits in recv_buffers_; set_connected() then starts the flow.           *)
(*                                                                         *)
(* The steps are cut as in ServerManager, except for set_connected(): it   *)
(* sets is_connected_ before it takes recv_buffers_mutex_, which the read  *)
(* callback holds when it looks at the flag, so it is two steps here.      *)
(* recv() holds clients_map_mutex_ across both.  Three constants say what  *)
(* may meet it there; the code was written for none of them.               *)
(***************************************************************************)
EXTENDS RelayClient

CONSTANTS
  ReadRaces,       \* a read callback may run inside set_connected()
  CloseRaces,      \* the answer may come while the tcp_disconnect of a browser
                   \* that did not wait for it is in flight
  LateCompletion   \* the host may report the end of the send of tcp_connect
                   \* after it has passed on the answer

ASSUME EnvironmentAssumption ==
  {ReadRaces, CloseRaces, LateCompletion} \subseteq BOOLEAN

VARIABLES
  stage,           \* none, heading, pac, relaying, closed
  is_connected_,
  answer,          \* recv(tcp_connect): no, setting (between the two steps), yes
  accepting,       \* an async_accept is outstanding
  pool,            \* threads of ioc_: running, exited
  corrupted        \* recv_buffers_.pop() was called on an empty queue

clientVars == <<clients_map_, stage, removing, is_connected_, answer>>
poolVars == <<accepting, pool, corrupted>>
vars == <<clientVars, readVars, recvVars, writeVars, implVars, finishing,
          poolVars, received>>

\* The payload of the answer to CONNECT.
Established == FirstChunk

\* Popping an empty std::queue is undefined: what follows is not modelled.
Running == pool = "running" /\ ~corrupted
Handler(c, s) == Running /\ stage[c] = s

\* clients_map_mutex_ is not held by a recv() inside set_connected().
MapFree == ~corrupted /\ \A c \in Sids : answer[c] # "setting"
-----------------------------------------------------------------------------
(* The acceptor and the HTTP header.                                       *)

\* A browser connects: the connection gets the next id, an entry in the map
\* and a read of its header; the next accept is started.
Accept(c) ==
  /\ Running /\ accepting /\ MapFree
  /\ stage[c] = "none"
  /\ clients_map_' = clients_map_ \cup {c}
  /\ stage' = [stage EXCEPT ![c] = "heading"]
  /\ ReadSome(c)
  /\ UNCHANGED <<removing, is_connected_, answer, is_reading_, stopping,
                 recvVars, writeVars, implVars, finishing, poolVars, received>>

\* An error of async_accept ends accepting for good.
AcceptFailed ==
  /\ Running /\ accepting
  /\ accepting' = FALSE
  /\ UNCHANGED <<clientVars, readVars, recvVars, writeVars, implVars,
                 finishing, pool, corrupted, received>>

\* impl::remove_client.  An object with an operation pending outlives its
\* entry: the handler holds a reference.  Without one it is destroyed, and its
\* recv_buffers_ stay here only as history: nothing takes from them any more.
RemoveClient(c) ==
  /\ MapFree
  /\ clients_map_' = clients_map_ \ {c}
  /\ UNCHANGED <<is_connected_, answer, is_reading_, stopping, recvVars,
                 send_buffers_, write_buffer_, written, implVars, finishing,
                 poolVars, received>>

\* The browser closed before its header was complete: no frame is sent.
HeaderFailed(c) ==
  /\ Handler(c, "heading")
  /\ stage' = [stage EXCEPT ![c] = "closed"]
  /\ reads' = [reads EXCEPT ![c] = @ - 1]
  /\ RemoveClient(c)
  /\ UNCHANGED <<removing, writes>>

\* The header asks for proxy.pac: write it and hang up.
PacRequest(c) ==
  /\ Handler(c, "heading")
  /\ stage' = [stage EXCEPT ![c] = "pac"]
  /\ reads' = [reads EXCEPT ![c] = @ - 1]
  /\ DoWrite(c, FirstChunk)
  /\ UNCHANGED <<clients_map_, removing, is_connected_, answer, is_reading_,
                 stopping, recvVars, send_buffers_, written, implVars,
                 finishing, poolVars, received>>

\* Whether it was written or not; written records relayed chunks only.
PacWritten(c) ==
  /\ Handler(c, "pac")
  /\ stage' = [stage EXCEPT ![c] = "closed"]
  /\ writes' = [writes EXCEPT ![c] = @ - 1]
  /\ RemoveClient(c)
  /\ UNCHANGED <<removing, reads>>

\* Any other header is pushed as tcp_connect and sent, and the header's read
\* is followed by one of the body.
ConnectRequest(c) ==
  /\ Handler(c, "heading")
  /\ stage' = [stage EXCEPT ![c] = "relaying"]
  /\ PushTuple(c, "tcp_connect", TRUE)
  /\ UNCHANGED <<clients_map_, removing, is_connected_, answer, readVars,
                 writeVars, finishing, poolVars, received>>
-----------------------------------------------------------------------------
(* recv(): a frame of the peer, passed in by the host.                     *)

WasHanded(c, type) == \E i \in DOMAIN out[c] : out[c][i].type = type

\* A frame of c of this type is in the queue, its send not completed.
Sending(c, type) ==
  \E i \in Live : impl_send_buffers_[i].sid = c /\ impl_send_buffers_[i].tuple.type = type

\* tcp_connect, the peer's answer, comes once and after the request was handed
\* to the host.  If the id is in the map, set_connected() sets the flag.
RecvAnswer(c) ==
  /\ MapFree /\ answer[c] = "no"
  /\ WasHanded(c, "tcp_connect")
  /\ LateCompletion \/ ~Sending(c, "tcp_connect")
  /\ CloseRaces \/ c \notin clients_map_ \/ ~Sending(c, "tcp_disconnect")
  /\ IF c \in clients_map_
       THEN /\ answer' = [answer EXCEPT ![c] = "setting"]
            /\ is_connected_' = [is_connected_ EXCEPT ![c] = TRUE]
       ELSE /\ answer' = [answer EXCEPT ![c] = "yes"]
            /\ UNCHANGED is_connected_
  /\ UNCHANGED <<clients_map_, stage, removing, readVars, recvVars, writeVars,
                 implVars, finishing, poolVars, received>>

\* Mutant: what waited is left to the next completed send.
SetConnectedSendsNothing(c) ==
  /\ answer[c] = "setting"
  /\ answer' = [answer EXCEPT ![c] = "yes"]
  /\ \/ ClientAddSendBuffer(c, Established, is_connected_[c])
     \/ UNCHANGED <<send_buffers_, write_buffer_, writes>>
  /\ UNCHANGED <<clients_map_, stage, removing, is_connected_, readVars,
                 recvVars, implVars, written, finishing, poolVars, received>>

\* The rest of set_connected(): send the oldest tuple that waits.  Then the
\* payload, if any, goes to the browser.  (No chunk can be in send_buffers_
\* before the answer, so its second block writes nothing.)
SetConnected(c) ==
  /\ answer[c] = "setting"
  /\ answer' = [answer EXCEPT ![c] = "yes"]
  /\ IF recv_buffers_[c] # <<>>
       THEN SendToMainSocket(c, Head(recv_buffers_[c]))
       ELSE UNCHANGED implVars
  /\ \/ ClientAddSendBuffer(c, Established, is_connected_[c])
     \/ UNCHANGED <<send_buffers_, write_buffer_, writes>>
  /\ UNCHANGED <<clients_map_, stage, removing, is_connected_, readVars,
                 recvVars, written, finishing, poolVars, received>>

\* tcp_data, after the answer: the chunk goes to the client if the id is in
\* the map.
RecvData(c) ==
  LET chunk == received[c] + 1
  IN  /\ MapFree /\ answer[c] = "yes"
      /\ received[c] < MaxFrames
      /\ received' = [received EXCEPT ![c] = chunk]
      /\ IF c \in clients_map_
           THEN ClientAddSendBuffer(c, chunk, is_connected_[c])
           ELSE UNCHANGED <<send_buffers_, write_buffer_, writes>>
      /\ UNCHANGED <<clientVars, readVars, recvVars, written, implVars,
                     finishing, poolVars>>

\* tcp_disconnect: the peer could not connect, or its end closed.
RecvDisconnect(c) ==
  /\ WasHanded(c, "tcp_connect")
  /\ RemoveClient(c)
  /\ UNCHANGED <<stage, removing, reads, writes>>

\* The posted remove_self().
RemoveSelf(c) ==
  /\ removing[c]
  /\ removing' = [removing EXCEPT ![c] = FALSE]
  /\ RemoveClient(c)
  /\ UNCHANGED <<stage, reads, writes>>
-----------------------------------------------------------------------------
(* The callbacks of a connection whose header was sent.                    *)

\* Mutant: the flag is not looked at.
ReadChunkUngated(c) ==
  /\ Handler(c, "relaying") /\ reads[c] > 0
  /\ ReadRaces \/ answer[c] # "setting"
  /\ PushTuple(c, "tcp_data", recv_buffers_[c] = <<>>)
  /\ ReadOnUnlessFull(c, Len(recv_buffers_[c]) + 1)
  /\ UNCHANGED <<clientVars, is_reading_, writeVars, finishing, poolVars,
                 received>>

\* A read brings a chunk, before the answer or after: push it, send it if it
\* is alone and the peer has answered.
ReadChunk(c) ==
  /\ Handler(c, "relaying") /\ reads[c] > 0
  /\ ReadRaces \/ answer[c] # "setting"
  /\ PushTuple(c, "tcp_data", recv_buffers_[c] = <<>> /\ is_connected_[c])
  /\ ReadOnUnlessFull(c, Len(recv_buffers_[c]) + 1)
  /\ UNCHANGED <<clientVars, is_reading_, writeVars, finishing, poolVars,
                 received>>

\* The tail of the callback that filled the queue.
StopReading(c) ==
  /\ Running
  /\ ClearReading(c)
  /\ UNCHANGED <<clientVars, reads, recvVars, writeVars, implVars, finishing,
                 poolVars, received>>

\* End of stream or an error on the browser's socket: tcp_disconnect is sent
\* if it is alone, answered or not.
ReadFailed(c) ==
  /\ Handler(c, "relaying") /\ reads[c] > 0
  /\ ReadRaces \/ answer[c] # "setting"
  /\ reads' = [reads EXCEPT ![c] = @ - 1]
  /\ SendDisconnect(c)
  /\ UNCHANGED <<clients_map_, stage, is_connected_, answer, is_reading_,
                 stopping, writeVars, finishing, poolVars, received>>

\* The browser took the chunk.
ChunkWritten(c) ==
  /\ Handler(c, "relaying") /\ writes[c] > 0
  /\ written' = [written EXCEPT ![c] = Append(@, write_buffer_[c])]
  /\ PopAndWriteNext(c)
  /\ UNCHANGED <<clientVars, readVars, recvVars, implVars, finishing,
                 poolVars, received>>

\* The write failed: the chunk stays in the queue, so nothing follows it.
WriteFailed(c) ==
  /\ Handler(c, "relaying") /\ writes[c] > 0
  /\ writes' = [writes EXCEPT ![c] = @ - 1]
  /\ SendDisconnect(c)
  /\ UNCHANGED <<clients_map_, stage, is_connected_, answer, readVars,
                 send_buffers_, write_buffer_, written, finishing, poolVars,
                 received>>
-----------------------------------------------------------------------------
(* The main transport: the host finishes a send and calls send_complete(). *)

HostFinishes ==
  /\ FinishSend
  /\ UNCHANGED <<clientVars, readVars, writeVars, poolVars, received>>

\* First block of send_buffer_finished, under clients_map_mutex_.
SendComplete ==
  LET c == current_sending_user_
  IN  /\ finishing = "called" /\ MapFree
      /\ \/ /\ c \in clients_map_ /\ recv_buffers_[c] # <<>>
            /\ NotifyMainSocketComplete(c, is_connected_[c])
            /\ finishing' = "notified"
            /\ UNCHANGED corrupted
         \/ /\ c \notin clients_map_
            /\ finishing' = "notified"
            /\ UNCHANGED <<recv_buffers_, implVars, is_reading_, reads, corrupted>>
         \/ /\ c \in clients_map_ /\ recv_buffers_[c] = <<>>
            /\ corrupted' = TRUE
            /\ UNCHANGED <<finishing, recv_buffers_, implVars, is_reading_, reads>>
      /\ UNCHANGED <<clientVars, stopping, pushed, writeVars, accepting, pool,
                     received>>

\* Second block.
SendNext ==
  /\ PopFrame
  /\ UNCHANGED <<clientVars, readVars, writeVars, poolVars, received>>

\* io_context::run returns when no operation is outstanding and no handler
\* runs, which takes a failed accept.
PoolExits ==
  /\ Running /\ ~accepting
  /\ \A c \in Sids : reads[c] = 0 /\ writes[c] = 0 /\ ~stopping[c]
  /\ pool' = "exited"
  /\ UNCHANGED <<clientVars, readVars, recvVars, writeVars, implVars,
                 finishing, accepting, corrupted, received>>
-----------------------------------------------------------------------------
Init ==
  /\ InitRelay
  /\ stage = [c \in Sids |-> "none"]
  /\ is_connected_ = [c \in Sids |-> FALSE]
  /\ answer = [c \in Sids |-> "no"]
  /\ accepting = TRUE
  /\ pool = "running"
  /\ corrupted = FALSE

Requesting(c) ==
  HeaderFailed(c) \/ PacRequest(c) \/ PacWritten(c) \/ ConnectRequest(c)

Relaying(c) ==
  \/ ReadChunk(c) /\ pushed[c] <= MaxReads
  \/ StopReading(c)
  \/ ReadFailed(c)
  \/ ChunkWritten(c)
  \/ WriteFailed(c)
  \/ RemoveSelf(c)

Peer(c) ==
  RecvAnswer(c) \/ SetConnected(c) \/ RecvData(c) \/ RecvDisconnect(c)

Next ==
  \/ \E c \in Sids : Accept(c) \/ Requesting(c) \/ Relaying(c) \/ Peer(c)
  \/ AcceptFailed
  \/ HostFinishes
  \/ SendComplete
  \/ SendNext
  \/ PoolExits

Spec == Init /\ [][Next]_vars

(* Fairness.  The host finishes every send and calls back, and a recv() it *)
(* has begun returns: it is one thread.  Browsers and the peer owe nothing.*)
(* Nothing is asked of the pool either.                                    *)
Fairness ==
  /\ WF_vars(HostFinishes \/ SendComplete \/ SendNext)
  /\ WF_vars(\E c \in Sids : SetConnected(c))

FairSpec == Spec /\ Fairness
-----------------------------------------------------------------------------
(* Properties.                                                             *)

\* Every variable has its type.
TypeOK ==
  /\ QueuesTypeOK /\ RelayTypeOK
  /\ clients_map_ \subseteq Sids
  /\ stage \in [Sids -> {"none", "heading", "pac", "relaying", "closed"}]
  /\ is_connected_ \in [Sids -> BOOLEAN]
  /\ answer \in [Sids -> {"no", "setting", "yes"}]
  /\ accepting \in BOOLEAN
  /\ pool \in {"running", "exited"}
  /\ corrupted \in BOOLEAN

\* A client in the map that was answered and has something to send has a
\* frame in the queue, once set_connected() is through.
BacklogIsServed ==
  \A c \in clients_map_ :
    answer[c] = "yes" /\ recv_buffers_[c] # <<>> => InFlight(c)

\* The protocol behind send_ready_ (asserted at lines 163 and 260): a client
\* hands the main transport one tuple at a time, always its oldest, never
\* waits with nothing in flight once it was answered, and never pops an
\* empty queue.
OneInFlight ==
  OneFramePerClient /\ FrameIsFront /\ BacklogIsServed /\ ~corrupted

\* Data goes out only after the peer's answer, and is never the first frame
\* of a connection, however early the browser sends it.
DataWaitsForAnswer ==
  \A c \in Sids : \A i \in DOMAIN out[c] :
    out[c][i].type = "tcp_data" => is_connected_[c] /\ out[c][1].type = "tcp_connect"

\* A tuple pushed for an answered connection is handed to the host in the
\* end unless the connection leaves the map: set_connected() and the chain
\* of completions lose nothing that was read before the answer.  (The first
\* tuple is the request, which was sent at once.)
EveryTupleLeaves ==
  \A c \in Sids : \A n \in 2 .. MaxReads + 1 :
    pushed[c] >= n /\ answer[c] = "yes" ~> Len(out[c]) >= n \/ c \notin clients_map_

\* A connection that was throttled while it waited for the answer, or later,
\* is read again once it is answered and has a backlog, as in ServerManager:
\* the pool goes only when the acceptor has failed.
ReadResumesOnceAnswered ==
  \A c \in Sids :
    ~is_reading_[c] /\ recv_buffers_[c] # <<>> /\ answer[c] = "yes"
      ~> \/ is_reading_[c] /\ reads[c] > 0 /\ pool = "running"
         \/ c \notin clients_map_
         \/ pool = "exited"
=============================================================================
