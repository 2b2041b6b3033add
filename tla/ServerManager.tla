---------------------------- MODULE ServerManager ----------------------------
(***************************************************************************)
(* server_manager (src/sunny_server_manager.cpp): the end of the tunnel    *)
(* that opens the connections to the remote hosts.  One `client` object    *)
(* per socket id relays between its remote socket and the single main      *)
(* transport, which the host program owns:                                 *)
(*                                                                         *)
(*   remote socket --read--> recv_buffers_[c] --+                          *)
(*                                              +--> impl_send_buffers_    *)
(*   remote socket <-write-- send_buffers_[c]       --cb_send_buffer_--> host *)
(*                              ^--- recv(frame) ------------------- host  *)
(*                                                                         *)
(* A step is what one thread does between taking its first mutex and       *)
(* releasing its last one, with the unlocked code that only it can touch.  *)
(* The handlers run on the threads of the pool (io_context::run), recv()   *)
(* and send_complete() on the host's threads, remove_self() on the system  *)
(* executor.                                                               *)
(***************************************************************************)
EXTENDS RelayClient

VARIABLES
  stage,      \* asynchronous operation of on_connect() that is pending
  pool        \* threads of ioc_: none, running, exited

clientVars == <<clients_map_, stage, removing>>
vars == <<clientVars, readVars, recvVars, writeVars, implVars,
          finishing, pool, received>>

\* The HTTP request of a connection that is no CONNECT tunnel.
Request == FirstChunk
-----------------------------------------------------------------------------
(* recv(): a frame of the peer, passed in by the host.                     *)

\* tcp_connect for an id that is not in the map (the code asserts it):
\* create the client, start resolving, and create the pool's threads unless
\* they have been created before.
RecvConnect(c) ==
  /\ c \notin clients_map_ /\ stage[c] = "none"
  /\ clients_map_' = clients_map_ \cup {c}
  /\ stage' = [stage EXCEPT ![c] = "resolving"]
  /\ pool' = IF pool = "none" THEN "running" ELSE pool
  /\ UNCHANGED <<removing, readVars, recvVars, writeVars, implVars, finishing,
                 received>>

\* tcp_data: the chunk goes to the client if the id is in the map.  The peer
\* relays data only on a connection whose tcp_connect was answered.
RecvData(c) ==
  LET chunk == received[c] + 1
  IN  /\ received[c] < MaxFrames
      /\ \E i \in DOMAIN out[c] : out[c][i].type = "tcp_connect"
      /\ received' = [received EXCEPT ![c] = chunk]
      /\ IF c \in clients_map_
           THEN ClientAddSendBuffer(c, chunk, TRUE)
           ELSE UNCHANGED <<send_buffers_, write_buffer_, writes>>
      /\ UNCHANGED <<clientVars, readVars, recvVars, written, implVars,
                     finishing, pool>>

\* impl::remove_client.  An object with an operation pending outlives its
\* entry: the handler holds a reference.  Without one it is destroyed, and its
\* recv_buffers_ stay here only as history: nothing takes from them any more.
RemoveClient(c) ==
  /\ clients_map_' = clients_map_ \ {c}
  /\ UNCHANGED <<stage, readVars, recvVars, writeVars, implVars, finishing,
                 pool, received>>

\* tcp_disconnect.
RecvDisconnect(c) ==
  /\ stage[c] # "none"
  /\ RemoveClient(c)
  /\ UNCHANGED removing

\* The posted remove_self().
RemoveSelf(c) ==
  /\ removing[c]
  /\ removing' = [removing EXCEPT ![c] = FALSE]
  /\ RemoveClient(c)
-----------------------------------------------------------------------------
(* on_connect(): resolve, connect, write the request, answer the peer.     *)

Handler(c, s) == pool = "running" /\ stage[c] = s

\* Mutant: a failure is not reported to the peer.
ConnectFailedSilently(c) ==
  /\ \/ /\ Handler(c, "resolving") \/ Handler(c, "connecting")
        /\ UNCHANGED writes
     \/ /\ Handler(c, "requesting")
        /\ writes' = [writes EXCEPT ![c] = @ - 1]
  /\ stage' = [stage EXCEPT ![c] = "done"]
  /\ UNCHANGED <<clients_map_, removing, readVars, recvVars, send_buffers_,
                 write_buffer_, written, implVars, finishing, pool, received>>

\* The resolve, connect or request write failed.
ConnectFailed(c) ==
  /\ \/ /\ Handler(c, "resolving") \/ Handler(c, "connecting")
        /\ UNCHANGED writes
     \/ /\ Handler(c, "requesting")
        /\ writes' = [writes EXCEPT ![c] = @ - 1]
  /\ stage' = [stage EXCEPT ![c] = "done"]
  /\ SendDisconnect(c)
  /\ UNCHANGED <<clients_map_, readVars, send_buffers_, write_buffer_, written,
                 finishing, pool, received>>

Resolved(c) ==
  /\ Handler(c, "resolving")
  /\ stage' = [stage EXCEPT ![c] = "connecting"]
  /\ UNCHANGED <<clients_map_, removing, readVars, recvVars, writeVars,
                 implVars, finishing, pool, received>>

\* Push the tcp_connect answer, send it whatever the queue holds, read.
Answer(c) ==
  /\ stage' = [stage EXCEPT ![c] = "done"]
  /\ PushTuple(c, "tcp_connect", TRUE)
  /\ ReadSome(c)
  /\ UNCHANGED <<clients_map_, removing, is_reading_, stopping, send_buffers_,
                 write_buffer_, finishing, pool, received>>

\* The socket is connected and the request was CONNECT.
TunnelConnected(c) ==
  /\ Handler(c, "connecting")
  /\ Answer(c)
  /\ UNCHANGED <<writes, written>>

\* The socket is connected: forward the request before answering.
ForwardRequest(c) ==
  /\ Handler(c, "connecting")
  /\ stage' = [stage EXCEPT ![c] = "requesting"]
  /\ DoWrite(c, Request)
  /\ UNCHANGED <<clients_map_, removing, readVars, recvVars, send_buffers_,
                 written, implVars, finishing, pool, received>>

RequestWritten(c) ==
  /\ Handler(c, "requesting")
  /\ writes' = [writes EXCEPT ![c] = @ - 1]
  /\ written' = [written EXCEPT ![c] = Append(@, write_buffer_[c])]
  /\ Answer(c)
-----------------------------------------------------------------------------
(* The callbacks of an answered connection.                                *)

\* A read brings a chunk: push it, send it if it is alone.
ReadChunk(c) ==
  /\ pool = "running" /\ reads[c] > 0
  /\ PushTuple(c, "tcp_data", recv_buffers_[c] = <<>>)
  /\ ReadOnUnlessFull(c, Len(recv_buffers_[c]) + 1)
  /\ UNCHANGED <<clientVars, is_reading_, writeVars, finishing, pool, received>>

\* The tail of the callback that filled the queue.
StopReading(c) ==
  /\ pool = "running"
  /\ ClearReading(c)
  /\ UNCHANGED <<clientVars, reads, recvVars, writeVars, implVars, finishing,
                 pool, received>>

\* End of stream or an error on the remote socket.
ReadFailed(c) ==
  /\ pool = "running" /\ reads[c] > 0
  /\ reads' = [reads EXCEPT ![c] = @ - 1]
  /\ SendDisconnect(c)
  /\ UNCHANGED <<clients_map_, stage, is_reading_, stopping, writeVars,
                 finishing, pool, received>>

\* The remote took the chunk.
ChunkWritten(c) ==
  /\ Handler(c, "done") /\ writes[c] > 0
  /\ written' = [written EXCEPT ![c] = Append(@, write_buffer_[c])]
  /\ PopAndWriteNext(c)
  /\ UNCHANGED <<clientVars, readVars, recvVars, implVars, finishing, pool,
                 received>>

\* The write failed: the chunk stays in the queue, so nothing follows it.
WriteFailed(c) ==
  /\ Handler(c, "done") /\ writes[c] > 0
  /\ writes' = [writes EXCEPT ![c] = @ - 1]
  /\ SendDisconnect(c)
  /\ UNCHANGED <<clients_map_, stage, readVars, send_buffers_, write_buffer_,
                 written, finishing, pool, received>>
-----------------------------------------------------------------------------
(* The main transport: the host finishes a send and calls send_complete(). *)

HostFinishes ==
  /\ FinishSend
  /\ UNCHANGED <<clientVars, readVars, writeVars, pool, received>>

\* First block of send_buffer_finished, under clients_map_mutex_.
SendComplete ==
  /\ finishing = "called"
  /\ finishing' = "notified"
  /\ IF current_sending_user_ \in clients_map_
       THEN NotifyMainSocketComplete(current_sending_user_, TRUE)
       ELSE UNCHANGED <<recv_buffers_, implVars, is_reading_, reads>>
  /\ UNCHANGED <<clientVars, stopping, pushed, writeVars, pool, received>>

\* Second block.
SendNext ==
  /\ PopFrame
  /\ UNCHANGED <<clientVars, readVars, writeVars, pool, received>>
-----------------------------------------------------------------------------
(* The pool.  io_context::run returns on every thread when no operation is *)
(* outstanding and no handler runs; nothing restarts it.                   *)

HasWork(c) ==
  stage[c] \in {"resolving", "connecting"} \/ reads[c] > 0 \/ writes[c] > 0 \/ stopping[c]

PoolExits ==
  /\ pool = "running"
  /\ \A c \in Sids : ~HasWork(c)
  /\ pool' = "exited"
  /\ UNCHANGED <<clientVars, readVars, recvVars, writeVars, implVars, finishing,
                 received>>
-----------------------------------------------------------------------------
Init ==
  /\ InitRelay
  /\ stage = [c \in Sids |-> "none"]
  /\ pool = "none"

Connecting(c) ==
  \/ Resolved(c)
  \/ TunnelConnected(c)
  \/ ForwardRequest(c)
  \/ RequestWritten(c)
  \/ ConnectFailed(c)

Relaying(c) ==
  \/ ReadChunk(c) /\ pushed[c] <= MaxReads
  \/ StopReading(c)
  \/ ReadFailed(c)
  \/ ChunkWritten(c)
  \/ WriteFailed(c)
  \/ RemoveSelf(c)

Peer(c) == RecvConnect(c) \/ RecvData(c) \/ RecvDisconnect(c)

Next ==
  \/ \E c \in Sids : Connecting(c) \/ Relaying(c) \/ Peer(c)
  \/ HostFinishes
  \/ SendComplete
  \/ SendNext
  \/ PoolExits

Spec == Init /\ [][Next]_vars

(* Fairness.  The host, one thread, finishes every send and calls back;    *)
(* resolving, connecting and writing the request end or time out.  A remote*)
(* host need not send or accept anything, and the peer need not send any   *)
(* frame.                                                                  *)
Fairness ==
  /\ WF_vars(HostFinishes \/ SendComplete \/ SendNext)
  /\ \A c \in Sids : WF_vars(Connecting(c))

FairSpec == Spec /\ Fairness
-----------------------------------------------------------------------------
(* Properties.                                                             *)

SocketsTypeOK ==
  /\ RelayTypeOK
  /\ stage \in [Sids -> {"none", "resolving", "connecting", "requesting", "done"}]
  /\ pool \in {"none", "running", "exited"}

\* Every variable has its type; tuples are numbered from 1, and a socket
\* counts its outstanding operations.
TypeOK == clients_map_ \subseteq Sids /\ QueuesTypeOK /\ SocketsTypeOK

\* A client in the map that has something to send has a frame in the queue.
BacklogIsServed ==
  \A c \in clients_map_ :
    recv_buffers_[c] # <<>> => InFlight(c)

\* The protocol behind send_ready_ (asserted at lines 131 and 210): a client
\* hands the main transport one tuple at a time, always its oldest, never
\* waits with nothing in flight, and so never pops an empty queue; whatever
\* removal, throttling and the two blocks of send_complete() interleave.
OneInFlight == OneFramePerClient /\ FrameIsFront /\ BacklogIsServed

\* What the peer is sent for a connection: its answer before any data, the
\* answer once, and nothing but tcp_disconnect if there was no answer.
AnswerFirst ==
  \A c \in Sids : \A i \in DOMAIN out[c] :
    LET type == out[c][i].type
    IN  /\ type = "tcp_connect" => i = 1
        /\ type = "tcp_data" => i > 1 /\ out[c][1].type = "tcp_connect"

\* A tuple pushed for a connection is handed to the host in the end unless
\* the connection leaves the map: the chain of completions never breaks.
EveryTupleLeaves ==
  \A c \in Sids : \A n \in 1 .. MaxReads + 1 :
    pushed[c] >= n ~> Len(out[c]) >= n \/ c \notin clients_map_

\* A throttled connection with a backlog is read again: a read is started and
\* a thread is there to run its callback.  Not so when the threads have found
\* no work while it was throttled and have gone; and a flag that is cleared
\* when the backlog has already gone (all of it completed between the
\* callback's unlock and its `is_reading_ = false`) has nothing to re-arm it.
ReadResumes ==
  \A c \in Sids :
    ~is_reading_[c] /\ recv_buffers_[c] # <<>>
      ~> \/ is_reading_[c] /\ reads[c] > 0 /\ pool = "running"
         \/ c \notin clients_map_
         \/ pool = "exited"

\* A connection that starts while the pool runs is answered, with
\* tcp_connect or tcp_disconnect, even if the peer drops it meanwhile.
AnswerArrives ==
  \A c \in Sids :
    stage[c] = "resolving" /\ pool = "running" ~> out[c] # <<>>

\* on_connect() keeps the resolver alive "before the callback" (line 111):
\* the callback of a started resolution runs.
ResolverCallbackRuns ==
  \A c \in Sids : stage[c] = "resolving" ~> stage[c] # "resolving"
=============================================================================
