-------------------------------- MODULE Proxy --------------------------------
(***************************************************************************)
(* The whole proxy: client_manager and server_manager, and between them    *)
(* the main transport of the demo hosts, one TCP connection                *)
(* (demo/client.cpp, demo/server.cpp).  A frame one manager gives to its   *)
(* host arrives at the other's recv(), in order.  (The order of frames of  *)
(* different connections is not kept here: no code depends on it.)  The    *)
(* recv() of the server may refuse a tcp_connect, for its length; its host *)
(* does not look at the result.  What ClientManager and ServerManager      *)
(* assume about their peer is here what the other one does                 *)
(* (PeerKeepsToProtocol).                                                  *)
(***************************************************************************)
EXTENDS Naturals, Sequences

CONSTANTS
  Sids,       \* socket ids of the connections
  QueueMax,   \* queue_max_num
  MaxPushes,  \* bound: a chunk is read from the sockets of a connection while
              \* its two ends have pushed no more tuples than this
  ReadRaces, CloseRaces, LateCompletion   \* as in ClientManager

ASSUME ProxyAssumption ==
  /\ Sids # {}
  /\ QueueMax \in Nat /\ QueueMax > 1
  /\ MaxPushes \in Nat
  /\ {ReadRaces, CloseRaces, LateCompletion} \subseteq BOOLEAN

VARIABLES   \* of client_manager; the names are those of ClientManager
  c_recv_buffers_, c_pushed, c_impl_send_buffers_, c_current_sending_user_,
  c_outstanding, c_out, c_finishing, c_clients_map_, c_removing, c_is_reading_,
  c_reads, c_stopping, c_send_buffers_, c_write_buffer_, c_writes, c_received,
  c_written, c_stage, c_is_connected_, c_answer, c_accepting, c_pool,
  c_corrupted

VARIABLES   \* of server_manager; the names are those of ServerManager
  s_recv_buffers_, s_pushed, s_impl_send_buffers_, s_current_sending_user_,
  s_outstanding, s_out, s_finishing, s_clients_map_, s_removing, s_is_reading_,
  s_reads, s_stopping, s_send_buffers_, s_write_buffer_, s_writes, s_received,
  s_written, s_stage, s_pool

VARIABLES
  toServer,   \* per connection, how many frames of c_out have arrived
  refused,    \* connections whose tcp_connect the server's recv() refused
  toClient,   \* per connection, how many frames of s_out have arrived
  dataToServer,   \* history: the numbers of those that were tcp_data, in order
  dataToClient    \* the same at the client

C == INSTANCE ClientManager WITH
  MaxReads <- MaxPushes + 1, MaxFrames <- MaxPushes + 1,
  recv_buffers_ <- c_recv_buffers_, pushed <- c_pushed,
  impl_send_buffers_ <- c_impl_send_buffers_,
  current_sending_user_ <- c_current_sending_user_,
  outstanding <- c_outstanding, out <- c_out, finishing <- c_finishing,
  clients_map_ <- c_clients_map_, removing <- c_removing,
  is_reading_ <- c_is_reading_, reads <- c_reads, stopping <- c_stopping,
  send_buffers_ <- c_send_buffers_, write_buffer_ <- c_write_buffer_,
  writes <- c_writes, received <- c_received, written <- c_written,
  stage <- c_stage, is_connected_ <- c_is_connected_, answer <- c_answer,
  accepting <- c_accepting, pool <- c_pool, corrupted <- c_corrupted

S == INSTANCE ServerManager WITH
  MaxReads <- MaxPushes + 1, MaxFrames <- MaxPushes + 1,
  recv_buffers_ <- s_recv_buffers_, pushed <- s_pushed,
  impl_send_buffers_ <- s_impl_send_buffers_,
  current_sending_user_ <- s_current_sending_user_,
  outstanding <- s_outstanding, out <- s_out, finishing <- s_finishing,
  clients_map_ <- s_clients_map_, removing <- s_removing,
  is_reading_ <- s_is_reading_, reads <- s_reads, stopping <- s_stopping,
  send_buffers_ <- s_send_buffers_, write_buffer_ <- s_write_buffer_,
  writes <- s_writes, received <- s_received, written <- s_written,
  stage <- s_stage, pool <- s_pool

clientVars == <<c_recv_buffers_, c_pushed, c_impl_send_buffers_,
  c_current_sending_user_, c_outstanding, c_out, c_finishing, c_clients_map_,
  c_removing, c_is_reading_, c_reads, c_stopping, c_send_buffers_,
  c_write_buffer_, c_writes, c_received, c_written, c_stage, c_is_connected_,
  c_answer, c_accepting, c_pool, c_corrupted>>
serverVars == <<s_recv_buffers_, s_pushed, s_impl_send_buffers_,
  s_current_sending_user_, s_outstanding, s_out, s_finishing, s_clients_map_,
  s_removing, s_is_reading_, s_reads, s_stopping, s_send_buffers_,
  s_write_buffer_, s_writes, s_received, s_written, s_stage, s_pool>>
wire == <<toServer, refused, toClient, dataToServer, dataToClient>>
vars == <<clientVars, serverVars, wire>>

\* None of the races of set_connected() meets this proxy.
Quiet == ~ReadRaces /\ ~CloseRaces /\ ~LateCompletion
-----------------------------------------------------------------------------
(* The hosts: each reads the frames of the other and passes them to recv(). *)

\* The numbers of the tcp_data frames when the tuple t has arrived as well.
WithData(numbers, t) == IF t.type = "tcp_data" THEN Append(numbers, t.n) ELSE numbers

\* recv() returns false for a request that is too long, or whose header the
\* server reads in another byte order (see Request): nothing is done for it.
Refuse(c) == refused' = refused \cup {c} /\ UNCHANGED serverVars

\* remove_client() of an id that is not in the map, and never was.
NothingToRemove(c) == c \in refused /\ UNCHANGED serverVars

\* The next frame of c for the server.
ToServer(c) ==
  LET t == c_out[c][toServer[c] + 1]
  IN  /\ toServer[c] < Len(c_out[c])
      /\ \/ t.type = "tcp_connect" /\ Refuse(c)
         \/ /\ \/ t.type = "tcp_connect" /\ S!RecvConnect(c)
               \/ t.type = "tcp_data" /\ S!RecvData(c)
               \/ t.type = "tcp_disconnect" /\ (S!RecvDisconnect(c) \/ NothingToRemove(c))
            /\ UNCHANGED refused
      /\ toServer' = [toServer EXCEPT ![c] = @ + 1]
      /\ dataToServer' = [dataToServer EXCEPT ![c] = WithData(@, t)]
      /\ UNCHANGED <<clientVars, toClient, dataToClient>>

\* The next frame of c for the client.
ToClient(c) ==
  LET t == s_out[c][toClient[c] + 1]
  IN  /\ toClient[c] < Len(s_out[c])
      /\ \/ t.type = "tcp_connect" /\ C!RecvAnswer(c)
         \/ t.type = "tcp_data" /\ C!RecvData(c)
         \/ t.type = "tcp_disconnect" /\ C!RecvDisconnect(c)
      /\ toClient' = [toClient EXCEPT ![c] = @ + 1]
      /\ dataToClient' = [dataToClient EXCEPT ![c] = WithData(@, t)]
      /\ UNCHANGED <<serverVars, toServer, refused, dataToServer>>

\* The header of c was written to the remote host: it was no CONNECT, and the
\* answer has no payload.
Forwarded(c) == s_written[c] # <<>> /\ Head(s_written[c]) = S!Request

\* recv() of the answer goes on.
AnswerTaken(c) ==
  /\ C!SetConnected(c)
  /\ Forwarded(c) <=> c_send_buffers_' = c_send_buffers_

MayRead(c) == c_pushed[c] + s_pushed[c] <= MaxPushes
-----------------------------------------------------------------------------
(* Everything else the two managers do.  The client's acceptor does not    *)
(* fail here (ClientManager has that).                                     *)

ClientStep(c) ==
  \/ C!Accept(c)
  \/ C!Requesting(c)
  \/ C!ReadChunk(c) /\ MayRead(c)
  \/ C!StopReading(c)
  \/ C!ReadFailed(c)
  \/ C!ChunkWritten(c)
  \/ C!WriteFailed(c)
  \/ C!RemoveSelf(c)
  \/ AnswerTaken(c)

ClientSide ==
  /\ \/ \E c \in Sids : ClientStep(c)
     \/ C!HostFinishes
     \/ C!SendComplete
     \/ C!SendNext
  /\ UNCHANGED <<serverVars, wire>>

ServerStep(c) ==
  \/ S!Connecting(c)
  \/ S!ReadChunk(c) /\ MayRead(c)
  \/ S!StopReading(c)
  \/ S!ReadFailed(c)
  \/ S!ChunkWritten(c)
  \/ S!WriteFailed(c)
  \/ S!RemoveSelf(c)

ServerSide ==
  /\ \/ \E c \in Sids : ServerStep(c)
     \/ S!HostFinishes
     \/ S!SendComplete
     \/ S!SendNext
     \/ S!PoolExits
  /\ UNCHANGED <<clientVars, wire>>

Init ==
  /\ C!Init /\ S!Init
  /\ toServer = [c \in Sids |-> 0] /\ refused = {}
  /\ toClient = [c \in Sids |-> 0]
  /\ dataToServer = [c \in Sids |-> <<>>]
  /\ dataToClient = [c \in Sids |-> <<>>]

Next ==
  \/ ClientSide
  \/ ServerSide
  \/ \E c \in Sids : ToServer(c) \/ ToClient(c)

Spec == Init /\ [][Next]_vars
-----------------------------------------------------------------------------
(* Properties.                                                             *)

\* What each manager takes for granted, the other does: the next frame on the
\* wire is one that recv() can meet.  The server gets a tcp_connect only for
\* an id it does not know (asserted at server_manager.cpp:411), data only
\* after it answered, never for an id it refused, and a tcp_disconnect only
\* for one it took or refused; the client gets one answer, to a request it
\* sent, and data only after it.
PeerKeepsToProtocol ==
  \A c \in Sids :
    /\ toServer[c] < Len(c_out[c]) =>
         LET type == c_out[c][toServer[c] + 1].type
         IN  /\ type = "tcp_connect" => c \notin s_clients_map_ /\ s_stage[c] = "none"
             /\ type = "tcp_data" => C!WasHanded(c, "tcp_connect") /\ c_answer[c] # "no"
             /\ type = "tcp_disconnect" => s_stage[c] # "none" \/ c \in refused
    /\ toClient[c] < Len(s_out[c]) =>
         LET type == s_out[c][toClient[c] + 1].type
         IN  /\ type = "tcp_connect" => c_answer[c] = "no" /\ C!WasHanded(c, "tcp_connect")
             /\ type = "tcp_data" => c_answer[c] # "no"

\* The numbers, among the pushes that follow the first one, of the chunks one
\* end has written that came as data, 0 for one that did not; the chunk that
\* precedes the data, if it was written, is left out.
Payload(chunks, numbers) ==
  LET base == IF chunks # <<>> /\ chunks[1] = 0 THEN 1 ELSE 0
  IN  [i \in 1 .. Len(chunks) - base |->
         LET k == chunks[i + base]
         IN  IF k \in DOMAIN numbers THEN numbers[k] - 1 ELSE 0]

AfterFirst(n) == IF n = 0 THEN 0 ELSE n - 1

\* Refinement, end to end: what the remote host gets is what was read from
\* the browser, in order, none twice and none left out, through both queues
\* of the client, the wire and the queue of the server.  None is written
\* twice only as long as no read callback runs inside set_connected()
\* (ReadRaces): where one does the chunk is sent twice (OneFramePerClient,
\* in the run client_answer).
Upstream == INSTANCE FrameStream WITH
  produced <- [c \in Sids |-> AfterFirst(c_pushed[c])],
  handed   <- [c \in Sids |-> Payload(s_written[c], dataToServer[c])]
UpstreamInOrder == Upstream!Spec

\* The same from the remote host to the browser.
Downstream == INSTANCE FrameStream WITH
  produced <- [c \in Sids |-> AfterFirst(s_pushed[c])],
  handed   <- [c \in Sids |-> Payload(c_written[c], dataToClient[c])]
DownstreamInOrder == Downstream!Spec

\* No thread is left to run the callback of the resolver.
Stuck(c) == s_stage[c] = "resolving" /\ s_pool = "exited"

\* Nothing is left to do but for browsers and remote hosts: every send is
\* reported, every frame delivered, every connecting ended unless it is stuck,
\* every posted remove_self() run.
Settled ==
  /\ c_outstanding = 0 /\ c_finishing = "no" /\ s_outstanding = 0 /\ s_finishing = "no"
  /\ \A c \in Sids :
       /\ toServer[c] = Len(c_out[c]) /\ toClient[c] = Len(s_out[c])
       /\ ~c_removing[c] /\ ~s_removing[c] /\ c_answer[c] # "setting"
       /\ ~c_stopping[c] /\ ~s_stopping[c]
       /\ s_stage[c] \in {"none", "done"} \/ Stuck(c)

\* A browser whose request was read has been answered or its connection
\* dropped once the proxy has settled, however the connecting ended and
\* whatever the browser sent meanwhile, but for two: those whose request the
\* server refused, and those whose host's name is never resolved.  And then
\* nothing waits for the peer at either end of a connection that is in the
\* map, but for what such browsers sent.
NobodyIsForgotten ==
  Settled =>
    \A c \in Sids :
      /\ c_stage[c] = "relaying" =>
           c_answer[c] = "yes" \/ c \notin c_clients_map_ \/ c \in refused \/ Stuck(c)
      /\ c \in c_clients_map_ /\ c_answer[c] = "yes" => c_recv_buffers_[c] = <<>>
      /\ c \in s_clients_map_ => s_recv_buffers_[c] = <<>>

Closing(tuples) == \E i \in DOMAIN tuples : tuples[i].type = "tcp_disconnect"

\* Once the proxy has settled both ends have a connection or neither has,
\* unless the server refused it, or the end that has dropped it never sent its
\* tcp_disconnect: that one waited behind other tuples, and send_complete() no
\* longer found the client when its turn came.
ClosesTogether ==
  Settled =>
    \A c \in Sids :
      c_stage[c] = "relaying" =>
        \/ c \in c_clients_map_ <=> c \in s_clients_map_
        \/ c \in refused
        \/ c \notin c_clients_map_ /\ Closing(c_recv_buffers_[c]) /\ ~Closing(c_out[c])
        \/ c \notin s_clients_map_ /\ Closing(s_recv_buffers_[c]) /\ ~Closing(s_out[c])
=============================================================================
