---------------------------- MODULE MainTransport ----------------------------
(***************************************************************************)
(* The sending half of the two managers, which is the same code in         *)
(* src/sunny_client_manager.cpp and src/sunny_server_manager.cpp: every    *)
(* client object keeps the tuples it has to send in recv_buffers_ and puts *)
(* one frame at a time on impl::send_buffers_, the queue in front of the   *)
(* single main transport; the host program sends the frame at its head and *)
(* reports the end of the send with send_complete().  The managers say     *)
(* when tuples are pushed and when the next one may follow.                *)
(***************************************************************************)
EXTENDS Naturals, Sequences

CONSTANT Sids   \* socket ids of the connections

ASSUME SidsAssumption == Sids # {}

VARIABLES
  recv_buffers_,          \* per client, tuples to be sent to the peer
  pushed,                 \* history: tuples ever pushed on recv_buffers_
  impl_send_buffers_,     \* impl::send_buffers_: frames for the main transport
  current_sending_user_,
  outstanding,            \* calls of cb_send_buffer_ the host has not finished
  out,                    \* history: tuples given to the host, in order
  finishing               \* progress of send_complete(): no, called, notified

recvVars == <<recv_buffers_, pushed>>
implVars == <<impl_send_buffers_, current_sending_user_, outstanding, out>>

FrameTypes == {"tcp_connect", "tcp_disconnect", "tcp_data"}

\* What recv_buffers_ holds; n numbers the pushes of one connection.
Tuples == [type : FrameTypes, n : Nat \ {0}]

\* What send_to_main_socket() builds: the header's sid and the tuple.
Frames == [sid : Sids, tuple : Tuples]
-----------------------------------------------------------------------------
\* cb_send_buffer_ called with the frame at the head of the queue.
CallSend(frame) ==
  /\ current_sending_user_' = frame.sid
  /\ outstanding' = outstanding + 1
  /\ out' = [out EXCEPT ![frame.sid] = Append(@, frame.tuple)]

\* Mutant: every frame is sent at once.
AddSendBufferAlwaysSends(frame) ==
  /\ impl_send_buffers_' = Append(impl_send_buffers_, frame)
  /\ CallSend(frame)

\* impl::add_send_buffer: only the frame that makes the queue non-empty is
\* sent at once.
AddSendBuffer(frame) ==
  /\ impl_send_buffers_' = Append(impl_send_buffers_, frame)
  /\ IF impl_send_buffers_ = <<>>
       THEN CallSend(frame)
       ELSE UNCHANGED <<current_sending_user_, outstanding, out>>

SendToMainSocket(c, t) == AddSendBuffer([sid |-> c, tuple |-> t])

\* Mutant: the number of the push before.
PushTupleStaleNumber(c, type, now) ==
  LET t == [type |-> type, n |-> pushed[c]]
  IN  /\ recv_buffers_' = [recv_buffers_ EXCEPT ![c] = Append(@, t)]
      /\ pushed' = [pushed EXCEPT ![c] = @ + 1]
      /\ IF now THEN SendToMainSocket(c, t) ELSE UNCHANGED implVars

\* Push a tuple of the given type and, if now holds, send it as well.
PushTuple(c, type, now) ==
  LET t == [type |-> type, n |-> pushed[c] + 1]
  IN  /\ recv_buffers_' = [recv_buffers_ EXCEPT ![c] = Append(@, t)]
      /\ pushed' = [pushed EXCEPT ![c] = t.n]
      /\ IF now THEN SendToMainSocket(c, t) ELSE UNCHANGED implVars

\* Mutant: the newest tuple follows.
PopTupleSendsBack(c, open) ==
  LET rest == Tail(recv_buffers_[c])
  IN  /\ recv_buffers_' = [recv_buffers_ EXCEPT ![c] = rest]
      /\ IF rest # <<>> /\ open
           THEN SendToMainSocket(c, rest[Len(rest)])
           ELSE UNCHANGED implVars

\* Mutant: the tuple that was sent is not popped.
PopTupleForgotten(c, open) ==
  /\ UNCHANGED recv_buffers_
  /\ IF recv_buffers_[c] # <<>> /\ open
       THEN SendToMainSocket(c, Head(recv_buffers_[c]))
       ELSE UNCHANGED implVars

\* notify_main_socket_complete up to reading: pop the tuple that was sent
\* and, if open holds, send the oldest of those that are left.
PopTuple(c, open) ==
  LET rest == Tail(recv_buffers_[c])
  IN  /\ recv_buffers_' = [recv_buffers_ EXCEPT ![c] = rest]
      /\ IF rest # <<>> /\ open
           THEN SendToMainSocket(c, Head(rest))
           ELSE UNCHANGED implVars

\* The host has sent the frame it was given and calls send_complete().
FinishSend ==
  /\ outstanding > 0 /\ finishing = "no"
  /\ outstanding' = outstanding - 1
  /\ finishing' = "called"
  /\ UNCHANGED <<recvVars, impl_send_buffers_, current_sending_user_, out>>

\* Mutant: pop, and leave the next frame to the next add_send_buffer().
PopFrameOnly ==
  /\ finishing = "notified"
  /\ finishing' = "no"
  /\ impl_send_buffers_' = Tail(impl_send_buffers_)
  /\ UNCHANGED <<recvVars, current_sending_user_, outstanding, out>>

\* Second block of send_buffer_finished, under send_buffers_mutex_: pop the
\* frame that was sent, send the next one.
PopFrame ==
  /\ finishing = "notified"
  /\ finishing' = "no"
  /\ impl_send_buffers_' = Tail(impl_send_buffers_)
  /\ IF impl_send_buffers_' # <<>>
       THEN CallSend(Head(impl_send_buffers_'))
       ELSE UNCHANGED <<current_sending_user_, outstanding, out>>
  /\ UNCHANGED recvVars

InitTransport ==
  /\ recv_buffers_ = [c \in Sids |-> <<>>]
  /\ pushed = [c \in Sids |-> 0]
  /\ impl_send_buffers_ = <<>>
  /\ current_sending_user_ \in Sids       \* not initialised by the code
  /\ outstanding = 0
  /\ out = [c \in Sids |-> <<>>]
  /\ finishing = "no"
-----------------------------------------------------------------------------
QueuesTypeOK ==
  /\ recv_buffers_ \in [Sids -> Seq(Tuples)]
  /\ pushed \in [Sids -> Nat]
  /\ impl_send_buffers_ \in Seq(Frames)
  /\ current_sending_user_ \in Sids
  /\ outstanding \in Nat
  /\ out \in [Sids -> Seq(Tuples)]
  /\ finishing \in {"no", "called", "notified"}

\* Positions of impl_send_buffers_ whose frame is not finished for its
\* client: all of them, but the first while send_complete() has notified the
\* client and not yet popped the frame.
FirstLive == IF finishing = "notified" THEN 2 ELSE 1
Live == FirstLive .. Len(impl_send_buffers_)

\* A client never has two frames in the main transport's queue: what
\* send_to_main_socket() asserts with send_ready_.
OneFramePerClient ==
  \A i, j \in Live :
    impl_send_buffers_[i].sid = impl_send_buffers_[j].sid => i = j

\* A frame in the queue carries the tuple at the head of its client's queue,
\* which notify_main_socket_complete() will pop.
FrameIsFront ==
  \A i \in Live :
    LET f == impl_send_buffers_[i]
    IN  /\ recv_buffers_[f.sid] # <<>>
        /\ f.tuple = Head(recv_buffers_[f.sid])

InFlight(c) == \E i \in Live : impl_send_buffers_[i].sid = c

\* cb_send_buffer_ is called again only when the host has finished the send
\* before; a send is in progress exactly when the queue is not empty, and
\* current_sending_user_, which send_complete() trusts, is the client at its
\* head.
SingleSend ==
  /\ outstanding + (IF finishing = "no" THEN 0 ELSE 1)
       = (IF impl_send_buffers_ = <<>> THEN 0 ELSE 1)
  /\ impl_send_buffers_ # <<>> =>
       current_sending_user_ = Head(impl_send_buffers_).sid

\* Refinement: the tuples a connection pushes reach the host's callback in
\* order, none twice and none skipped (FrameStream).
Stream == INSTANCE FrameStream WITH
  produced <- pushed,
  handed   <- [c \in Sids |-> [i \in DOMAIN out[c] |-> out[c][i].n]]
FramesInOrder == Stream!Spec
=============================================================================
