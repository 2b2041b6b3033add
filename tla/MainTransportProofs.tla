------------------------- MODULE MainTransportProofs -------------------------
(***************************************************************************)
(* Lemmas about the operators of MainTransport, for the proofs about the   *)
(* managers: TransportInv relates the queue of each client, the queue in   *)
(* front of the main transport and what was handed to the host, and every  *)
(* operator keeps it when it is called as the managers call it.            *)
(***************************************************************************)
EXTENDS MainTransport, TLAPS

\* The tuples waiting in a client's queue are the last ones pushed.
Numbered ==
  \A c \in Sids : \A i \in DOMAIN recv_buffers_[c] :
    recv_buffers_[c][i].n = pushed[c] - Len(recv_buffers_[c]) + i

\* What was handed over is 1, 2, ... and, when nothing waits, all of it.
HandedInOrder ==
  \A c \in Sids :
    /\ \A i \in DOMAIN out[c] : out[c][i].n = i
    /\ recv_buffers_[c] = <<>> => Len(out[c]) = pushed[c]

\* Of the frames in the queue exactly the first has been handed over.
LiveHanded ==
  \A i \in Live :
    LET f == impl_send_buffers_[i]
    IN  Len(out[f.sid]) = IF i = 1 THEN f.tuple.n ELSE f.tuple.n - 1

TransportInv ==
  /\ QueuesTypeOK
  /\ SingleSend
  /\ OneFramePerClient
  /\ FrameIsFront
  /\ Numbered
  /\ HandedInOrder
  /\ LiveHanded
-----------------------------------------------------------------------------
\* Calling cb_send_buffer_ keeps the types.
LEMMA CallSendTypes ==
  ASSUME QueuesTypeOK, NEW f \in Frames, CallSend(f)
  PROVE  /\ current_sending_user_' \in Sids
         /\ outstanding' = outstanding + 1
         /\ out' \in [Sids -> Seq(Tuples)]
  BY DEF QueuesTypeOK, Frames, CallSend

\* The frames at the live positions are frames.
LEMMA LiveFrames ==
  ASSUME QueuesTypeOK
  PROVE  \A i \in Live : /\ i \in DOMAIN impl_send_buffers_
                         /\ impl_send_buffers_[i] \in Frames
                         /\ impl_send_buffers_[i].sid \in Sids
                         /\ impl_send_buffers_[i].tuple \in Tuples
<1>1. impl_send_buffers_ \in Seq(Frames)
  BY DEF QueuesTypeOK
<1>2. \A i \in Live : i \in DOMAIN impl_send_buffers_
  BY <1>1 DEF Live, FirstLive
<1>3. \A f \in Frames : f.sid \in Sids /\ f.tuple \in Tuples
  BY DEF Frames
<1> QED
  BY <1>1, <1>2, <1>3

-----------------------------------------------------------------------------
(* The types and the one send in progress, which need no discipline.       *)

\* A frame joins the queue, and is sent if it is the first.
LEMMA SendKeepsSingle ==
  ASSUME QueuesTypeOK, SingleSend, NEW c \in Sids, NEW t \in Tuples,
         SendToMainSocket(c, t),
         finishing' \in {"no", "called", "notified"},
         finishing' = "no" <=> finishing = "no"
  PROVE  /\ SingleSend'
         /\ impl_send_buffers_' \in Seq(Frames)
         /\ current_sending_user_' \in Sids
         /\ outstanding' \in Nat
         /\ out' \in [Sids -> Seq(Tuples)]
<1> DEFINE q == impl_send_buffers_
           f == [sid |-> c, tuple |-> t]
<1>1. /\ q' = Append(q, f)
      /\ q = <<>> => CallSend(f)
      /\ q # <<>> => UNCHANGED <<current_sending_user_, outstanding, out>>
      /\ f \in Frames /\ f.sid = c
  BY DEF SendToMainSocket, AddSendBuffer, Frames
<1>2. /\ q \in Seq(Frames) /\ outstanding \in Nat
      /\ current_sending_user_ \in Sids /\ out \in [Sids -> Seq(Tuples)]
      /\ finishing \in {"no", "called", "notified"}
  BY DEF QueuesTypeOK
<1> HIDE DEF f
<1>3. q' \in Seq(Frames) /\ q' # <<>>
  BY <1>1, <1>2
<1>4. CASE q = <<>>
  <2>1. Head(q') = f
    BY <1>1, <1>2, <1>4
  <2>2. /\ current_sending_user_' = f.sid /\ outstanding' = outstanding + 1
        /\ out' \in [Sids -> Seq(Tuples)]
    BY <1>1, <1>4, CallSendTypes DEF CallSend
  <2>3. outstanding + (IF finishing = "no" THEN 0 ELSE 1) = 0
    BY <1>4 DEF SingleSend
  <2>4. outstanding = 0 /\ finishing' = "no"
    BY <1>2, <2>3
  <2>5. SingleSend'
    BY <1>3, <2>1, <2>2, <2>4 DEF SingleSend
  <2> QED
    BY <1>1, <1>2, <1>3, <2>2, <2>5
<1>5. CASE q # <<>>
  <2>1. Head(q') = Head(q)
    BY <1>1, <1>2, <1>5
  <2>2. SingleSend'
    BY <1>1, <1>3, <1>5, <2>1 DEF SingleSend
  <2> QED
    BY <1>1, <1>2, <1>3, <1>5, <2>2
<1> QED
  BY <1>4, <1>5

LEMMA PushKeepsSingle ==
  ASSUME QueuesTypeOK, SingleSend, NEW c \in Sids, NEW type \in FrameTypes,
         NEW now \in BOOLEAN, PushTuple(c, type, now), UNCHANGED finishing
  PROVE  QueuesTypeOK' /\ SingleSend'
<1> DEFINE t == [type |-> type, n |-> pushed[c] + 1]
<1>1. /\ recv_buffers_' = [recv_buffers_ EXCEPT ![c] = Append(@, t)]
      /\ pushed' = [pushed EXCEPT ![c] = t.n]
      /\ now => SendToMainSocket(c, t)
      /\ ~now => UNCHANGED implVars
  BY DEF PushTuple
<1>2. /\ recv_buffers_ \in [Sids -> Seq(Tuples)] /\ pushed \in [Sids -> Nat]
      /\ t.n = pushed[c] + 1
  BY DEF QueuesTypeOK
<1>3. t \in Tuples /\ t.n \in Nat
  BY <1>2 DEF Tuples
<1> HIDE DEF t
<1>4. recv_buffers_' \in [Sids -> Seq(Tuples)] /\ pushed' \in [Sids -> Nat]
  <2>1. Append(recv_buffers_[c], t) \in Seq(Tuples)
    BY <1>2, <1>3
  <2> QED
    BY <1>1, <1>2, <1>3, <2>1
<1>5. CASE now
  BY <1>1, <1>3, <1>4, <1>5, SendKeepsSingle DEF QueuesTypeOK
<1>6. CASE ~now
  BY <1>1, <1>4, <1>6 DEF QueuesTypeOK, SingleSend, implVars
<1> QED
  BY <1>5, <1>6

LEMMA PopKeepsSingle ==
  ASSUME QueuesTypeOK, SingleSend, NEW c \in Sids, recv_buffers_[c] # <<>>,
         NEW open, PopTuple(c, open), UNCHANGED pushed,
         finishing = "called", finishing' = "notified"
  PROVE  QueuesTypeOK' /\ SingleSend'
<1> DEFINE rest == Tail(recv_buffers_[c])
<1>1. /\ recv_buffers_' = [recv_buffers_ EXCEPT ![c] = rest]
      /\ IF rest # <<>> /\ open THEN SendToMainSocket(c, Head(rest))
                                ELSE UNCHANGED implVars
  BY DEF PopTuple
<1>2. recv_buffers_ \in [Sids -> Seq(Tuples)] /\ rest \in Seq(Tuples)
  BY DEF QueuesTypeOK
<1> HIDE DEF rest
<1>3. recv_buffers_' \in [Sids -> Seq(Tuples)]
  BY <1>1, <1>2
<1>4. CASE rest # <<>> /\ open
  <2>1. Head(rest) \in Tuples
    BY <1>2, <1>4
  <2>2. /\ SingleSend' /\ impl_send_buffers_' \in Seq(Frames)
        /\ current_sending_user_' \in Sids /\ outstanding' \in Nat
        /\ out' \in [Sids -> Seq(Tuples)]
    BY <1>1, <1>4, <2>1, SendKeepsSingle
  <2> QED
    BY <1>3, <2>2 DEF QueuesTypeOK
<1>5. CASE ~(rest # <<>> /\ open)
  BY <1>1, <1>3, <1>5 DEF QueuesTypeOK, SingleSend, implVars
<1> QED
  BY <1>4, <1>5

LEMMA FrameStepsKeepSingle ==
  ASSUME QueuesTypeOK, SingleSend, FinishSend \/ PopFrame
  PROVE  QueuesTypeOK' /\ SingleSend'
<1> DEFINE q == impl_send_buffers_
<1>1. CASE FinishSend
  <2>1. /\ outstanding > 0 /\ finishing = "no" /\ finishing' = "called"
        /\ outstanding' = outstanding - 1
        /\ UNCHANGED <<recv_buffers_, pushed, impl_send_buffers_,
                       current_sending_user_, out>>
    BY <1>1 DEF FinishSend, recvVars
  <2> QED
    BY <2>1 DEF QueuesTypeOK, SingleSend
<1>2. CASE PopFrame
  <2>1. /\ finishing = "notified" /\ finishing' = "no" /\ q' = Tail(q)
        /\ q' # <<>> => CallSend(Head(q'))
        /\ q' = <<>> => UNCHANGED <<current_sending_user_, outstanding, out>>
        /\ UNCHANGED <<recv_buffers_, pushed>>
    BY <1>2 DEF PopFrame, recvVars
  <2>2. q \in Seq(Frames) /\ q # <<>> /\ outstanding = 0
    BY <2>1 DEF QueuesTypeOK, SingleSend
  <2>3. q' \in Seq(Frames) /\ (q' # <<>> => Head(q') \in Frames)
    BY <2>1, <2>2
  <2>4. QueuesTypeOK'
    <3>1. CASE q' # <<>>
      <4>1. PICK f \in Frames : CallSend(f)
        BY <2>1, <2>3, <3>1
      <4>2. /\ current_sending_user_' \in Sids
            /\ outstanding' = outstanding + 1
            /\ out' \in [Sids -> Seq(Tuples)]
        BY <4>1, CallSendTypes
      <4> QED
        BY <2>1, <2>2, <2>3, <4>2 DEF QueuesTypeOK
    <3>2. CASE q' = <<>>
      BY <2>1, <2>3, <3>2 DEF QueuesTypeOK
    <3> QED
      BY <3>1, <3>2
  <2>5. SingleSend'
    BY <2>1, <2>2 DEF SingleSend, CallSend
  <2> QED
    BY <2>4, <2>5
<1> QED
  BY <1>1, <1>2

-----------------------------------------------------------------------------
(* The whole invariant.                                                    *)

\* Everything starts empty.
LEMMA InitKeeps == InitTransport => TransportInv
<1> SUFFICES ASSUME InitTransport PROVE TransportInv
  OBVIOUS
<1>1. /\ Live = {} /\ impl_send_buffers_ = <<>>
      /\ outstanding = 0 /\ finishing = "no" /\ current_sending_user_ \in Sids
      /\ \A c \in Sids : recv_buffers_[c] = <<>> /\ out[c] = <<>> /\ pushed[c] = 0
  BY DEF InitTransport, Live, FirstLive
<1>2. QueuesTypeOK
  BY DEF InitTransport, QueuesTypeOK
<1>3. SingleSend
  BY <1>1 DEF SingleSend
<1>4. OneFramePerClient /\ FrameIsFront /\ LiveHanded
  BY <1>1 DEF OneFramePerClient, FrameIsFront, LiveHanded
<1>5. Numbered /\ HandedInOrder
  BY <1>1 DEF Numbered, HandedInOrder
<1> QED
  BY <1>2, <1>3, <1>4, <1>5 DEF TransportInv

\* A tuple that is pushed and not sent waits, behind others or alone.
LEMMA PushWaits ==
  ASSUME TransportInv, NEW c \in Sids, NEW type \in FrameTypes,
         PushTuple(c, type, FALSE),
         UNCHANGED finishing
  PROVE  TransportInv' /\ \A d \in Sids : InFlight(d) <=> InFlight(d)'
<1> DEFINE t == [type |-> type, n |-> pushed[c] + 1]
<1>1. /\ recv_buffers_' = [recv_buffers_ EXCEPT ![c] = Append(@, t)]
      /\ pushed' = [pushed EXCEPT ![c] = t.n]
      /\ UNCHANGED <<implVars, finishing>>
  BY DEF PushTuple
<1>2. QueuesTypeOK /\ t \in Tuples
  <2>1. QueuesTypeOK
    BY DEF TransportInv
  <2>2. pushed[c] + 1 \in Nat \ {0}
    BY <2>1 DEF QueuesTypeOK
  <2> QED
    BY <2>1, <2>2 DEF Tuples
<1>a. t.n = pushed[c] + 1
  OBVIOUS
<1> HIDE DEF t
<1>3. QueuesTypeOK'
  <2>1. recv_buffers_' \in [Sids -> Seq(Tuples)]
    <3>1. recv_buffers_[c] \in Seq(Tuples)
      BY <1>2 DEF QueuesTypeOK
    <3>2. Append(recv_buffers_[c], t) \in Seq(Tuples)
      BY <1>2, <3>1
    <3> QED
      BY <1>1, <1>2, <3>2 DEF QueuesTypeOK
  <2>2. pushed' \in [Sids -> Nat]
    BY <1>1, <1>2, <1>a DEF QueuesTypeOK
  <2> QED
    BY <1>1, <1>2, <2>1, <2>2 DEF QueuesTypeOK, implVars
<1>4. \A d \in Sids :
        /\ recv_buffers_[d] # <<>> => recv_buffers_'[d] # <<>>
        /\ recv_buffers_[d] # <<>> => Head(recv_buffers_'[d]) = Head(recv_buffers_[d])
  <2> TAKE d \in Sids
  <2>1. recv_buffers_[d] \in Seq(Tuples)
    BY <1>2 DEF QueuesTypeOK
  <2>2. recv_buffers_'[d] = IF d = c THEN Append(recv_buffers_[d], t)
                                    ELSE recv_buffers_[d]
    BY <1>1, <1>2 DEF QueuesTypeOK
  <2> QED
    BY <1>2, <2>1, <2>2
<1>5. Live' = Live
  BY <1>1 DEF Live, FirstLive, implVars
<1>6. SingleSend'
  BY <1>1 DEF TransportInv, SingleSend, implVars
<1>7. OneFramePerClient' /\ FrameIsFront'
  <2>1. \A i \in Live : impl_send_buffers_[i].sid \in Sids
    BY <1>2, LiveFrames
  <2> QED
    BY <1>1, <1>4, <1>5, <2>1
       DEF TransportInv, OneFramePerClient, FrameIsFront, implVars
<1>b. \A d \in Sids : InFlight(d) <=> InFlight(d)'
  BY <1>1, <1>5 DEF InFlight, implVars
<1>8. Numbered'
  <2> SUFFICES ASSUME NEW d \in Sids, NEW i \in DOMAIN recv_buffers_'[d]
               PROVE  recv_buffers_'[d][i].n =
                        pushed'[d] - Len(recv_buffers_'[d]) + i
    BY DEF Numbered
  <2>1. /\ recv_buffers_[d] \in Seq(Tuples) /\ pushed[d] \in Nat
        /\ recv_buffers_'[d] = IF d = c THEN Append(recv_buffers_[d], t)
                                       ELSE recv_buffers_[d]
        /\ pushed'[d] = IF d = c THEN pushed[d] + 1 ELSE pushed[d]
    BY <1>1, <1>2, <1>a DEF QueuesTypeOK
  <2>2. \A j \in DOMAIN recv_buffers_[d] :
          recv_buffers_[d][j].n = pushed[d] - Len(recv_buffers_[d]) + j
    BY DEF TransportInv, Numbered
  <2>3. CASE d = c /\ i = Len(recv_buffers_[d]) + 1
    <3>1. recv_buffers_'[d][i] = t /\ Len(recv_buffers_'[d]) = Len(recv_buffers_[d]) + 1
      BY <1>2, <2>1, <2>3
    <3>2. Len(recv_buffers_[d]) \in Nat /\ pushed'[d] = pushed[d] + 1 /\ pushed[d] \in Nat
      BY <2>1, <2>3
    <3> QED
      BY <1>a, <2>3, <3>1, <3>2
  <2>4. CASE d = c /\ i # Len(recv_buffers_[d]) + 1
    <3>1. /\ i \in DOMAIN recv_buffers_[d] /\ recv_buffers_'[d][i] = recv_buffers_[d][i]
          /\ Len(recv_buffers_'[d]) = Len(recv_buffers_[d]) + 1 /\ i \in Nat
      BY <1>2, <2>1, <2>4
    <3>2. Len(recv_buffers_[d]) \in Nat /\ pushed'[d] = pushed[d] + 1 /\ pushed[d] \in Nat
      BY <2>1, <2>4
    <3>3. \A p, l \in Nat : (p + 1) - (l + 1) = p - l
      OBVIOUS
    <3>4. pushed'[d] - Len(recv_buffers_'[d]) = pushed[d] - Len(recv_buffers_[d])
      BY <3>1, <3>2, <3>3
    <3> QED
      BY <2>2, <3>1, <3>4
  <2>5. CASE d # c
    <3>1. recv_buffers_'[d] = recv_buffers_[d] /\ pushed'[d] = pushed[d]
      BY <2>1, <2>5
    <3> QED
      BY <2>2, <3>1
  <2> QED
    BY <2>3, <2>4, <2>5
<1>9. HandedInOrder'
  <2>1. recv_buffers_'[c] # <<>>
    <3>1. recv_buffers_'[c] = Append(recv_buffers_[c], t) /\ recv_buffers_[c] \in Seq(Tuples)
      BY <1>1, <1>2 DEF QueuesTypeOK
    <3> QED
      BY <1>2, <3>1
  <2>2. \A d \in Sids \ {c} : recv_buffers_'[d] = recv_buffers_[d] /\ pushed'[d] = pushed[d]
    BY <1>1, <1>2 DEF QueuesTypeOK
  <2> QED
    BY <1>1, <2>1, <2>2 DEF TransportInv, HandedInOrder, implVars
<1>10. LiveHanded'
  BY <1>1, <1>5 DEF TransportInv, LiveHanded, implVars
<1> QED
  BY <1>3, <1>6, <1>7, <1>8, <1>9, <1>10, <1>b DEF TransportInv

\* A tuple that is pushed on an empty queue may be sent at once.
LEMMA PushAlone ==
  ASSUME TransportInv, NEW c \in Sids, NEW type \in FrameTypes,
         recv_buffers_[c] = <<>>,
         PushTuple(c, type, TRUE),
         UNCHANGED finishing
  PROVE  /\ TransportInv' /\ InFlight(c)'
         /\ \A d \in Sids \ {c} : InFlight(d) <=> InFlight(d)'
<1> DEFINE t == [type |-> type, n |-> pushed[c] + 1]
           f == [sid |-> c, tuple |-> t]
           last == Len(impl_send_buffers_) + 1
<1>1. /\ recv_buffers_' = [recv_buffers_ EXCEPT ![c] = Append(@, t)]
      /\ pushed' = [pushed EXCEPT ![c] = t.n]
      /\ impl_send_buffers_' = Append(impl_send_buffers_, f)
      /\ impl_send_buffers_ = <<>> => CallSend(f)
      /\ impl_send_buffers_ # <<>> =>
           UNCHANGED <<current_sending_user_, outstanding, out>>
  BY DEF PushTuple, SendToMainSocket, AddSendBuffer
<1>2. QueuesTypeOK
  BY DEF TransportInv
<1>3. t \in Tuples /\ f \in Frames
  <2>1. pushed[c] + 1 \in Nat \ {0}
    BY <1>2 DEF QueuesTypeOK
  <2> QED
    BY <2>1 DEF Tuples, Frames
<1>a. t.n = pushed[c] + 1 /\ f.sid = c /\ f.tuple = t
  OBVIOUS
<1> HIDE DEF t, f
<1>4. QueuesTypeOK'
  <2>1. /\ recv_buffers_' \in [Sids -> Seq(Tuples)]
        /\ pushed' \in [Sids -> Nat]
        /\ impl_send_buffers_' \in Seq(Frames)
        /\ finishing' \in {"no", "called", "notified"}
    BY <1>1, <1>2, <1>3, <1>a DEF QueuesTypeOK
  <2>2. CASE impl_send_buffers_ = <<>>
    BY <1>1, <1>2, <1>3, <2>1, <2>2, CallSendTypes DEF QueuesTypeOK
  <2>3. CASE impl_send_buffers_ # <<>>
    BY <1>1, <1>2, <2>1, <2>3 DEF QueuesTypeOK
  <2> QED
    BY <2>2, <2>3
<1>5. /\ recv_buffers_'[c] = <<t>>
      /\ pushed'[c] = t.n
      /\ \A d \in Sids \ {c} :
           recv_buffers_'[d] = recv_buffers_[d] /\ pushed'[d] = pushed[d]
  BY <1>1, <1>2 DEF QueuesTypeOK
<1>6. \A i \in Live : impl_send_buffers_[i].sid \in Sids \ {c}
  BY <1>2, LiveFrames DEF TransportInv, FrameIsFront
<1>7. FirstLive \in 1 .. last /\ FirstLive' = FirstLive
  BY <1>2 DEF TransportInv, QueuesTypeOK, SingleSend, FirstLive
<1>8. /\ Live' = Live \cup {last}
      /\ impl_send_buffers_'[last] = f
      /\ \A i \in Live : i # last /\ impl_send_buffers_'[i] = impl_send_buffers_[i]
  BY <1>1, <1>2, <1>3, <1>7, SMTT(20) DEF Live, QueuesTypeOK
<1>9. SingleSend'
  <2>1. impl_send_buffers_ \in Seq(Frames) /\ outstanding \in Nat
    BY <1>2 DEF QueuesTypeOK
  <2>2. impl_send_buffers_' # <<>>
    BY <1>1, <1>3, <2>1
  <2>3. CASE impl_send_buffers_ = <<>>
    <3>1. Head(impl_send_buffers_') = f
      BY <1>1, <1>3, <2>3
    <3> QED
      BY <1>1, <2>1, <2>2, <2>3, <3>1 DEF TransportInv, SingleSend, CallSend
  <2>4. CASE impl_send_buffers_ # <<>>
    <3>1. Head(impl_send_buffers_') = Head(impl_send_buffers_)
      BY <1>1, <1>3, <2>1, <2>4
    <3> QED
      BY <1>1, <2>1, <2>2, <2>4, <3>1 DEF TransportInv, SingleSend
  <2> QED
    BY <2>3, <2>4
<1>10. OneFramePerClient' /\ FrameIsFront'
  <2>1. OneFramePerClient'
    BY <1>6, <1>8, <1>a DEF TransportInv, OneFramePerClient
  <2>2. FrameIsFront'
    BY <1>5, <1>6, <1>8, <1>a DEF TransportInv, FrameIsFront
  <2> QED
    BY <2>1, <2>2
<1>b. InFlight(c)' /\ \A d \in Sids \ {c} : InFlight(d) <=> InFlight(d)'
  BY <1>8, <1>a DEF InFlight
<1>11. Numbered'
  <2>1. pushed[c] \in Nat /\ Len(<<t>>) = 1 /\ <<t>>[1] = t /\ DOMAIN <<t>> = {1}
    BY <1>2 DEF QueuesTypeOK
  <2>2. \A i \in DOMAIN recv_buffers_'[c] :
          recv_buffers_'[c][i].n = pushed'[c] - Len(recv_buffers_'[c]) + i
    BY <1>5, <1>a, <2>1
  <2>3. ASSUME NEW d \in Sids \ {c}
        PROVE  \A i \in DOMAIN recv_buffers_'[d] :
                 recv_buffers_'[d][i].n = pushed'[d] - Len(recv_buffers_'[d]) + i
    <3>1. recv_buffers_'[d] = recv_buffers_[d] /\ pushed'[d] = pushed[d]
      BY <1>5
    <3> QED
      BY <3>1 DEF TransportInv, Numbered
  <2> QED
    BY <2>2, <2>3, Zenon DEF Numbered
<1>12. /\ impl_send_buffers_ = <<>> => out' = [out EXCEPT ![c] = Append(@, t)]
       /\ impl_send_buffers_ # <<>> => out' = out
  BY <1>1, <1>a DEF CallSend
<1>13. Len(out[c]) = pushed[c]
  BY DEF TransportInv, HandedInOrder
<1>14. HandedInOrder'
  <2> SUFFICES ASSUME NEW d \in Sids
               PROVE  /\ \A i \in DOMAIN out'[d] : out'[d][i].n = i
                      /\ recv_buffers_'[d] = <<>> => Len(out'[d]) = pushed'[d]
    BY DEF HandedInOrder
  <2>1. /\ out[d] \in Seq(Tuples)
        /\ out'[d] = IF d = c /\ impl_send_buffers_ = <<>>
                       THEN Append(out[d], t) ELSE out[d]
    BY <1>2, <1>12 DEF QueuesTypeOK
  <2>2. /\ \A i \in DOMAIN out[d] : out[d][i].n = i
        /\ recv_buffers_[d] = <<>> => Len(out[d]) = pushed[d]
    BY DEF TransportInv, HandedInOrder
  <2>3. \A i \in DOMAIN out'[d] : out'[d][i].n = i
    BY <1>3, <1>13, <1>a, <2>1, <2>2
  <2>4. recv_buffers_'[d] = <<>> => Len(out'[d]) = pushed'[d]
    <3>1. CASE d = c
      <4>1. <<t>> # <<>>
        OBVIOUS
      <4> QED
        BY <1>5, <3>1, <4>1
    <3>2. CASE d # c
      BY <1>5, <2>1, <2>2, <3>2
    <3> QED
      BY <3>1, <3>2
  <2> QED
    BY <2>3, <2>4
<1>15. LiveHanded'
  <2>1. \A d \in Sids \ {c} : out'[d] = out[d]
    BY <1>2, <1>12 DEF QueuesTypeOK
  <2>2. Len(out'[c]) = IF last = 1 THEN t.n ELSE t.n - 1
    BY <1>2, <1>3, <1>12, <1>13, <1>a DEF QueuesTypeOK
  <2> QED
    BY <1>6, <1>8, <1>a, <2>1, <2>2 DEF TransportInv, LiveHanded
<1> QED
  BY <1>4, <1>9, <1>10, <1>11, <1>14, <1>15, <1>b DEF TransportInv

\* The send in progress becomes a call of send_complete().
LEMMA FinishSendKeeps ==
  ASSUME TransportInv, FinishSend
  PROVE  TransportInv' /\ \A d \in Sids : InFlight(d) <=> InFlight(d)'
<1>1. /\ outstanding > 0 /\ finishing = "no" /\ finishing' = "called"
      /\ outstanding' = outstanding - 1
      /\ UNCHANGED <<recv_buffers_, pushed, impl_send_buffers_,
                     current_sending_user_, out>>
  BY DEF FinishSend, recvVars
<1>2. QueuesTypeOK
  BY DEF TransportInv
<1>3. QueuesTypeOK'
  BY <1>1, <1>2 DEF QueuesTypeOK
<1>4. Live' = Live
  BY <1>1 DEF Live, FirstLive
<1>5. SingleSend'
  BY <1>1, <1>2 DEF TransportInv, SingleSend, QueuesTypeOK
<1>6. OneFramePerClient' /\ FrameIsFront'
  BY <1>1, <1>4 DEF TransportInv, OneFramePerClient, FrameIsFront
<1>7. Numbered' /\ HandedInOrder' /\ LiveHanded'
  BY <1>1, <1>4 DEF TransportInv, Numbered, HandedInOrder, LiveHanded
<1>8. \A d \in Sids : InFlight(d) <=> InFlight(d)'
  BY <1>1, <1>4 DEF InFlight
<1> QED
  BY <1>3, <1>5, <1>6, <1>7, <1>8 DEF TransportInv

\* A step that leaves the queues alone.
LEMMA TransportUntouched ==
  ASSUME TransportInv, UNCHANGED <<recvVars, implVars, finishing>>
  PROVE  TransportInv' /\ \A d \in Sids : InFlight(d) <=> InFlight(d)'
<1>1. UNCHANGED <<recv_buffers_, pushed, impl_send_buffers_,
                  current_sending_user_, outstanding, out, finishing>>
  BY DEF recvVars, implVars
<1>2. QueuesTypeOK'
  BY <1>1 DEF TransportInv, QueuesTypeOK
<1>3. Live' = Live
  BY <1>1 DEF Live, FirstLive
<1>4. SingleSend'
  BY <1>1 DEF TransportInv, SingleSend
<1>5. OneFramePerClient' /\ FrameIsFront'
  BY <1>1, <1>3 DEF TransportInv, OneFramePerClient, FrameIsFront
<1>6. Numbered' /\ HandedInOrder' /\ LiveHanded'
  BY <1>1, <1>3 DEF TransportInv, Numbered, HandedInOrder, LiveHanded
<1>7. \A d \in Sids : InFlight(d) <=> InFlight(d)'
  BY <1>1, <1>3 DEF InFlight
<1> QED
  BY <1>2, <1>4, <1>5, <1>6, <1>7 DEF TransportInv

\* The second block of send_complete(): the notified frame, which is not
\* live any more, leaves the queue; the next one, if any, is handed over.
LEMMA PopFrameKeeps ==
  ASSUME TransportInv, PopFrame
  PROVE  /\ TransportInv'
         /\ \A d \in Sids : InFlight(d) <=> InFlight(d)'
         /\ \A d \in Sids : ~InFlight(d) => out'[d] = out[d]
<1> DEFINE q == impl_send_buffers_
           f == Head(q')
<1>1. /\ finishing = "notified" /\ finishing' = "no"
      /\ q' = Tail(q)
      /\ q' # <<>> => CallSend(f)
      /\ q' = <<>> => UNCHANGED <<current_sending_user_, outstanding, out>>
      /\ UNCHANGED <<recv_buffers_, pushed>>
  BY DEF PopFrame, recvVars
<1>2. QueuesTypeOK /\ q \in Seq(Frames)
  BY DEF TransportInv, QueuesTypeOK
<1>3. q # <<>> /\ outstanding = 0
  BY <1>1, <1>2 DEF TransportInv, SingleSend, QueuesTypeOK
<1>4. /\ q' \in Seq(Frames)
      /\ Len(q') = Len(q) - 1
      /\ \A i \in 1 .. Len(q') : q'[i] = q[i + 1]
      /\ q' # <<>> => f = q[2] /\ f \in Frames /\ 2 \in 2 .. Len(q)
  BY <1>1, <1>2, <1>3
<1>5. Live = 2 .. Len(q) /\ Live' = 1 .. Len(q')
  BY <1>1 DEF Live, FirstLive
<1>6. \A i \in Live : q[i].sid \in Sids /\ q[i].tuple \in Tuples
  BY <1>2, LiveFrames
<1>7. /\ q' # <<>> => /\ f.sid \in Sids /\ f.tuple \in Tuples
                      /\ Len(out[f.sid]) = f.tuple.n - 1
                      /\ out' = [out EXCEPT ![f.sid] = Append(@, f.tuple)]
      /\ q' = <<>> => out' = out
  BY <1>1, <1>4, <1>5, <1>6 DEF TransportInv, LiveHanded, CallSend
<1>8. QueuesTypeOK'
  <2>1. CASE q' # <<>>
    <3>1. f \in Frames /\ CallSend(f)
      BY <1>1, <1>4, <2>1
    <3>2. /\ current_sending_user_' \in Sids
          /\ outstanding' = outstanding + 1
          /\ out' \in [Sids -> Seq(Tuples)]
      BY <1>2, <3>1, CallSendTypes
    <3> QED
      BY <1>1, <1>2, <1>4, <3>2 DEF QueuesTypeOK
  <2>2. CASE q' = <<>>
    BY <1>1, <1>2, <1>4, <2>2 DEF QueuesTypeOK
  <2> QED
    BY <2>1, <2>2
<1>9. SingleSend'
  BY <1>1, <1>3 DEF SingleSend, CallSend
<1>a. q' # <<>> => f = q'[1]
  BY <1>4
<1> HIDE DEF f
<1>10. OneFramePerClient' /\ FrameIsFront' /\ \A d \in Sids : InFlight(d) <=> InFlight(d)'
  <2>1. \A i \in Live : i - 1 \in Live' /\ q'[i - 1] = q[i]
    BY <1>2, <1>4, <1>5
  <2>2. \A i \in Live' : i + 1 \in Live /\ q'[i] = q[i + 1]
    BY <1>2, <1>4, <1>5
  <2>3. OneFramePerClient'
    <3> SUFFICES ASSUME NEW i \in Live', NEW j \in Live',
                        q'[i].sid = q'[j].sid
                 PROVE  i = j
      BY DEF OneFramePerClient
    <3>1. i + 1 = j + 1
      BY <2>2 DEF TransportInv, OneFramePerClient
    <3> QED
      BY <1>5, <3>1
  <2>4. FrameIsFront'
    BY <1>1, <2>2 DEF TransportInv, FrameIsFront
  <2>5. \A d \in Sids : InFlight(d) <=> InFlight(d)'
    BY <2>1, <2>2 DEF InFlight
  <2> QED
    BY <2>3, <2>4, <2>5
<1>11. Numbered'
  BY <1>1 DEF TransportInv, Numbered
<1>12. HandedInOrder'
  <2> SUFFICES ASSUME NEW d \in Sids
               PROVE  /\ \A i \in DOMAIN out'[d] : out'[d][i].n = i
                      /\ recv_buffers_'[d] = <<>> => Len(out'[d]) = pushed'[d]
    BY DEF HandedInOrder
  <2>1. /\ out[d] \in Seq(Tuples)
        /\ \A i \in DOMAIN out[d] : out[d][i].n = i
        /\ recv_buffers_[d] = <<>> => Len(out[d]) = pushed[d]
    BY <1>2 DEF TransportInv, QueuesTypeOK, HandedInOrder
  <2>2. CASE q' # <<>> /\ d = f.sid
    <3>1. out'[d] = Append(out[d], f.tuple)
      BY <1>2, <1>7, <2>2 DEF QueuesTypeOK
    <3>a. f.tuple \in Tuples /\ f.tuple.n = Len(out[d]) + 1
      <4>1. f.tuple.n \in Nat
        BY <1>7, <2>2 DEF Tuples
      <4> QED
        BY <1>7, <2>1, <2>2, <4>1
    <3>2. recv_buffers_[d] # <<>>
      BY <1>4, <1>5, <2>2 DEF TransportInv, FrameIsFront
    <3>3. \A i \in DOMAIN out'[d] : out'[d][i].n = i
      BY <2>1, <3>1, <3>a
    <3> QED
      BY <1>1, <3>2, <3>3
  <2>3. CASE ~(q' # <<>> /\ d = f.sid)
    <3>1. out'[d] = out[d]
      BY <1>2, <1>7, <2>3 DEF QueuesTypeOK
    <3> QED
      BY <1>1, <2>1, <3>1
  <2> QED
    BY <2>2, <2>3
<1>13. LiveHanded'
  <2> SUFFICES ASSUME NEW i \in Live'
               PROVE  Len(out'[q'[i].sid]) =
                        IF i = 1 THEN q'[i].tuple.n ELSE q'[i].tuple.n - 1
    BY DEF LiveHanded
  <2>1. /\ q' # <<>> /\ i + 1 \in Live /\ q'[i] = q[i + 1]
        /\ q[i + 1].sid \in Sids /\ q[i + 1].tuple \in Tuples
        /\ Len(out[q[i + 1].sid]) = q[i + 1].tuple.n - 1
    BY <1>2, <1>4, <1>5, <1>6 DEF TransportInv, LiveHanded
  <2>2. CASE i = 1
    <3>1. q'[i] = f
      BY <1>a, <2>1, <2>2
    <3>2. f.tuple.n \in Nat
      BY <1>7, <2>1 DEF Tuples
    <3>3. out[f.sid] \in Seq(Tuples)
      BY <1>2, <1>7, <2>1 DEF QueuesTypeOK
    <3>4. out'[f.sid] = Append(out[f.sid], f.tuple)
      BY <1>2, <1>7, <2>1 DEF QueuesTypeOK
    <3>5. f.tuple \in Tuples /\ Len(out[f.sid]) = f.tuple.n - 1
      BY <1>7, <2>1
    <3>6. Len(out'[f.sid]) = Len(out[f.sid]) + 1
      BY <3>3, <3>4, <3>5
    <3>7. Len(out'[f.sid]) = f.tuple.n
      BY <3>2, <3>5, <3>6
    <3> QED
      BY <2>2, <3>1, <3>7
  <2>3. CASE i # 1
    <3>1. q[i + 1].sid # f.sid
      BY <1>2, <1>4, <1>5, <2>1, <2>3 DEF TransportInv, OneFramePerClient
    <3> QED
      BY <1>2, <1>7, <2>1, <2>3, <3>1 DEF QueuesTypeOK
  <2> QED
    BY <2>2, <2>3
<1>14. \A d \in Sids : ~InFlight(d) => out'[d] = out[d]
  <2>1. q' # <<>> => 2 \in Live /\ q[2].sid = f.sid
    BY <1>2, <1>4, <1>5, <1>a
  <2> QED
    BY <1>2, <1>7, <2>1 DEF InFlight, QueuesTypeOK
<1> QED
  BY <1>8, <1>9, <1>10, <1>11, <1>12, <1>13, <1>14 DEF TransportInv

\* When send_complete() is called the frame at the head of the queue is that
\* of current_sending_user_, with the tuple at the front of that client.
LEMMA Completion ==
  ASSUME TransportInv, finishing = "called",
         NEW c \in Sids, c = current_sending_user_
  PROVE  /\ impl_send_buffers_ # <<>> /\ outstanding = 0
         /\ c = Head(impl_send_buffers_).sid
         /\ Live = 1 .. Len(impl_send_buffers_) /\ 1 \in Live
         /\ impl_send_buffers_[1].sid = c
         /\ \A i \in Live : i # 1 => impl_send_buffers_[i].sid # c
         /\ recv_buffers_[c] \in Seq(Tuples) /\ recv_buffers_[c] # <<>>
         /\ impl_send_buffers_[1].tuple = Head(recv_buffers_[c])
         /\ Len(out[c]) = impl_send_buffers_[1].tuple.n
<1> DEFINE q == impl_send_buffers_
<1>1. QueuesTypeOK /\ q \in Seq(Frames)
  BY DEF TransportInv, QueuesTypeOK
<1>2. /\ q # <<>> /\ outstanding = 0 /\ c = Head(q).sid
      /\ Live = 1 .. Len(q)
  BY <1>1 DEF TransportInv, SingleSend, QueuesTypeOK, Live, FirstLive
<1>3. 1 \in Live /\ q[1].sid = c
  BY <1>1, <1>2
<1>4. /\ recv_buffers_[c] \in Seq(Tuples) /\ recv_buffers_[c] # <<>>
      /\ q[1].tuple = Head(recv_buffers_[c])
      /\ Len(out[c]) = q[1].tuple.n
  BY <1>1, <1>3 DEF TransportInv, QueuesTypeOK, FrameIsFront, LiveHanded
<1>5. \A i \in Live : i # 1 => q[i].sid # c
  BY <1>3 DEF TransportInv, OneFramePerClient
<1> QED
  BY <1>2, <1>3, <1>4, <1>5

\* The first block of send_complete() when the client has left the map.
LEMMA SkipKeeps ==
  ASSUME TransportInv, finishing = "called", finishing' = "notified",
         NEW c \in Sids, c = current_sending_user_,
         UNCHANGED <<recvVars, implVars>>
  PROVE  TransportInv' /\ \A d \in Sids \ {c} : InFlight(d) <=> InFlight(d)'
<1>1. /\ impl_send_buffers_ # <<>> /\ outstanding = 0
      /\ c = Head(impl_send_buffers_).sid
      /\ Live = 1 .. Len(impl_send_buffers_) /\ 1 \in Live
      /\ impl_send_buffers_[1].sid = c
  BY Completion
<1>2. /\ Live' = Live \ {1}
      /\ UNCHANGED <<recv_buffers_, pushed, impl_send_buffers_,
                     current_sending_user_, outstanding, out>>
  BY <1>1 DEF Live, FirstLive, implVars, recvVars
<1>3. QueuesTypeOK'
  BY <1>2 DEF TransportInv, QueuesTypeOK
<1>4. SingleSend'
  <2>1. outstanding' + (IF finishing' = "no" THEN 0 ELSE 1)
          = (IF impl_send_buffers_' = <<>> THEN 0 ELSE 1)
    BY <1>1, <1>2
  <2>2. current_sending_user_' = Head(impl_send_buffers_').sid
    BY <1>1, <1>2
  <2> QED
    BY <2>1, <2>2 DEF SingleSend
<1>5. OneFramePerClient' /\ FrameIsFront'
  BY <1>2 DEF TransportInv, OneFramePerClient, FrameIsFront
<1>6. Numbered' /\ HandedInOrder' /\ LiveHanded'
  BY <1>2 DEF TransportInv, Numbered, HandedInOrder, LiveHanded
<1>7. \A d \in Sids \ {c} : InFlight(d) <=> InFlight(d)'
  BY <1>1, <1>2 DEF InFlight
<1> QED
  BY <1>3, <1>4, <1>5, <1>6, <1>7 DEF TransportInv

\* The first block when the client is in the map: its tuple is popped and,
\* if the client may send, the next one follows.
LEMMA PopTupleKeeps ==
  ASSUME TransportInv, finishing = "called", finishing' = "notified",
         NEW c \in Sids, c = current_sending_user_,
         NEW open \in BOOLEAN, PopTuple(c, open), UNCHANGED pushed
  PROVE  /\ TransportInv' /\ UNCHANGED out
         /\ \A d \in Sids \ {c} : InFlight(d) <=> InFlight(d)'
         /\ open /\ recv_buffers_'[c] # <<>> => InFlight(c)'
<1> DEFINE q == impl_send_buffers_
           rest == Tail(recv_buffers_[c])
           more == rest # <<>> /\ open
           f == [sid |-> c, tuple |-> Head(rest)]
           last == Len(q) + 1
<1>2. QueuesTypeOK /\ q \in Seq(Frames)
  BY DEF TransportInv, QueuesTypeOK
<1>3. /\ q # <<>> /\ outstanding = 0 /\ c = Head(q).sid
      /\ Live = 1 .. Len(q) /\ 1 \in Live /\ q[1].sid = c
      /\ \A i \in Live : i # 1 => q[i].sid # c
  BY Completion
<1>4. \A i \in Live : q[i].sid \in Sids /\ q[i].tuple \in Tuples
  BY <1>2, LiveFrames
<1>5. Len(q) \in Nat \ {0}
  BY <1>2, <1>3
<1>6. /\ recv_buffers_[c] \in Seq(Tuples) /\ recv_buffers_[c] # <<>>
      /\ q[1].tuple = Head(recv_buffers_[c])
      /\ Len(out[c]) = q[1].tuple.n
      /\ \A i \in DOMAIN recv_buffers_[c] :
           recv_buffers_[c][i].n = pushed[c] - Len(recv_buffers_[c]) + i
      /\ pushed[c] \in Nat
  BY <1>2, Completion DEF TransportInv, QueuesTypeOK, Numbered
<1>7. /\ recv_buffers_' = [recv_buffers_ EXCEPT ![c] = rest]
      /\ more => q' = Append(q, f)
      /\ ~more => q' = q
      /\ UNCHANGED <<current_sending_user_, outstanding, out>>
  BY <1>3 DEF PopTuple, SendToMainSocket, AddSendBuffer, implVars
<1>8. /\ rest \in Seq(Tuples) /\ Len(rest) = Len(recv_buffers_[c]) - 1
      /\ \A i \in DOMAIN rest :
           /\ i + 1 \in DOMAIN recv_buffers_[c]
           /\ rest[i] = recv_buffers_[c][i + 1]
  BY <1>6
<1>9. rest # <<>> => /\ Head(rest) = rest[1] /\ 1 \in DOMAIN rest
                     /\ Head(rest) \in Tuples
  BY <1>8
<1>10. rest # <<>> => f \in Frames /\ f.sid = c /\ f.tuple = Head(rest)
  BY <1>9 DEF Frames
<1>11. /\ recv_buffers_'[c] = rest
       /\ \A d \in Sids \ {c} : recv_buffers_'[d] = recv_buffers_[d]
  BY <1>2, <1>7 DEF QueuesTypeOK
<1>12. q[1].tuple.n = pushed[c] - Len(rest)
  BY <1>6, <1>8
<1>13. \A i \in DOMAIN rest : rest[i].n = pushed[c] - Len(rest) + i
  <2> SUFFICES ASSUME NEW i \in DOMAIN rest
               PROVE  rest[i].n = pushed[c] - Len(rest) + i
    OBVIOUS
  <2>1. /\ i \in Nat /\ Len(recv_buffers_[c]) \in Nat
        /\ Len(rest) = Len(recv_buffers_[c]) - 1
        /\ i + 1 \in DOMAIN recv_buffers_[c]
        /\ rest[i] = recv_buffers_[c][i + 1]
    BY <1>6, <1>8
  <2>2. rest[i].n = pushed[c] - Len(recv_buffers_[c]) + (i + 1)
    BY <1>6, <2>1
  <2>3. pushed[c] \in Nat
    BY <1>6
  <2> HIDE DEF rest
  <2> QED
    BY <2>1, <2>2, <2>3, SMTT(20)
<1> HIDE DEF f, rest
<1>14. /\ Live' = (Live \ {1}) \cup (IF more THEN {last} ELSE {})
       /\ more => q'[last] = f
       /\ \A i \in Live : i # last /\ q'[i] = q[i]
  <2>1. CASE ~more
    BY <1>2, <1>3, <1>5, <1>7, <2>1 DEF Live, FirstLive
  <2>2. CASE more
    BY <1>2, <1>3, <1>5, <1>7, <1>10, <2>2 DEF Live, FirstLive
  <2> QED
    BY <2>1, <2>2
<1>15. QueuesTypeOK'
  <2>1. recv_buffers_' \in [Sids -> Seq(Tuples)]
    BY <1>2, <1>7, <1>8 DEF QueuesTypeOK
  <2>2. q' \in Seq(Frames)
    BY <1>2, <1>7, <1>10
  <2> QED
    BY <1>2, <1>7, <2>1, <2>2 DEF QueuesTypeOK
<1>16. SingleSend'
  <2>1. q' # <<>> /\ Head(q') = Head(q)
    BY <1>2, <1>3, <1>7, <1>10
  <2>2. outstanding' + (IF finishing' = "no" THEN 0 ELSE 1)
          = (IF q' = <<>> THEN 0 ELSE 1)
    BY <1>3, <1>7, <2>1
  <2>3. current_sending_user_' = Head(q').sid
    BY <1>3, <1>7, <2>1
  <2> QED
    BY <2>2, <2>3 DEF SingleSend
<1>17. OneFramePerClient'
  BY <1>3, <1>10, <1>14 DEF TransportInv, OneFramePerClient
<1>18. FrameIsFront'
  BY <1>3, <1>4, <1>10, <1>11, <1>14 DEF TransportInv, FrameIsFront
<1>19. Numbered'
  BY <1>11, <1>13 DEF TransportInv, Numbered
<1>20. HandedInOrder'
  <2>1. rest = <<>> => Len(out[c]) = pushed[c]
    <3>1. Len(<<>>) = 0
      OBVIOUS
    <3> QED
      BY <1>6, <1>12, <3>1
  <2> QED
    BY <1>7, <1>11, <2>1 DEF TransportInv, HandedInOrder
<1>21. LiveHanded'
  <2>1. more => Len(out[c]) = f.tuple.n - 1
    BY <1>6, <1>8, <1>9, <1>10, <1>12, <1>13, SMTT(20)
  <2>2. \A i \in Live \ {1} : Len(out'[q'[i].sid]) = q'[i].tuple.n - 1
    BY <1>7, <1>14 DEF TransportInv, LiveHanded
  <2> QED
    BY <1>5, <1>7, <1>10, <1>14, <2>1, <2>2 DEF LiveHanded
<1>22. /\ \A d \in Sids \ {c} : InFlight(d) <=> InFlight(d)'
       /\ open /\ recv_buffers_'[c] # <<>> => InFlight(c)'
  BY <1>3, <1>10, <1>11, <1>14 DEF InFlight
<1> QED
  BY <1>7, <1>15, <1>16, <1>17, <1>18, <1>19, <1>20, <1>21, <1>22
     DEF TransportInv
\* The oldest tuple of a client that waited may be sent when none of the
\* client's is in flight and all before it were handed over.
LEMMA SendFrontKeeps ==
  ASSUME TransportInv, NEW c \in Sids,
         ~InFlight(c), recv_buffers_[c] # <<>>,
         Len(out[c]) = pushed[c] - Len(recv_buffers_[c]),
         SendToMainSocket(c, Head(recv_buffers_[c])),
         UNCHANGED <<recvVars, finishing>>
  PROVE  /\ TransportInv' /\ InFlight(c)'
         /\ \A d \in Sids \ {c} : InFlight(d) <=> InFlight(d)'
<1> DEFINE t == Head(recv_buffers_[c])
           f == [sid |-> c, tuple |-> t]
           last == Len(impl_send_buffers_) + 1
<1>1. /\ UNCHANGED <<recv_buffers_, pushed, finishing>>
      /\ impl_send_buffers_' = Append(impl_send_buffers_, f)
      /\ impl_send_buffers_ = <<>> => CallSend(f)
      /\ impl_send_buffers_ # <<>> =>
           UNCHANGED <<current_sending_user_, outstanding, out>>
  BY DEF recvVars, SendToMainSocket, AddSendBuffer
<1>2. QueuesTypeOK
  BY DEF TransportInv
<1>3. /\ recv_buffers_[c] \in Seq(Tuples) /\ t \in Tuples /\ f \in Frames
      /\ 1 \in DOMAIN recv_buffers_[c] /\ t = recv_buffers_[c][1]
  <2>1. recv_buffers_[c] \in Seq(Tuples)
    BY <1>2 DEF QueuesTypeOK
  <2>2. t \in Tuples
    BY <2>1
  <2> QED
    BY <2>1, <2>2 DEF Frames
<1>4. t.n = Len(out[c]) + 1 /\ t.n \in Nat
  <2>1. t.n = pushed[c] - Len(recv_buffers_[c]) + 1
    BY <1>3 DEF TransportInv, Numbered
  <2> QED
    BY <1>3, <2>1 DEF Tuples
<1>a. f.sid = c /\ f.tuple = t
  OBVIOUS
<1> HIDE DEF t, f
<1>5. QueuesTypeOK'
  <2>1. impl_send_buffers_' \in Seq(Frames)
    BY <1>1, <1>2, <1>3 DEF QueuesTypeOK
  <2>2. CASE impl_send_buffers_ = <<>>
    BY <1>1, <1>2, <1>3, <2>1, <2>2, CallSendTypes DEF QueuesTypeOK
  <2>3. CASE impl_send_buffers_ # <<>>
    BY <1>1, <1>2, <2>1, <2>3 DEF QueuesTypeOK
  <2> QED
    BY <2>2, <2>3
<1>6. \A i \in Live : impl_send_buffers_[i].sid \in Sids \ {c}
  BY <1>2, LiveFrames DEF InFlight
<1>7. FirstLive \in 1 .. last /\ FirstLive' = FirstLive
  BY <1>1, <1>2 DEF TransportInv, QueuesTypeOK, SingleSend, FirstLive
<1>8. /\ Live' = Live \cup {last}
      /\ impl_send_buffers_'[last] = f
      /\ \A i \in Live : i # last /\ impl_send_buffers_'[i] = impl_send_buffers_[i]
  BY <1>1, <1>2, <1>3, <1>7, SMTT(20) DEF Live, QueuesTypeOK
<1>9. SingleSend'
  BY <1>1, <1>2, <1>3, SendKeepsSingle DEF TransportInv, QueuesTypeOK, t
<1>10. OneFramePerClient' /\ FrameIsFront'
  <2>1. OneFramePerClient'
    BY <1>6, <1>8, <1>a DEF TransportInv, OneFramePerClient
  <2>2. FrameIsFront'
    BY <1>1, <1>6, <1>8, <1>a DEF TransportInv, FrameIsFront, t
  <2> QED
    BY <2>1, <2>2
<1>11. InFlight(c)' /\ \A d \in Sids \ {c} : InFlight(d) <=> InFlight(d)'
  BY <1>8, <1>a DEF InFlight
<1>12. /\ \A d \in Sids \ {c} : out'[d] = out[d]
       /\ impl_send_buffers_ = <<>> => out'[c] = Append(out[c], t)
       /\ impl_send_buffers_ # <<>> => out'[c] = out[c]
       /\ out[c] \in Seq(Tuples)
  BY <1>1, <1>2, <1>a DEF CallSend, QueuesTypeOK
<1>13. Numbered'
  BY <1>1 DEF TransportInv, Numbered
<1>14. HandedInOrder'
  <2>1. \A d \in Sids : /\ \A i \in DOMAIN out[d] : out[d][i].n = i
                        /\ recv_buffers_[d] = <<>> => Len(out[d]) = pushed[d]
    BY DEF TransportInv, HandedInOrder
  <2>2. \A i \in DOMAIN out'[c] : out'[c][i].n = i
    <3>1. CASE impl_send_buffers_ = <<>>
      <4>1. /\ out'[c] = Append(out[c], t) /\ out[c] \in Seq(Tuples)
            /\ \A i \in DOMAIN out[c] : out[c][i].n = i
        BY <1>12, <2>1, <3>1
      <4> SUFFICES ASSUME NEW i \in DOMAIN out'[c] PROVE out'[c][i].n = i
        OBVIOUS
      <4>2. CASE i = Len(out[c]) + 1
        <5>1. out'[c][i] = t
          BY <1>3, <4>1, <4>2
        <5> QED
          BY <1>4, <4>2, <5>1
      <4>3. CASE i # Len(out[c]) + 1
        BY <1>3, <4>1, <4>3
      <4> QED
        BY <4>2, <4>3
    <3>2. CASE impl_send_buffers_ # <<>>
      BY <1>12, <2>1, <3>2
    <3> QED
      BY <3>1, <3>2
  <2> QED
    BY <1>1, <1>12, <2>1, <2>2 DEF HandedInOrder
<1>15. LiveHanded'
  <2>1. Len(out'[c]) = IF last = 1 THEN t.n ELSE t.n - 1
    BY <1>2, <1>3, <1>4, <1>12 DEF QueuesTypeOK
  <2> QED
    BY <1>6, <1>8, <1>12, <1>a, <2>1 DEF TransportInv, LiveHanded
<1> QED
  BY <1>5, <1>9, <1>10, <1>11, <1>13, <1>14, <1>15 DEF TransportInv

-----------------------------------------------------------------------------
(* The tuples of a connection, wherever they are.                          *)

Elements(s) == { s[i] : i \in DOMAIN s }

\* The positions of c's frames in the queue, finished or not, and their tuples.
Places(c) == { i \in DOMAIN impl_send_buffers_ : impl_send_buffers_[i].sid = c }
Queued(c) == { impl_send_buffers_[i].tuple : i \in Places(c) }

\* The frame at the head of the queue was handed over.
HeadHanded ==
  LET f == impl_send_buffers_[1]
  IN  impl_send_buffers_ # <<>> => f.tuple \in Elements(out[f.sid])

\* The tuples of c that wait or were handed over: no step but a push adds one.
Known(c) == Elements(recv_buffers_[c]) \cup Queued(c) \cup Elements(out[c])

\* What a push does to the lengths and counts.
LEMMA PushEffect ==
  ASSUME QueuesTypeOK, NEW c \in Sids, NEW type, NEW now,
         PushTuple(c, type, now)
  PROVE  /\ \A d \in Sids \ {c} : UNCHANGED <<recv_buffers_[d], pushed[d]>>
         /\ Len(recv_buffers_'[c]) = Len(recv_buffers_[c]) + 1
<1> DEFINE t == [type |-> type, n |-> pushed[c] + 1]
<1>1. /\ recv_buffers_' = [recv_buffers_ EXCEPT ![c] = Append(@, t)]
      /\ pushed' = [pushed EXCEPT ![c] = t.n]
  BY DEF PushTuple
<1> HIDE DEF t
<1>2. recv_buffers_[c] \in Seq(Tuples)
  BY DEF QueuesTypeOK
<1>3. Len(Append(recv_buffers_[c], t)) = Len(recv_buffers_[c]) + 1
  BY <1>2
<1> QED
  BY <1>1, <1>3 DEF QueuesTypeOK

\* The elements of a sequence that grows by one.
LEMMA AppendElements ==
  ASSUME NEW T, NEW s \in Seq(T), NEW t \in T
  PROVE  Elements(Append(s, t)) \subseteq Elements(s) \cup {t}
<1>1. DOMAIN Append(s, t) = 1 .. Len(s) + 1 /\ DOMAIN s = 1 .. Len(s) /\ Len(s) \in Nat
  OBVIOUS
<1>2. ASSUME NEW i \in 1 .. Len(s) + 1
      PROVE  Append(s, t)[i] = t \/ (i \in 1 .. Len(s) /\ Append(s, t)[i] = s[i])
  <2>1. CASE i = Len(s) + 1
    BY <2>1
  <2>2. CASE i # Len(s) + 1
    BY <1>1, <2>2
  <2> QED
    BY <2>1, <2>2
<1> QED
  BY <1>1, <1>2 DEF Elements

\* The elements of a sequence that loses its head.
LEMMA TailElements ==
  ASSUME NEW T, NEW s \in Seq(T), s # <<>>
  PROVE  /\ Elements(Tail(s)) \subseteq Elements(s)
         /\ Head(s) \in Elements(s)
<1>1. /\ Len(s) \in Nat /\ Len(s) >= 1 /\ DOMAIN s = 1 .. Len(s)
      /\ DOMAIN Tail(s) = 1 .. Len(s) - 1
      /\ \A i \in 1 .. Len(s) - 1 : Tail(s)[i] = s[i + 1] /\ i + 1 \in 1 .. Len(s)
  OBVIOUS
<1>2. Head(s) = s[1] /\ 1 \in DOMAIN s
  BY <1>1
<1> QED
  BY <1>1, <1>2 DEF Elements

\* All of them are tuples.
LEMMA KnownTuples ==
  ASSUME QueuesTypeOK, NEW c \in Sids
  PROVE  Known(c) \subseteq Tuples /\ \A t \in Known(c) : t.n \in Nat /\ t.n > 0
<1>1. /\ recv_buffers_[c] \in Seq(Tuples) /\ out[c] \in Seq(Tuples)
      /\ impl_send_buffers_ \in Seq(Frames)
  BY DEF QueuesTypeOK
<1>2. Elements(recv_buffers_[c]) \subseteq Tuples /\ Elements(out[c]) \subseteq Tuples
  BY <1>1 DEF Elements
<1>3. Queued(c) \subseteq Tuples
  <2>1. \A i \in DOMAIN impl_send_buffers_ : impl_send_buffers_[i] \in Frames
    BY <1>1
  <2>2. \A f \in Frames : f.tuple \in Tuples
    BY DEF Frames
  <2> QED
    BY <2>1, <2>2 DEF Queued, Places
<1>4. \A t \in Tuples : t.n \in Nat /\ t.n > 0
  BY DEF Tuples
<1> QED
  BY <1>2, <1>3, <1>4 DEF Known

\* cb_send_buffer_ called with a frame makes its tuple the last one out.
LEMMA CallKnown ==
  ASSUME QueuesTypeOK, NEW f \in Frames, CallSend(f)
  PROVE  /\ \A d \in Sids \ {f.sid} : out'[d] = out[d]
         /\ Elements(out'[f.sid]) \subseteq Elements(out[f.sid]) \cup {f.tuple}
         /\ f.tuple \in Elements(out'[f.sid])
         /\ \A d \in Sids : out[d] # <<>> => out'[d] # <<>> /\ out'[d][1] = out[d][1]
<1>1. f.sid \in Sids /\ f.tuple \in Tuples
  BY DEF Frames
<1>2. out \in [Sids -> Seq(Tuples)] /\ out' = [out EXCEPT ![f.sid] = Append(@, f.tuple)]
  BY DEF QueuesTypeOK, CallSend
<1>3. out'[f.sid] = Append(out[f.sid], f.tuple) /\ out[f.sid] \in Seq(Tuples)
  BY <1>1, <1>2
<1>4. \A d \in Sids \ {f.sid} : out'[d] = out[d]
  BY <1>1, <1>2
<1>5. /\ out'[f.sid] # <<>>
      /\ out[f.sid] # <<>> => out'[f.sid][1] = out[f.sid][1]
  BY <1>1, <1>3
<1>6. f.tuple \in Elements(out'[f.sid])
  <2> DEFINE last == Len(out[f.sid]) + 1
  <2>1. last \in DOMAIN out'[f.sid] /\ out'[f.sid][last] = f.tuple
    BY <1>1, <1>3
  <2> QED
    BY <2>1 DEF Elements
<1> QED
  BY <1>1, <1>3, <1>4, <1>5, <1>6, AppendElements

\* A frame that joins the queue, and is sent if it is the first.
LEMMA SendKnown ==
  ASSUME QueuesTypeOK, NEW c \in Sids, NEW t \in Tuples, SendToMainSocket(c, t)
  PROVE  /\ Queued(c)' \subseteq Queued(c) \cup {t}
         /\ Elements(out'[c]) \subseteq Elements(out[c]) \cup {t}
         /\ \A d \in Sids \ {c} : Queued(d)' = Queued(d) /\ out'[d] = out[d]
         /\ \A d \in Sids : out[d] # <<>> => out'[d] # <<>> /\ out'[d][1] = out[d][1]
<1> DEFINE q == impl_send_buffers_
           f == [sid |-> c, tuple |-> t]
           last == Len(q) + 1
<1>1. /\ q' = Append(q, f) /\ (UNCHANGED out \/ CallSend(f))
      /\ f \in Frames /\ f.sid = c /\ f.tuple = t /\ q \in Seq(Frames)
  BY DEF SendToMainSocket, AddSendBuffer, QueuesTypeOK, Frames
<1> HIDE DEF f
<1>2. /\ DOMAIN q' = DOMAIN q \cup {last}
      /\ q'[last] = f
      /\ \A i \in DOMAIN q : i # last /\ q'[i] = q[i]
  BY <1>1
<1>3. \A d \in Sids : Places(d)' = Places(d) \cup (IF d = c THEN {last} ELSE {})
  BY <1>1, <1>2 DEF Places
<1>4. \A d \in Sids : Queued(d)' = Queued(d) \cup (IF d = c THEN {t} ELSE {})
  <2> SUFFICES ASSUME NEW d \in Sids
               PROVE  Queued(d)' = Queued(d) \cup (IF d = c THEN {t} ELSE {})
    OBVIOUS
  <2>1. /\ Queued(d)' = { q'[i].tuple : i \in Places(d)' }
        /\ Queued(d) = { q[i].tuple : i \in Places(d) }
        /\ Places(d) \subseteq DOMAIN q
    BY DEF Queued, Places
  <2>2. \A i \in Places(d) : q'[i] = q[i]
    BY <1>2, <2>1
  <2>3. q'[last].tuple = t
    BY <1>1, <1>2
  <2> QED
    BY <1>3, <2>1, <2>2, <2>3
<1>5. /\ Elements(out'[c]) \subseteq Elements(out[c]) \cup {t}
      /\ \A d \in Sids \ {c} : out'[d] = out[d]
      /\ \A d \in Sids : out[d] # <<>> => out'[d] # <<>> /\ out'[d][1] = out[d][1]
  <2>1. CASE UNCHANGED out
    BY <2>1
  <2>2. CASE CallSend(f)
    BY <1>1, <2>2, CallKnown
  <2> QED
    BY <1>1, <2>1, <2>2
<1>6. /\ Queued(c)' \subseteq Queued(c) \cup {t}
      /\ \A d \in Sids \ {c} : Queued(d)' = Queued(d)
  BY <1>4
<1> QED
  BY <1>5, <1>6

\* A push adds its tuple to those of its client.
LEMMA PushKnown ==
  ASSUME QueuesTypeOK, NEW c \in Sids, NEW type \in FrameTypes, NEW now \in BOOLEAN,
         PushTuple(c, type, now)
  PROVE  LET t == [type |-> type, n |-> pushed[c] + 1]
         IN  /\ Known(c)' \subseteq Known(c) \cup {t}
             /\ Queued(c)' \subseteq Queued(c) \cup (IF now THEN {t} ELSE {})
             /\ Elements(out'[c]) \subseteq Elements(out[c]) \cup (IF now THEN {t} ELSE {})
             /\ recv_buffers_'[c] # <<>>
             /\ pushed'[c] = pushed[c] + 1 /\ pushed[c] \in Nat
             /\ \A d \in Sids \ {c} :
                  /\ Known(d)' = Known(d) /\ Queued(d)' = Queued(d)
                  /\ UNCHANGED <<recv_buffers_[d], pushed[d], out[d]>>
             /\ \A d \in Sids : out[d] # <<>> => out'[d] # <<>> /\ out'[d][1] = out[d][1]
<1> DEFINE t == [type |-> type, n |-> pushed[c] + 1]
<1>1. /\ recv_buffers_' = [recv_buffers_ EXCEPT ![c] = Append(@, t)]
      /\ pushed' = [pushed EXCEPT ![c] = t.n]
      /\ now => SendToMainSocket(c, t)
      /\ ~now => UNCHANGED <<impl_send_buffers_, out>>
  BY DEF PushTuple, implVars
<1>2. /\ recv_buffers_ \in [Sids -> Seq(Tuples)] /\ pushed \in [Sids -> Nat]
      /\ pushed[c] \in Nat /\ t.n = pushed[c] + 1
  BY DEF QueuesTypeOK
<1>3. t \in Tuples
  BY <1>2 DEF Tuples
<1> HIDE DEF t
<1>4. /\ recv_buffers_'[c] = Append(recv_buffers_[c], t)
      /\ recv_buffers_[c] \in Seq(Tuples)
      /\ \A d \in Sids \ {c} : recv_buffers_'[d] = recv_buffers_[d]
      /\ pushed'[c] = pushed[c] + 1 /\ pushed[c] \in Nat
      /\ \A d \in Sids \ {c} : pushed'[d] = pushed[d]
  BY <1>1, <1>2
<1>5. /\ Elements(recv_buffers_'[c]) \subseteq Elements(recv_buffers_[c]) \cup {t}
      /\ recv_buffers_'[c] # <<>>
  <2>1. Elements(Append(recv_buffers_[c], t)) \subseteq Elements(recv_buffers_[c]) \cup {t}
    BY <1>3, <1>4, AppendElements
  <2>2. Append(recv_buffers_[c], t) # <<>>
    BY <1>3, <1>4
  <2> QED
    BY <1>4, <2>1, <2>2
<1>6. /\ Queued(c)' \subseteq Queued(c) \cup (IF now THEN {t} ELSE {})
      /\ Elements(out'[c]) \subseteq Elements(out[c]) \cup (IF now THEN {t} ELSE {})
      /\ \A d \in Sids \ {c} : Queued(d)' = Queued(d) /\ out'[d] = out[d]
      /\ \A d \in Sids : out[d] # <<>> => out'[d] # <<>> /\ out'[d][1] = out[d][1]
  <2>1. CASE ~now
    BY <1>1, <2>1 DEF Queued, Places
  <2>2. CASE now
    BY <1>1, <1>3, <2>2, SendKnown
  <2> QED
    BY <2>1, <2>2
<1>7. Known(c)' \subseteq Known(c) \cup {t}
  BY <1>5, <1>6 DEF Known
<1>8. \A d \in Sids \ {c} : Known(d)' = Known(d)
  BY <1>4, <1>6 DEF Known
<1> QED
  BY <1>4, <1>5, <1>6, <1>7, <1>8 DEF t

\* A pop sends a tuple that waits.
LEMMA PopKnown ==
  ASSUME QueuesTypeOK, NEW c \in Sids, recv_buffers_[c] # <<>>,
         NEW open \in BOOLEAN, PopTuple(c, open)
  PROVE  /\ \A d \in Sids : Known(d)' \subseteq Known(d)
         /\ \E t \in Known(c) : Queued(c)' \subseteq Queued(c) \cup (IF open THEN {t} ELSE {})
                                /\ Elements(out'[c]) \subseteq
                                     Elements(out[c]) \cup (IF open THEN {t} ELSE {})
         /\ \A d \in Sids \ {c} :
              Queued(d)' = Queued(d) /\ UNCHANGED <<recv_buffers_[d], out[d]>>
         /\ \A d \in Sids : out[d] # <<>> => out'[d] # <<>> /\ out'[d][1] = out[d][1]
<1> DEFINE rest == Tail(recv_buffers_[c])
<1>1. recv_buffers_[c] \in Seq(Tuples) /\ rest \in Seq(Tuples)
  BY DEF QueuesTypeOK
<1>2. /\ recv_buffers_' = [recv_buffers_ EXCEPT ![c] = rest]
      /\ IF rest # <<>> /\ open THEN SendToMainSocket(c, Head(rest))
                                ELSE UNCHANGED <<impl_send_buffers_, out>>
  BY DEF PopTuple, implVars
<1>3. /\ recv_buffers_'[c] = rest
      /\ \A d \in Sids \ {c} : recv_buffers_'[d] = recv_buffers_[d]
  BY <1>2 DEF QueuesTypeOK
<1>4. Elements(rest) \subseteq Elements(recv_buffers_[c])
      /\ Head(recv_buffers_[c]) \in Elements(recv_buffers_[c])
  BY <1>1, TailElements
<1> HIDE DEF rest
<1>5. PICK t \in Elements(recv_buffers_[c]) :
        rest # <<>> => t = Head(rest) /\ t \in Tuples
  <2>1. CASE rest = <<>>
    BY <1>4, <2>1
  <2>2. CASE rest # <<>>
    <3>1. Head(rest) \in Elements(rest) /\ Head(rest) \in Tuples
      BY <1>1, <2>2, TailElements
    <3> QED
      BY <1>4, <3>1
  <2> QED
    BY <2>1, <2>2
<1>6. /\ Queued(c)' \subseteq Queued(c) \cup (IF open THEN {t} ELSE {})
      /\ Elements(out'[c]) \subseteq Elements(out[c]) \cup (IF open THEN {t} ELSE {})
      /\ \A d \in Sids \ {c} : Queued(d)' = Queued(d) /\ out'[d] = out[d]
      /\ \A d \in Sids : out[d] # <<>> => out'[d] # <<>> /\ out'[d][1] = out[d][1]
  <2>1. CASE ~(rest # <<>> /\ open)
    BY <1>2, <2>1 DEF Queued, Places
  <2>2. CASE rest # <<>> /\ open
    BY <1>2, <1>5, <2>2, SendKnown
  <2> QED
    BY <2>1, <2>2
<1>7. t \in Known(c)
  BY <1>5 DEF Known
<1>8. \A d \in Sids : Known(d)' \subseteq Known(d)
  <2>1. Known(c)' \subseteq Known(c)
    BY <1>3, <1>4, <1>5, <1>6 DEF Known
  <2>2. \A d \in Sids \ {c} : Known(d)' = Known(d)
    BY <1>3, <1>6 DEF Known
  <2> QED
    BY <2>1, <2>2
<1> QED
  BY <1>3, <1>6, <1>7, <1>8

\* The second block of send_complete() hands over the tuple of a frame that
\* was in the queue.
LEMMA PopFrameKnown ==
  ASSUME QueuesTypeOK, SingleSend, PopFrame
  PROVE  /\ \A d \in Sids : /\ Known(d)' \subseteq Known(d)
                            /\ Queued(d)' \subseteq Queued(d)
                            /\ Elements(out'[d]) \subseteq Elements(out[d]) \cup Queued(d)
         /\ \A d \in Sids : out[d] # <<>> => out'[d] # <<>> /\ out'[d][1] = out[d][1]
         /\ HeadHanded'
<1> DEFINE q == impl_send_buffers_
           f == q[2]
<1>1. /\ finishing = "notified" /\ q' = Tail(q) /\ UNCHANGED recv_buffers_
      /\ q' # <<>> => CallSend(Head(q'))
      /\ q' = <<>> => UNCHANGED out
  BY DEF PopFrame, recvVars
<1>2. q \in Seq(Frames) /\ q # <<>>
  BY <1>1 DEF QueuesTypeOK, SingleSend
<1>3. /\ DOMAIN q' = 1 .. Len(q) - 1 /\ DOMAIN q = 1 .. Len(q) /\ Len(q) \in Nat
      /\ \A i \in DOMAIN q' : q'[i] = q[i + 1] /\ i + 1 \in DOMAIN q
      /\ q' # <<>> => /\ Head(q') = f /\ q'[1] = f /\ f \in Frames
                      /\ 2 \in DOMAIN q
  BY <1>1, <1>2
<1>4. \A d \in Sids : Queued(d)' \subseteq Queued(d)
  <2>1. \A d \in Sids : \A i \in Places(d)' : i + 1 \in Places(d) /\ q'[i] = q[i + 1]
    BY <1>3 DEF Places
  <2> QED
    BY <2>1 DEF Queued
<1>5. q' # <<>> => f.sid \in Sids /\ f.tuple \in Queued(f.sid)
  <2>1. q' # <<>> => 2 \in Places(f.sid) /\ f.sid \in Sids
    BY <1>3 DEF Places, Frames
  <2> QED
    BY <2>1 DEF Queued
<1> HIDE DEF f
<1>6. /\ \A d \in Sids : Elements(out'[d]) \subseteq Elements(out[d]) \cup Queued(d)
      /\ \A d \in Sids : out[d] # <<>> => out'[d] # <<>> /\ out'[d][1] = out[d][1]
      /\ q' # <<>> => f.tuple \in Elements(out'[f.sid])
  <2>1. CASE q' = <<>>
    BY <1>1, <2>1
  <2>2. CASE q' # <<>>
    <3>1. /\ \A d \in Sids \ {f.sid} : out'[d] = out[d]
          /\ Elements(out'[f.sid]) \subseteq Elements(out[f.sid]) \cup {f.tuple}
          /\ f.tuple \in Elements(out'[f.sid])
          /\ \A d \in Sids : out[d] # <<>> => out'[d] # <<>> /\ out'[d][1] = out[d][1]
      BY <1>1, <1>3, <2>2, CallKnown
    <3> QED
      BY <1>5, <2>2, <3>1
  <2> QED
    BY <2>1, <2>2
<1>7. \A d \in Sids : Known(d)' \subseteq Known(d)
  BY <1>1, <1>4, <1>6 DEF Known
<1> QED
  BY <1>3, <1>4, <1>6, <1>7 DEF HeadHanded

-----------------------------------------------------------------------------
(* Nothing is lost: what was handed over stays first, and a tuple of a     *)
(* connection stays in one of the three places.                            *)

\* r is s, perhaps with more behind it.
Begins(s, r) == \A i \in DOMAIN s : i \in DOMAIN r /\ r[i] = s[i]

\* A tuple of c was handed over, or waits in the queue for it.
Sent(c) == out[c] # <<>> \/ Places(c) # {}

\* The peer is told that c is closed, or will be.
Leaving(c) == \E t \in Known(c) : t.type = "tcp_disconnect"

\* What a step does to the tuples of c, if none is lost.
Grows(c) ==
  /\ Known(c) \subseteq Known(c)'
  /\ Begins(out[c], out'[c])
  /\ Sent(c) => Sent(c)'

LEMMA BeginsElements ==
  ASSUME NEW s, NEW r, Begins(s, r)
  PROVE  Elements(s) \subseteq Elements(r)
BY DEF Begins, Elements

\* cb_send_buffer_ called with a frame.
LEMMA CallGrows ==
  ASSUME QueuesTypeOK, NEW f \in Frames, CallSend(f)
  PROVE  \A d \in Sids : /\ Begins(out[d], out'[d])
                         /\ out[d] # <<>> => out'[d] # <<>>
<1>1. f.sid \in Sids /\ f.tuple \in Tuples
  BY DEF Frames
<1>2. out \in [Sids -> Seq(Tuples)] /\ out' = [out EXCEPT ![f.sid] = Append(@, f.tuple)]
  BY DEF QueuesTypeOK, CallSend
<1>3. out'[f.sid] = Append(out[f.sid], f.tuple) /\ out[f.sid] \in Seq(Tuples)
  BY <1>1, <1>2
<1>4. \A d \in Sids \ {f.sid} : out'[d] = out[d]
  BY <1>1, <1>2
<1>5. Begins(out[f.sid], out'[f.sid]) /\ out'[f.sid] # <<>>
  <2>1. \A s \in Seq(Tuples) : \A t \in Tuples :
          /\ Append(s, t) # <<>>
          /\ \A i \in DOMAIN s : i \in DOMAIN Append(s, t) /\ Append(s, t)[i] = s[i]
    OBVIOUS
  <2> QED
    BY <1>1, <1>3, <2>1 DEF Begins
<1>6. \A d \in Sids \ {f.sid} : Begins(out[d], out'[d])
  BY <1>4 DEF Begins
<1> QED
  BY <1>4, <1>5, <1>6

\* A frame that joins the queue.
LEMMA SendGrows ==
  ASSUME QueuesTypeOK, NEW c \in Sids, NEW t \in Tuples, SendToMainSocket(c, t)
  PROVE  /\ \A d \in Sids : /\ Begins(out[d], out'[d])
                            /\ Queued(d) \subseteq Queued(d)'
                            /\ Sent(d) => Sent(d)'
         /\ Sent(c)'
<1> DEFINE q == impl_send_buffers_
           f == [sid |-> c, tuple |-> t]
           last == Len(q) + 1
<1>1. /\ q' = Append(q, f) /\ (UNCHANGED out \/ CallSend(f))
      /\ f \in Frames /\ f.sid = c /\ q \in Seq(Frames)
  BY DEF SendToMainSocket, AddSendBuffer, QueuesTypeOK, Frames
<1> HIDE DEF f
<1>2. /\ last \in DOMAIN q' /\ q'[last] = f
      /\ \A i \in DOMAIN q : i \in DOMAIN q' /\ q'[i] = q[i]
  BY <1>1
<1>3. \A d \in Sids : Places(d) \subseteq Places(d)'
  BY <1>2 DEF Places
<1>4. last \in Places(c)'
  BY <1>1, <1>2 DEF Places
<1>5. \A d \in Sids : Queued(d) \subseteq Queued(d)'
  <2>1. \A d \in Sids : \A i \in Places(d) : i \in Places(d)' /\ q'[i] = q[i]
    BY <1>2, <1>3 DEF Places
  <2> QED
    BY <2>1 DEF Queued
<1>6. \A d \in Sids : Begins(out[d], out'[d]) /\ (out[d] # <<>> => out'[d] # <<>>)
  <2>1. CASE UNCHANGED out
    BY <2>1 DEF Begins
  <2>2. CASE CallSend(f)
    BY <1>1, <2>2, CallGrows
  <2> QED
    BY <1>1, <2>1, <2>2
<1> QED
  BY <1>3, <1>4, <1>5, <1>6 DEF Sent

\* A push.
LEMMA PushGrows ==
  ASSUME QueuesTypeOK, NEW c \in Sids, NEW type \in FrameTypes, NEW now \in BOOLEAN,
         PushTuple(c, type, now)
  PROVE  /\ \A d \in Sids : Grows(d)
         /\ [type |-> type, n |-> pushed[c] + 1] \in Known(c)'
         /\ now => Sent(c)'
<1> DEFINE t == [type |-> type, n |-> pushed[c] + 1]
<1>1. /\ recv_buffers_' = [recv_buffers_ EXCEPT ![c] = Append(@, t)]
      /\ now => SendToMainSocket(c, t)
      /\ ~now => UNCHANGED <<impl_send_buffers_, out>>
  BY DEF PushTuple, implVars
<1>2. t \in Tuples
  BY DEF QueuesTypeOK, Tuples
<1> HIDE DEF t
<1>3. /\ \A d \in Sids \ {c} : recv_buffers_'[d] = recv_buffers_[d]
      /\ recv_buffers_'[c] = Append(recv_buffers_[c], t)
      /\ recv_buffers_[c] \in Seq(Tuples)
  BY <1>1 DEF QueuesTypeOK
<1>4. \A d \in Sids : Begins(recv_buffers_[d], recv_buffers_'[d])
  BY <1>3 DEF Begins
<1>5. t \in Elements(recv_buffers_'[c])
  <2> DEFINE last == Len(recv_buffers_[c]) + 1
  <2>1. last \in DOMAIN recv_buffers_'[c] /\ recv_buffers_'[c][last] = t
    BY <1>2, <1>3
  <2> QED
    BY <2>1 DEF Elements
<1>6. /\ \A d \in Sids : /\ Begins(out[d], out'[d])
                         /\ Queued(d) \subseteq Queued(d)'
                         /\ Sent(d) => Sent(d)'
      /\ now => Sent(c)'
  <2>1. CASE now
    BY <1>1, <1>2, <2>1, SendGrows
  <2>2. CASE ~now
    BY <1>1, <2>2 DEF Begins, Queued, Places, Sent
  <2> QED
    BY <2>1, <2>2
<1>7. \A d \in Sids : Known(d) \subseteq Known(d)'
  BY <1>4, <1>6, BeginsElements DEF Known
<1> QED
  BY <1>5, <1>6, <1>7 DEF Grows, Known, t

\* A pop: the tuple that was sent stays in the queue until its frame is popped.
LEMMA PopGrows ==
  ASSUME QueuesTypeOK, SingleSend, FrameIsFront, finishing = "called",
         NEW c \in Sids, c = current_sending_user_, NEW open, PopTuple(c, open)
  PROVE  \A d \in Sids : Grows(d)
<1> DEFINE rest == Tail(recv_buffers_[c])
           q == impl_send_buffers_
<1>1. /\ recv_buffers_' = [recv_buffers_ EXCEPT ![c] = rest]
      /\ IF rest # <<>> /\ open THEN SendToMainSocket(c, Head(rest))
                                ELSE UNCHANGED <<impl_send_buffers_, out>>
      /\ recv_buffers_ \in [Sids -> Seq(Tuples)] /\ q \in Seq(Frames)
      /\ q # <<>> /\ c = q[1].sid
  BY DEF PopTuple, implVars, QueuesTypeOK, SingleSend
<1>2. 1 \in Live
  BY <1>1 DEF Live, FirstLive
<1>3. recv_buffers_[c] # <<>> /\ Head(recv_buffers_[c]) = q[1].tuple
  BY <1>1, <1>2 DEF FrameIsFront
<1>4. Head(recv_buffers_[c]) \in Queued(c)
  <2>1. 1 \in Places(c)
    BY <1>1 DEF Places
  <2> QED
    BY <1>3, <2>1 DEF Queued
<1>5. Elements(recv_buffers_[c]) \subseteq Elements(rest) \cup Queued(c)
  <2> SUFFICES ASSUME NEW i \in DOMAIN recv_buffers_[c]
               PROVE  recv_buffers_[c][i] \in Elements(rest) \cup Queued(c)
    BY DEF Elements
  <2>1. /\ recv_buffers_[c] \in Seq(Tuples) /\ DOMAIN rest = 1 .. Len(recv_buffers_[c]) - 1
        /\ \A j \in DOMAIN rest : rest[j] = recv_buffers_[c][j + 1]
        /\ recv_buffers_[c][1] = Head(recv_buffers_[c])
    BY <1>1, <1>3
  <2>2. CASE i = 1
    BY <1>4, <2>1, <2>2
  <2>3. CASE i # 1
    <3>1. i - 1 \in DOMAIN rest /\ (i - 1) + 1 = i
      BY <2>1, <2>3
    <3>2. rest[i - 1] = recv_buffers_[c][i]
      BY <2>1, <3>1
    <3> QED
      BY <3>1, <3>2 DEF Elements
  <2> QED
    BY <2>2, <2>3
<1>6. \A d \in Sids : /\ Begins(out[d], out'[d])
                      /\ Queued(d) \subseteq Queued(d)'
                      /\ Sent(d) => Sent(d)'
  <2>1. CASE rest # <<>> /\ open
    <3>1. PICK t \in Tuples : t = Head(rest)
      <4>1. rest \in Seq(Tuples)
        BY <1>1, <1>3
      <4> HIDE DEF rest
      <4> QED
        BY <2>1, <4>1
    <3> QED
      BY <1>1, <2>1, <3>1, SendGrows
  <2>2. CASE ~(rest # <<>> /\ open)
    BY <1>1, <2>2 DEF Begins, Queued, Places, Sent
  <2> QED
    BY <2>1, <2>2
<1>7. /\ recv_buffers_'[c] = rest
      /\ \A d \in Sids \ {c} : recv_buffers_'[d] = recv_buffers_[d]
  BY <1>1
<1> HIDE DEF rest
<1>8. Known(c) \subseteq Known(c)'
  BY <1>5, <1>6, <1>7, BeginsElements DEF Known
<1>9. \A d \in Sids \ {c} : Known(d) \subseteq Known(d)'
  BY <1>6, <1>7, BeginsElements DEF Known
<1> QED
  BY <1>6, <1>8, <1>9 DEF Grows

\* The second block of send_complete(): the frame that goes was handed over.
LEMMA PopFrameGrows ==
  ASSUME QueuesTypeOK, SingleSend, HeadHanded, PopFrame
  PROVE  \A d \in Sids : Grows(d)
<1> DEFINE q == impl_send_buffers_
<1>1. /\ finishing = "notified" /\ q' = Tail(q) /\ UNCHANGED recv_buffers_
      /\ q' # <<>> => CallSend(Head(q'))
      /\ q' = <<>> => UNCHANGED out
  BY DEF PopFrame, recvVars
<1>2. q \in Seq(Frames) /\ q # <<>>
  BY <1>1 DEF QueuesTypeOK, SingleSend
<1>3. /\ q' \in Seq(Frames)
      /\ \A i \in DOMAIN q : i # 1 => i - 1 \in DOMAIN q' /\ q'[i - 1] = q[i]
      /\ q' # <<>> => Head(q') \in Frames
  BY <1>1, <1>2
<1>4. \A d \in Sids : Begins(out[d], out'[d]) /\ (out[d] # <<>> => out'[d] # <<>>)
  <2>1. CASE q' = <<>>
    BY <1>1, <2>1 DEF Begins
  <2>2. CASE q' # <<>>
    BY <1>1, <1>3, <2>2, CallGrows
  <2> QED
    BY <2>1, <2>2
<1>5. ASSUME NEW d \in Sids, NEW i \in Places(d)
      PROVE  q[i].tuple \in Queued(d)' \cup Elements(out'[d]) /\ Sent(d)'
  <2>1. CASE i = 1
    <3>1. q[1].tuple \in Elements(out[d])
      BY <1>2, <1>5, <2>1 DEF HeadHanded, Places
    <3>2. out[d] # <<>>
      BY <3>1 DEF Elements
    <3> QED
      BY <1>4, <2>1, <3>1, <3>2, BeginsElements DEF Sent
  <2>2. CASE i # 1
    <3>1. i - 1 \in Places(d)' /\ q'[i - 1] = q[i]
      BY <1>3, <1>5, <2>2 DEF Places
    <3> QED
      BY <3>1 DEF Queued, Sent
  <2> QED
    BY <2>1, <2>2
<1>6. \A d \in Sids : Queued(d) \subseteq Queued(d)' \cup Elements(out'[d])
  BY <1>5 DEF Queued
<1>7. \A d \in Sids : Known(d) \subseteq Known(d)'
  BY <1>1, <1>4, <1>6, BeginsElements DEF Known
<1> QED
  BY <1>4, <1>5, <1>7 DEF Grows, Sent

LEMMA SendKeepsHead ==
  ASSUME QueuesTypeOK, HeadHanded, NEW c \in Sids, NEW t \in Tuples,
         SendToMainSocket(c, t)
  PROVE  HeadHanded'
<1> DEFINE q == impl_send_buffers_
           f == [sid |-> c, tuple |-> t]
<1>1. /\ q' = Append(q, f) /\ q \in Seq(Frames)
      /\ q = <<>> => CallSend(f)
      /\ f \in Frames /\ f.sid = c
  BY DEF SendToMainSocket, AddSendBuffer, QueuesTypeOK, Frames
<1> HIDE DEF f
<1>2. CASE q = <<>>
  <2>1. q'[1] = f
    BY <1>1, <1>2
  <2>2. f.tuple \in Elements(out'[c])
    BY <1>1, <1>2, CallKnown
  <2> QED
    BY <1>1, <2>1, <2>2 DEF HeadHanded
<1>3. CASE q # <<>>
  <2>1. q'[1] = q[1] /\ q[1] \in Frames
    BY <1>1, <1>3
  <2>2. q[1].sid \in Sids /\ q[1].tuple \in Elements(out[q[1].sid])
    BY <1>3, <2>1 DEF HeadHanded, Frames
  <2>3. Elements(out[q[1].sid]) \subseteq Elements(out'[q[1].sid])
    BY <2>2, SendGrows, BeginsElements
  <2> QED
    BY <2>1, <2>2, <2>3 DEF HeadHanded
<1> QED
  BY <1>2, <1>3

LEMMA PushKeepsHead ==
  ASSUME QueuesTypeOK, HeadHanded, NEW c \in Sids, NEW type \in FrameTypes,
         NEW now \in BOOLEAN, PushTuple(c, type, now)
  PROVE  HeadHanded'
<1> DEFINE t == [type |-> type, n |-> pushed[c] + 1]
<1>1. /\ now => SendToMainSocket(c, t)
      /\ ~now => UNCHANGED <<impl_send_buffers_, out>>
  BY DEF PushTuple, implVars
<1>2. t \in Tuples
  BY DEF QueuesTypeOK, Tuples
<1> HIDE DEF t
<1> QED
  BY <1>1, <1>2, SendKeepsHead DEF HeadHanded

LEMMA PopKeepsHead ==
  ASSUME QueuesTypeOK, HeadHanded, NEW c \in Sids, recv_buffers_[c] # <<>>,
         NEW open, PopTuple(c, open)
  PROVE  HeadHanded'
<1> DEFINE rest == Tail(recv_buffers_[c])
<1>1. /\ IF rest # <<>> /\ open THEN SendToMainSocket(c, Head(rest))
                                ELSE UNCHANGED <<impl_send_buffers_, out>>
  BY DEF PopTuple, implVars
<1>2. CASE rest # <<>> /\ open
  <2>1. rest \in Seq(Tuples)
    BY <1>2 DEF QueuesTypeOK
  <2> HIDE DEF rest
  <2>2. PICK t \in Tuples : t = Head(rest)
    BY <1>2, <2>1
  <2> QED
    BY <1>1, <1>2, <2>2, SendKeepsHead
<1>3. CASE ~(rest # <<>> /\ open)
  BY <1>1, <1>3 DEF HeadHanded
<1> QED
  BY <1>2, <1>3

-----------------------------------------------------------------------------
Numbers(s) == [i \in DOMAIN s |-> s[i].n]
Handed == [c \in Sids |-> Numbers(out[c])]

\* The initial states are those of FrameStream.
LEMMA InitIsInit == InitTransport => Stream!Init
<1> SUFFICES ASSUME InitTransport PROVE Stream!Init
  OBVIOUS
<1>1. pushed = [c \in Sids |-> 0] /\ \A c \in Sids : out[c] = <<>>
  BY DEF InitTransport
<1>2. \A c \in Sids : Numbers(out[c]) = <<>>
  <2>1. DOMAIN <<>> = {}
    OBVIOUS
  <2>2. Numbers(<<>>) = <<>>
    BY <2>1 DEF Numbers
  <2> QED
    BY <1>1, <2>2
<1> QED
  BY <1>1, <1>2 DEF Stream!Init, Numbers

\* The numbers of a sequence of tuples, and of one that grows.
LEMMA NumbersAppend ==
  ASSUME NEW s \in Seq(Tuples), NEW t \in Tuples
  PROVE  /\ Numbers(s) \in Seq(Nat)
         /\ Len(Numbers(s)) = Len(s)
         /\ Numbers(Append(s, t)) = Append(Numbers(s), t.n)
<1>1. \A u \in Tuples : u.n \in Nat
  BY DEF Tuples
<1>2. \A i \in DOMAIN s : s[i] \in Tuples /\ s[i].n \in Nat
  BY <1>1
<1>3. Numbers(s) \in Seq(Nat) /\ Len(Numbers(s)) = Len(s)
      /\ DOMAIN Numbers(s) = DOMAIN s
  BY <1>2 DEF Numbers
<1>4. Append(s, t) \in Seq(Tuples) /\ Append(Numbers(s), t.n) \in Seq(Nat)
  BY <1>1, <1>3
<1>5. DOMAIN Numbers(Append(s, t)) = DOMAIN Append(Numbers(s), t.n)
  BY <1>3, <1>4 DEF Numbers
<1>6. \A i \in DOMAIN Append(s, t) :
        Numbers(Append(s, t))[i] = Append(Numbers(s), t.n)[i]
  BY <1>3, <1>4 DEF Numbers
<1> QED
  BY <1>3, <1>4, <1>5, <1>6 DEF Numbers

\* Handing the host the next tuple of a client is the abstract Hand.
LEMMA CallIsHand ==
  ASSUME QueuesTypeOK, NEW c \in Sids, NEW t \in Tuples,
         out' = [out EXCEPT ![c] = Append(@, t)],
         t.n = Len(out[c]) + 1,
         pushed'[c] \in Nat, t.n <= pushed'[c]
  PROVE  Stream!Hand(c)
<1>1. out[c] \in Seq(Tuples) /\ Len(out[c]) \in Nat
  BY DEF QueuesTypeOK
<1>2. Handed[c] = Numbers(out[c]) /\ Len(Handed[c]) = Len(out[c])
  BY <1>1, NumbersAppend DEF Handed
<1>3. Numbers(Append(out[c], t)) = Append(Handed[c], Len(Handed[c]) + 1)
  BY <1>1, <1>2, NumbersAppend
<1>4. out'[c] = Append(out[c], t) /\ \A d \in Sids \ {c} : out'[d] = out[d]
  BY DEF QueuesTypeOK
<1>5. Handed' = [Handed EXCEPT ![c] = Append(@, Len(@) + 1)]
  <2>1. /\ Handed'[c] = Append(Handed[c], Len(Handed[c]) + 1)
        /\ \A d \in Sids \ {c} : Handed'[d] = Handed[d]
    BY <1>3, <1>4 DEF Handed
  <2>2. /\ Handed = [d \in Sids |-> Handed[d]]
        /\ Handed' = [d \in Sids |-> Handed'[d]]
    BY DEF Handed
  <2> HIDE DEF Handed
  <2> QED
    BY <2>1, <2>2
<1>6. Len(Handed[c]) < pushed'[c]
  BY <1>1, <1>2
<1> QED
  BY <1>5, <1>6 DEF Stream!Hand, Handed, Numbers

\* A push is the abstract Produce, and Hand too if the tuple goes out at once.
LEMMA PushIsStep ==
  ASSUME TransportInv, NEW c \in Sids, NEW type \in FrameTypes, NEW now \in BOOLEAN,
         now => recv_buffers_[c] = <<>>,
         PushTuple(c, type, now)
  PROVE  Stream!Step(c)
<1> DEFINE t == [type |-> type, n |-> pushed[c] + 1]
<1>1. /\ pushed' = [pushed EXCEPT ![c] = t.n]
      /\ now => SendToMainSocket(c, t)
      /\ ~now => UNCHANGED implVars
  BY DEF PushTuple
<1>2. QueuesTypeOK /\ pushed[c] \in Nat
  BY DEF TransportInv, QueuesTypeOK
<1>3. t \in Tuples /\ t.n = pushed[c] + 1
  BY <1>2 DEF Tuples
<1> HIDE DEF t
<1>4. Stream!Produce(c) /\ pushed'[c] = t.n /\ t.n \in Nat
  BY <1>1, <1>2, <1>3 DEF Stream!Produce, QueuesTypeOK
<1>5. CASE now /\ impl_send_buffers_ = <<>>
  <2>1. out' = [out EXCEPT ![c] = Append(@, t)]
    BY <1>1, <1>5 DEF SendToMainSocket, AddSendBuffer, CallSend
  <2>2. Len(out[c]) = pushed[c]
    BY <1>5 DEF TransportInv, HandedInOrder
  <2>3. Stream!Hand(c)
    <3>1. pushed'[c] \in Nat /\ t.n <= pushed'[c] /\ t.n = Len(out[c]) + 1
      BY <1>3, <1>4, <2>2
    <3> QED
      BY <1>2, <1>3, <2>1, <3>1, CallIsHand
  <2> QED
    BY <1>4, <2>3 DEF Stream!Step
<1>6. CASE ~(now /\ impl_send_buffers_ = <<>>)
  <2>1. out' = out
    BY <1>1, <1>6 DEF SendToMainSocket, AddSendBuffer, implVars
  <2> QED
    BY <1>4, <2>1 DEF Stream!Step
<1> QED
  BY <1>5, <1>6

\* The next frame of the queue is the next one of its client's stream.
LEMMA PopFrameIsStep ==
  ASSUME TransportInv, PopFrame
  PROVE  (\E c \in Sids : Stream!Step(c)) \/ UNCHANGED <<pushed, out>>
<1>1. CASE impl_send_buffers_' = <<>>
  BY <1>1 DEF PopFrame, recvVars
<1>2. CASE impl_send_buffers_' # <<>>
  <2> DEFINE f == impl_send_buffers_[2]
  <2>1. QueuesTypeOK /\ impl_send_buffers_ \in Seq(Frames)
    BY DEF TransportInv, QueuesTypeOK
  <2>2. /\ finishing = "notified" /\ UNCHANGED pushed
        /\ impl_send_buffers_' = Tail(impl_send_buffers_)
        /\ CallSend(Head(impl_send_buffers_'))
    BY <1>2 DEF PopFrame, recvVars
  <2>3. impl_send_buffers_ # <<>>
    BY <2>1, <2>2 DEF TransportInv, SingleSend, QueuesTypeOK
  <2>4. 2 \in Live /\ Head(impl_send_buffers_') = f
    BY <1>2, <2>1, <2>2, <2>3 DEF Live, FirstLive
  <2>5. /\ f.sid \in Sids /\ f.tuple \in Tuples
        /\ recv_buffers_[f.sid] # <<>> /\ f.tuple = Head(recv_buffers_[f.sid])
        /\ Len(out[f.sid]) = f.tuple.n - 1
    BY <2>1, <2>4, LiveFrames
       DEF TransportInv, FrameIsFront, LiveHanded
  <2>6. out' = [out EXCEPT ![f.sid] = Append(@, f.tuple)]
    BY <2>2, <2>4 DEF CallSend
  <2> HIDE DEF f
  <2>7. recv_buffers_[f.sid] \in Seq(Tuples) /\ pushed[f.sid] \in Nat
        /\ Len(out[f.sid]) \in Nat
    BY <2>1, <2>5 DEF QueuesTypeOK
  <2>8. f.tuple.n = pushed[f.sid] - Len(recv_buffers_[f.sid]) + 1
    BY <2>5, <2>7 DEF TransportInv, Numbered
  <2>9. f.tuple.n \in Nat /\ f.tuple.n = Len(out[f.sid]) + 1
        /\ f.tuple.n <= pushed'[f.sid] /\ pushed'[f.sid] \in Nat
    <3>1. f.tuple.n \in Nat
      BY <2>5 DEF Tuples
    <3>2. Len(recv_buffers_[f.sid]) >= 1
      BY <2>5, <2>7
    <3> QED
      BY <2>2, <2>5, <2>7, <2>8, <3>1, <3>2
  <2>a. PICK c \in Sids : c = f.sid
    BY <2>5
  <2>b. PICK t \in Tuples : t = f.tuple
    BY <2>5
  <2>10. Stream!Hand(c)
    <3>1. /\ out' = [out EXCEPT ![c] = Append(@, t)]
          /\ t.n = Len(out[c]) + 1
          /\ pushed'[c] \in Nat /\ t.n <= pushed'[c]
      BY <2>6, <2>9, <2>a, <2>b
    <3> QED
      BY <2>1, <3>1, CallIsHand
  <2> QED
    BY <2>2, <2>10 DEF Stream!Step
<1> QED
  BY <1>1, <1>2

\* Sending what waited is the abstract Hand, or waits behind other frames.
LEMMA SendFrontIsStep ==
  ASSUME TransportInv, NEW c \in Sids, recv_buffers_[c] # <<>>,
         Len(out[c]) = pushed[c] - Len(recv_buffers_[c]),
         SendToMainSocket(c, Head(recv_buffers_[c])), UNCHANGED pushed
  PROVE  Stream!Step(c)
<1> DEFINE t == Head(recv_buffers_[c])
<1>1. /\ QueuesTypeOK
      /\ recv_buffers_[c] \in Seq(Tuples) /\ Len(recv_buffers_[c]) \in Nat \ {0}
      /\ pushed[c] \in Nat /\ pushed'[c] = pushed[c]
  BY DEF TransportInv, QueuesTypeOK
<1>2. /\ t \in Tuples /\ 1 \in DOMAIN recv_buffers_[c] /\ t = recv_buffers_[c][1]
  BY <1>1
<1>3. t.n = pushed[c] - Len(recv_buffers_[c]) + 1
  BY <1>2 DEF TransportInv, Numbered
<1>4. CASE impl_send_buffers_ = <<>>
  <2>1. out' = [out EXCEPT ![c] = Append(@, t)]
    BY <1>4 DEF SendToMainSocket, AddSendBuffer, CallSend
  <2> HIDE DEF t
  <2>2. t.n = Len(out[c]) + 1 /\ pushed'[c] \in Nat /\ t.n <= pushed'[c]
    BY <1>1, <1>3
  <2>3. PICK u \in Tuples : u = t
    BY <1>2
  <2>4. Stream!Hand(c)
    BY <1>1, <2>1, <2>2, <2>3, CallIsHand
  <2> QED
    BY <2>4 DEF Stream!Step
<1>5. CASE impl_send_buffers_ # <<>>
  <2>1. out' = out
    BY <1>5 DEF SendToMainSocket, AddSendBuffer
  <2> QED
    BY <2>1 DEF Stream!Step
<1> QED
  BY <1>4, <1>5

=============================================================================
