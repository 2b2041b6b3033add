----------------------------- MODULE RelayClient -----------------------------
(***************************************************************************)
(* The class `client` as far as it is the same code in both managers: it   *)
(* reads chunks from its socket into recv_buffers_, until queue_max_num of *)
(* them wait, and writes the chunks that recv() brings from the peer to    *)
(* the socket, one at a time.  socket_base (src/sunny_common.h) runs the   *)
(* asynchronous operations.  When and why these happen, and who answers    *)
(* whom, is up to the manager that extends this module.                    *)
(***************************************************************************)
EXTENDS MainTransport

CONSTANTS
  QueueMax,   \* queue_max_num (64 in sunny_common.h)
  MaxReads,   \* bound: chunks read from one socket
  MaxFrames   \* bound: tcp_data frames the peer sends for one connection

ASSUME QueueMaxAssumption == QueueMax \in Nat /\ QueueMax > 1
ASSUME BoundsAssumption == MaxReads \in Nat /\ MaxFrames \in Nat

\* The mark at which a completed send re-arms reading: queue_max_num / 3.
ResumeAt == QueueMax \div 3

VARIABLES
  clients_map_,           \* ids with an entry in the map
  removing,               \* remove_self() is posted and has not run
  is_reading_,
  reads,                  \* read operations outstanding on the socket
  stopping,               \* a read callback has unlocked and will clear is_reading_
  send_buffers_,          \* chunks from the peer, to be written to the socket
  write_buffer_,          \* what the last do_write copied
  writes,                 \* async_write operations outstanding on the socket
  received,               \* history: tcp_data frames recv() was called with
  written                 \* history: chunks the socket accepted

readVars  == <<is_reading_, reads, stopping>>
writeVars == <<send_buffers_, write_buffer_, writes, written>>

\* Chunk k > 0 is the k-th tcp_data frame; this one comes before them.
FirstChunk == 0
-----------------------------------------------------------------------------
\* Mutant: tcp_disconnect does not wait for its turn.
SendDisconnectAtOnce(c) ==
  /\ PushTuple(c, "tcp_disconnect", TRUE)
  /\ removing' = [removing EXCEPT ![c] = TRUE]

\* Mutant: remove_self() is not posted.
SendDisconnectKeepsClient(c) ==
  /\ PushTuple(c, "tcp_disconnect", recv_buffers_[c] = <<>>)
  /\ UNCHANGED removing

\* client::send_disconnect, with the remove_self() it posts.
SendDisconnect(c) ==
  /\ PushTuple(c, "tcp_disconnect", recv_buffers_[c] = <<>>)
  /\ removing' = [removing EXCEPT ![c] = TRUE]
-----------------------------------------------------------------------------
(* From the socket to the peer.                                            *)

\* read_some(): one more asynchronous read on the socket.
ReadSome(c) == reads' = [reads EXCEPT ![c] = @ + 1]

\* Mutant: one chunk too many before reading stops.
ReadOnUnlessOverfull(c, size) ==
  IF size <= QueueMax
    THEN UNCHANGED <<reads, stopping>>
    ELSE /\ reads' = [reads EXCEPT ![c] = @ - 1]
         /\ stopping' = [stopping EXCEPT ![c] = TRUE]

\* After a push that left size tuples: read on, or go on to clear
\* is_reading_, which happens after the mutex is released.
ReadOnUnlessFull(c, size) ==
  IF size < QueueMax
    THEN UNCHANGED <<reads, stopping>>
    ELSE /\ reads' = [reads EXCEPT ![c] = @ - 1]
         /\ stopping' = [stopping EXCEPT ![c] = TRUE]

\* is_reading_ = false, the tail of the callback that filled the queue.
ClearReading(c) ==
  /\ stopping[c]
  /\ is_reading_' = [is_reading_ EXCEPT ![c] = FALSE]
  /\ stopping' = [stopping EXCEPT ![c] = FALSE]

\* Mutant: the flag is set, the read is not started.
RearmReadingFlagOnly(c, size) ==
  /\ is_reading_' = [is_reading_ EXCEPT ![c] = @ \/ size <= ResumeAt]
  /\ UNCHANGED reads

\* enable_read_some when the backlog has come down to the mark.
RearmReading(c, size) ==
  IF size <= ResumeAt /\ ~is_reading_[c]
    THEN /\ is_reading_' = [is_reading_ EXCEPT ![c] = TRUE]
         /\ ReadSome(c)
    ELSE UNCHANGED <<is_reading_, reads>>

\* client::notify_main_socket_complete; the next tuple is sent if open holds.
NotifyMainSocketComplete(c, open) ==
  /\ PopTuple(c, open)
  /\ RearmReading(c, Len(recv_buffers_[c]) - 1)
-----------------------------------------------------------------------------
(* From the peer to the socket.                                            *)

\* do_write: copy the chunk and start the asynchronous write.
DoWrite(c, chunk) ==
  /\ write_buffer_' = [write_buffer_ EXCEPT ![c] = chunk]
  /\ writes' = [writes EXCEPT ![c] = @ + 1]

\* Mutant: every chunk is written at once.
ClientAddSendBufferAlwaysWrites(c, chunk, open) ==
  /\ send_buffers_' = [send_buffers_ EXCEPT ![c] = Append(@, chunk)]
  /\ DoWrite(c, chunk)

\* client::add_send_buffer: only a chunk that is alone is written at once,
\* if open holds.
ClientAddSendBuffer(c, chunk, open) ==
  /\ send_buffers_' = [send_buffers_ EXCEPT ![c] = Append(@, chunk)]
  /\ IF send_buffers_[c] = <<>> /\ open
       THEN DoWrite(c, chunk)
       ELSE UNCHANGED <<write_buffer_, writes>>

\* Mutant: the front is taken before the pop.
PopAndRewrite(c) ==
  LET rest == Tail(send_buffers_[c])
  IN  /\ send_buffers_' = [send_buffers_ EXCEPT ![c] = rest]
      /\ IF rest # <<>>
           THEN /\ write_buffer_' = [write_buffer_ EXCEPT ![c] = Head(send_buffers_[c])]
                /\ UNCHANGED writes
           ELSE /\ writes' = [writes EXCEPT ![c] = @ - 1]
                /\ UNCHANGED write_buffer_

\* The write callback: pop the chunk that was written, write the next one.
PopAndWriteNext(c) ==
  LET rest == Tail(send_buffers_[c])
  IN  /\ send_buffers_' = [send_buffers_ EXCEPT ![c] = rest]
      /\ IF rest # <<>>
           THEN /\ write_buffer_' = [write_buffer_ EXCEPT ![c] = Head(rest)]
                /\ UNCHANGED writes
           ELSE /\ writes' = [writes EXCEPT ![c] = @ - 1]
                /\ UNCHANGED write_buffer_

InitRelay ==
  /\ InitTransport
  /\ clients_map_ = {}
  /\ removing = [c \in Sids |-> FALSE]
  /\ is_reading_ = [c \in Sids |-> TRUE]
  /\ reads = [c \in Sids |-> 0]
  /\ stopping = [c \in Sids |-> FALSE]
  /\ send_buffers_ = [c \in Sids |-> <<>>]
  /\ write_buffer_ = [c \in Sids |-> FirstChunk]
  /\ writes = [c \in Sids |-> 0]
  /\ received = [c \in Sids |-> 0]
  /\ written = [c \in Sids |-> <<>>]
-----------------------------------------------------------------------------
(* Properties of both managers.                                            *)

RelayTypeOK ==
  /\ removing \in [Sids -> BOOLEAN]
  /\ is_reading_ \in [Sids -> BOOLEAN]
  /\ reads \in [Sids -> Nat]
  /\ stopping \in [Sids -> BOOLEAN]
  /\ send_buffers_ \in [Sids -> Seq(Nat)]
  /\ write_buffer_ \in [Sids -> Nat]
  /\ writes \in [Sids -> Nat]
  /\ received \in [Sids -> Nat]
  /\ written \in [Sids -> Seq(Nat)]

\* socket_base's read_ready_ and write_ready_ (asserted in sunny_common.h):
\* never two reads or two writes at once on one socket, though a read is
\* started by the read callback and by send_complete(), and a write by
\* recv() and by the write callback.
SocketDiscipline == \A c \in Sids : reads[c] <= 1 /\ writes[c] <= 1

\* Flow control: a connection's backlog never passes queue_max_num by more
\* than its tcp_disconnect, whoever re-arms reading.
BacklogBounded == \A c \in Sids : Len(recv_buffers_[c]) <= QueueMax + 1

\* The socket is written the chunk that comes before the peer's data, if
\* any, then the data in the order recv() was called, no chunk twice and none
\* skipped.
WrittenInOrder ==
  \A c \in Sids :
    LET w    == written[c]
        base == IF w # <<>> /\ w[1] = FirstChunk THEN 1 ELSE 0
    IN  \A i \in DOMAIN w : w[i] = i - base

\* A connection the peer is told is closed does not stay in the map: it is
\* out of it or its remove_self() is still to run.
ClosedIsRemoved ==
  \A c \in clients_map_ :
    (\E i \in DOMAIN out[c] : out[c][i].type = "tcp_disconnect") => removing[c]
=============================================================================
