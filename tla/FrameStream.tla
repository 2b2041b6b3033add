----------------------------- MODULE FrameStream -----------------------------
(***************************************************************************)
(* What either end of the tunnel promises about the frames it multiplexes  *)
(* on the main transport.  Each connection produces a stream of frames,    *)
(* numbered 1, 2, ...; the transport is handed the frames of a connection  *)
(* in the order in which they were produced, none twice and none left out. *)
(* How the streams of different connections interleave is not specified,   *)
(* and a stream may stop being handed over (its connection was dropped).   *)
(***************************************************************************)
EXTENDS Naturals, Sequences

CONSTANT Sids

VARIABLES
  produced,   \* per connection, the frames produced so far
  handed      \* per connection, the numbers handed to the transport

Init ==
  /\ produced = [c \in Sids |-> 0]
  /\ handed = [c \in Sids |-> <<>>]

Produce(c) == produced' = [produced EXCEPT ![c] = @ + 1]

\* Hand over the next frame of c, which may be the one this step produces.
Hand(c) ==
  /\ Len(handed[c]) < produced'[c]
  /\ handed' = [handed EXCEPT ![c] = Append(@, Len(@) + 1)]

Step(c) ==
  /\ Produce(c) \/ UNCHANGED produced
  /\ Hand(c) \/ UNCHANGED handed

Next == \E c \in Sids : Step(c)

Spec == Init /\ [][Next]_<<produced, handed>>
=============================================================================
