------------------------------ MODULE PppStream ------------------------------
(***************************************************************************)
(* What the PPP over TLS framing promises to the PPP layer above it, with  *)
(* no parser in it: the frames of the peer are handed up whole, one by one *)
(* and in their order, until the tunnel breaks.  Nothing is handed up      *)
(* beyond a frame whose header cannot be accepted, since the stream cannot *)
(* be resynchronised.                                                      *)
(***************************************************************************)
EXTENDS Naturals, Sequences

CONSTANTS
    HeaderSize,   \* sizeof(ppp_header), in bytes
    MaxFrame      \* the longest payload accepted

VARIABLES
    frames,       \* the frames of the peer: position, payload size, soundness
    received,     \* the payloads handed to PPP, as positions in the stream
    up            \* is the tunnel still there?

vars == <<frames, received, up>>

Frame == [first : Nat \ {0}, size : Nat, sound : BOOLEAN]

\* The stream positions of the payload of a frame.
Payload(f) == [i \in 1..f.size |-> f.first + HeaderSize + i - 1]

\* The header is consistent and the size within the limit and not null.
Acceptable(f) == f.sound /\ f.size \in 1..MaxFrame

Init == frames = <<>> /\ received = <<>> /\ up = TRUE

PeerSends ==
    /\ frames' \in Seq(Frame)
    /\ Len(frames') = Len(frames) + 1
    /\ \A i \in 1..Len(frames) : frames'[i] = frames[i]
    /\ UNCHANGED <<received, up>>

Deliver ==
    /\ up = TRUE
    /\ Len(received) < Len(frames)
    /\ \A k \in 1..Len(received) + 1 : Acceptable(frames[k])
    /\ received' = Append(received, Payload(frames[Len(received) + 1]))
    /\ UNCHANGED <<frames, up>>

Break == up' = FALSE /\ UNCHANGED <<frames, received>>

Next == PeerSends \/ Deliver \/ Break

Spec == Init /\ [][Next]_vars
=============================================================================
