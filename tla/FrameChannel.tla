---------------------------- MODULE FrameChannel ----------------------------
(***************************************************************************)
(* What one direction of the bridge promises, without its buffers, queues, *)
(* interrupts and tasks: a bounded channel that may lose frames but never  *)
(* reorders, duplicates, tears or invents one.  Frames are numbered in the *)
(* order the sender handed them over.  Downlink implements it.             *)
(***************************************************************************)
EXTENDS Naturals, Sequences

CONSTANTS
    Ports,      \* where frames come out
    Capacity    \* how many frames the channel may hold

VARIABLES
    sent,       \* how many frames the sender has handed over
    pending,    \* numbers of the frames in the channel, oldest first
    out         \* out[p]: numbers of the frames that came out at p, in order

vars == <<sent, pending, out>>

Init ==
    /\ sent = 0
    /\ pending = << >>
    /\ out = [p \in Ports |-> << >>]

(* The next frame enters the channel. *)
Accept ==
    /\ Len(pending) < Capacity
    /\ sent' = sent + 1
    /\ pending' = Append(pending, sent + 1)
    /\ UNCHANGED out

(* The next frame is lost on entry. *)
Lose ==
    /\ sent' = sent + 1
    /\ UNCHANGED <<pending, out>>

(* The oldest frame comes out at p, where it has not come out before. *)
Emit(p) ==
    /\ pending # << >>
    /\ \A i \in DOMAIN out[p] : out[p][i] < Head(pending)
    /\ out' = [out EXCEPT ![p] = Append(@, Head(pending))]
    /\ UNCHANGED <<sent, pending>>

(* The channel is done with the oldest frame, wherever it came out. *)
Finish ==
    /\ pending # << >>
    /\ pending' = Tail(pending)
    /\ UNCHANGED <<sent, out>>

Next ==
    \/ Accept
    \/ Lose
    \/ \E p \in Ports : Emit(p)
    \/ Finish

Spec == Init /\ [][Next]_vars
=============================================================================
