----------------------------- MODULE FrameWork -----------------------------
(* What the two threads of the engine promise the tasks of a frame: each    *)
(* task that FrameMove has queued is run once, in the order of the queue    *)
(* and with the frame's number, and then the frame's objects of seqFrameMT, *)
(* all of it before the next frame moves or a loading event is run.         *)
EXTENDS Naturals, Sequences

CONSTANTS Batches, FrameMT

VARIABLES
    frame,      \* the number of the frame
    todo        \* the frame's work that is still to be done

vars == <<frame, todo>>

Init == frame \in Nat /\ todo = <<>>

Move ==
    /\ todo = <<>>
    /\ frame' = frame + 1
    /\ \E b \in Batches : todo' = Append(b, FrameMT)

Load ==
    /\ todo = <<>>
    /\ frame' \in {frame, frame + 1}
    /\ UNCHANGED todo

Do ==
    /\ todo # <<>>
    /\ todo' = Tail(todo)
    /\ UNCHANGED frame

Next == Move \/ Load \/ Do

Spec == Init /\ [][Next]_vars

=============================================================================
