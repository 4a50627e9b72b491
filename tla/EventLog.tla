------------------------------ MODULE EventLog ------------------------------
(* What the game expects of its delayed events: they are run one at a time, *)
(* in the order in which they were posted, once each, and an event may be   *)
(* withdrawn as long as it has not been started.                            *)
EXTENDS Sequences, Functions, Subsequences

CONSTANTS Events, NoEvent

VARIABLES
    pending,    \* posted and not yet started
    running     \* the event being run, or NoEvent

Init == pending = <<>> /\ running = NoEvent

Post(e) == pending' = Append(pending, e) /\ UNCHANGED running

Start ==
    /\ running = NoEvent /\ pending # <<>>
    /\ running' = Head(pending) /\ pending' = Tail(pending)

Finish == running # NoEvent /\ running' = NoEvent /\ UNCHANGED pending

\* Only the events of S stay.
Withdraw(S) == pending' = Kept(pending, S) /\ UNCHANGED running

Next ==
    \/ \E e \in Events : Post(e)
    \/ \E S \in SUBSET Range(pending) : Withdraw(S)
    \/ Start \/ Finish

Spec == Init /\ [][Next]_<<pending, running>>

=============================================================================
