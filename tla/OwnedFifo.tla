------------------------------ MODULE OwnedFifo ------------------------------
(* What a one_way_threads_channel promises: values reach the user in the    *)
(* order in which the owner pushed them, the user may use a value until it  *)
(* has given it back, and the owner frees nothing but what was given back.  *)
EXTENDS Sequences, Functions

CONSTANT Values

VARIABLES
    queue,      \* pushed and not yet popped
    held,       \* popped, and still at the user's disposal
    garbage,    \* given back, and not yet freed
    open        \* has the user not stopped?

vars == <<queue, held, garbage, open>>

Existing    == Range(queue) \cup held \cup garbage

Init ==
    /\ queue = <<>>
    /\ held \subseteq Values
    /\ garbage \subseteq Values \ held
    /\ open = TRUE

Push(v) ==
    /\ v \notin Existing
    /\ queue' = Append(queue, v)
    /\ UNCHANGED <<held, garbage, open>>

\* The next value is popped; the values of `back' are given back by that.
Pop(back) ==
    /\ open
    /\ queue # <<>>
    /\ queue' = Tail(queue)
    /\ held' = (held \ back) \cup {Head(queue)}
    /\ garbage' = garbage \cup back
    /\ UNCHANGED open

GiveBack(v) ==
    /\ open
    /\ held' = held \ {v}
    /\ garbage' = garbage \cup {v}
    /\ UNCHANGED <<queue, open>>

Free(v) ==
    /\ garbage' = garbage \ {v}
    /\ UNCHANGED <<queue, held, open>>

Close == open /\ open' = FALSE /\ UNCHANGED <<queue, held, garbage>>

\* The user has stopped: the owner may free everything, in any order.
Discard ==
    /\ ~open /\ UNCHANGED open
    /\ Existing' \subseteq Existing

Next ==
    \/ \E v \in Values : Push(v)
    \/ \E v \in held : GiveBack(v)
    \/ \E v \in garbage : Free(v)
    \/ \E back \in SUBSET held : Pop(back)
    \/ Close \/ Discard

Spec == Init /\ [][Next]_vars

=============================================================================
