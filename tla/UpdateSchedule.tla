--------------------------- MODULE UpdateSchedule ---------------------------
(* What the engine's scheduler promises its clients: an object is updated   *)
(* only while it is registered, one object at a time, and at most once in a *)
(* frame; and an object that stays registered is updated again and again.   *)
CONSTANTS Objects, NoObject

VARIABLES
    registered,     \* the objects that have asked to be updated
    updated,        \* the objects whose update has begun in this frame
    running         \* the object that is being updated, or NoObject

vars == <<registered, updated, running>>

Init == registered = {} /\ updated = {} /\ running = NoObject

Register(o) ==
    /\ registered' = registered \cup {o}
    /\ UNCHANGED <<updated, running>>

Unregister(o) ==
    /\ registered' = registered \ {o}
    /\ UNCHANGED <<updated, running>>

NewFrame ==
    /\ running = NoObject
    /\ updated' = {}
    /\ UNCHANGED <<registered, running>>

Begin(o) ==
    /\ running = NoObject /\ o \in registered \ updated
    /\ running' = o
    /\ updated' = updated \cup {o}
    /\ UNCHANGED registered

End ==
    /\ running' = NoObject
    /\ UNCHANGED <<registered, updated>>

Next ==
    \/ \E o \in Objects : Register(o) \/ Unregister(o) \/ Begin(o)
    \/ NewFrame \/ End

Spec == Init /\ [][Next]_vars

=============================================================================
