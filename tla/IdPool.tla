-------------------------------- MODULE IdPool --------------------------------
(* What CID_Generator promises to xrServer: an id has at most one user, and  *)
(* an id that is given back can be had again.                                *)
CONSTANT Values

VARIABLES free, used

vars == <<free, used>>

Init == free = Values /\ used = {}

Get(v)    == v \in free /\ free' = free \ {v} /\ used' = used \cup {v}
Return(v) == v \in used /\ used' = used \ {v} /\ free' = free \cup {v}

Next == \E v \in Values : Get(v) \/ Return(v)

Spec == Init /\ [][Next]_vars

=============================================================================
