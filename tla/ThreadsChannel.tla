--------------------------- MODULE ThreadsChannel ---------------------------
(* one_way_threads_channel (src/network): two threads share two intrusive   *)
(* single-producer single-consumer queues.  The owner allocates values and  *)
(* pushes them to the forward queue; the user pops them and hands them back *)
(* through the backward queue; only the owner frees.  Both queues link the  *)
(* values by the same member `next', and each always contains one node      *)
(* more than values: the null node at m_tail.                               *)
(*                                                                          *)
(* An action ends where the thread has touched what the other can see: a    *)
(* push first publishes the node (the interlocked exchange) and then moves  *)
(* m_head, a pop first reads `next' and then moves m_tail.  Each of m_head  *)
(* and m_tail is used by one thread only.                                   *)
EXTENDS Integers, Sequences, FiniteSets, Functions

CONSTANTS Nodes, Null

ASSUME NullAssumption == Null \notin Nodes

Queues == {"forward", "backward"}

VARIABLES
    next,       \* the member the queues link their values by
    head,       \* m_head of each queue
    tail,       \* m_tail of each queue
    allocated,  \* values in memory
    kept,       \* the container of values the user has deferred
    owner,      \* what the owner's thread is doing
    ownerReg,   \* the local variable `value' of its push or pop
    user,       \* what the user's thread is doing
    userReg,    \* the local variable `value' of its pop, afterwards the result
    userItem,   \* the local variable value_to_delete of the user
    list        \* history: the nodes of each queue from m_tail on

queueVars == <<next, head, tail, list>>
ownerVars == <<owner, ownerReg>>
userVars  == <<user, userReg, userItem, kept>>
vars      == <<queueVars, ownerVars, userVars, allocated>>

OwnerStates == {"idle", "pushing", "reclaiming", "deleting",
                "dropping", "draining", "sweeping", "closed"}
UserStates  == {"idle", "popping", "handing", "handed", "stopped"}

-----------------------------------------------------------------------------
(* intrusive_spsc_queue.                                                    *)

\* push_back up to the interlocked exchange.
Publish(q, v) ==
    /\ next' = [next EXCEPT ![v] = Null, ![head[q]] = v]
    /\ list' = [list EXCEPT ![q] = Append(@, v)]

\* Mutant of MoveHead: m_head stays at the former last node.
MoveHeadStays(q, v) == v \in Nodes /\ UNCHANGED head

\* The end of push_back.
MoveHead(q, v) == head' = [head EXCEPT ![q] = v]

\* What pop_front reads first.
NextValue(q) == next[tail[q]]

\* The end of pop_front: the former null node is the item to delete.
MoveTail(q, v) ==
    /\ tail' = [tail EXCEPT ![q] = v]
    /\ list' = [list EXCEPT ![q] = Tail(@)]

-----------------------------------------------------------------------------
(* The owner's thread.                                                      *)

OwnerPush(v) ==
    /\ owner = "idle"
    /\ v \notin allocated
    /\ allocated' = allocated \cup {v}
    /\ Publish("forward", v)
    /\ owner' = "pushing" /\ ownerReg' = v
    /\ UNCHANGED <<head, tail, userVars>>

OwnerPushed ==
    /\ owner = "pushing"
    /\ MoveHead("forward", ownerReg)
    /\ owner' = "idle"
    /\ UNCHANGED <<next, tail, list, ownerReg, userVars, allocated>>

\* owner_delete_processed_items begins.
OwnerReclaims ==
    /\ owner = "idle"
    /\ owner' = "reclaiming"
    /\ UNCHANGED <<queueVars, ownerReg, userVars, allocated>>

\* The loop of owner_delete_processed_items: it ends when the queue is empty,
\* else pop_front goes on.
OwnerPops ==
    /\ owner = "reclaiming"
    /\ owner' = IF NextValue("backward") = Null THEN "idle" ELSE "deleting"
    /\ ownerReg' = NextValue("backward")
    /\ UNCHANGED <<queueVars, userVars, allocated>>

\* Mutant of OwnerDeletes: the loop ends after one item.
OwnerDeletesOnce ==
    /\ owner = "deleting"
    /\ MoveTail("backward", ownerReg)
    /\ allocated' = allocated \ {tail["backward"]}
    /\ owner' = "idle"
    /\ UNCHANGED <<next, head, ownerReg, userVars>>

OwnerDeletes ==
    /\ owner = "deleting"
    /\ MoveTail("backward", ownerReg)
    /\ allocated' = allocated \ {tail["backward"]}
    /\ owner' = "reclaiming"
    /\ UNCHANGED <<next, head, ownerReg, userVars>>

-----------------------------------------------------------------------------
(* The user's thread.                                                       *)

UserPops ==
    /\ user = "idle"
    /\ NextValue("forward") # Null
    /\ user' = "popping" /\ userReg' = NextValue("forward")
    /\ UNCHANGED <<queueVars, ownerVars, userItem, kept, allocated>>

\* pop_front ends; the predicate refuses the former null node if it is deferred.
UserPopped ==
    /\ user = "popping"
    /\ MoveTail("forward", userReg)
    /\ userItem' = tail["forward"]
    /\ user' = IF tail["forward"] \in kept THEN "idle" ELSE "handing"
    /\ UNCHANGED <<next, head, ownerVars, userReg, kept, allocated>>

UserHandsBack ==
    /\ user = "handing"
    /\ Publish("backward", userItem)
    /\ user' = "handed"
    /\ UNCHANGED <<head, tail, ownerVars, userReg, userItem, kept, allocated>>

UserHandedBack ==
    /\ user = "handed"
    /\ MoveHead("backward", userItem)
    /\ user' = "idle"
    /\ UNCHANGED <<next, tail, list, ownerVars, userReg, userItem, kept, allocated>>

\* The user puts the value it has popped into its container.
UserKeeps ==
    /\ user = "idle"
    /\ userReg = tail["forward"]
    /\ kept' = kept \cup {userReg}
    /\ UNCHANGED <<queueVars, ownerVars, user, userReg, userItem, allocated>>

\* Mutant of UserReleases: the null node is handed back as well.
UserReleasesNullNode(v) ==
    /\ user = "idle"
    /\ v \in kept
    /\ kept' = kept \ {v}
    /\ userItem' = v
    /\ user' = "handing"
    /\ UNCHANGED <<queueVars, ownerVars, userReg, allocated>>

\* user_delete_deffered_value: the null node is handed back by the next pop.
UserReleases(v) ==
    /\ user = "idle"
    /\ v \in kept
    /\ kept' = kept \ {v}
    /\ userItem' = v
    /\ user' = IF v = tail["forward"] THEN "idle" ELSE "handing"
    /\ UNCHANGED <<queueVars, ownerVars, userReg, allocated>>

UserStops ==
    /\ user = "idle"
    /\ user' = "stopped"
    /\ UNCHANGED <<queueVars, ownerVars, userReg, userItem, kept, allocated>>

-----------------------------------------------------------------------------
(* owner_finalize, when the user has stopped: the deferred values, then the *)
(* forward queue, then the backward queue, then the two null nodes.         *)

Finalize ==
    /\ owner = "idle" /\ user = "stopped"
    /\ owner' = "dropping"
    /\ UNCHANGED <<queueVars, ownerReg, userVars, allocated>>

\* Mutant of FinalizeKept: a deferred value is not compared with the null node.
FinalizeKeptNullNode ==
    /\ owner = "dropping"
    /\ \/ /\ kept = {}
          /\ owner' = "draining"
          /\ UNCHANGED <<kept, allocated>>
       \/ \E v \in kept :
            /\ kept' = kept \ {v}
            /\ allocated' = allocated \ {v}
            /\ UNCHANGED owner
    /\ UNCHANGED <<queueVars, ownerReg, user, userReg, userItem>>

FinalizeKept ==
    /\ owner = "dropping"
    /\ \/ /\ kept = {}
          /\ owner' = "draining"
          /\ UNCHANGED <<kept, allocated>>
       \/ \E v \in kept :
            /\ kept' = kept \ {v}
            /\ allocated' = IF v = tail["forward"] THEN allocated ELSE allocated \ {v}
            /\ UNCHANGED owner
    /\ UNCHANGED <<queueVars, ownerReg, user, userReg, userItem>>

\* One iteration of a loop that pops the queue q and deletes, and its end.
Emptied(q, from, to) ==
    /\ owner = from
    /\ IF NextValue(q) = Null
       THEN /\ owner' = to
            /\ UNCHANGED <<tail, list, allocated>>
       ELSE /\ MoveTail(q, NextValue(q))
            /\ allocated' = allocated \ {tail[q]}
            /\ UNCHANGED owner
    /\ UNCHANGED <<next, head, ownerReg, userVars>>

FinalizeForward == Emptied("forward", "draining", "sweeping")

\* The loop of owner_delete_processed_items, then pop_null_node of both queues.
FinalizeBackward ==
    /\ owner = "sweeping"
    /\ NextValue("backward") # Null
    /\ Emptied("backward", "sweeping", "sweeping")

\* Mutant of FinalizeNullNodes: one null node is forgotten.
FinalizeOneNullNode ==
    /\ owner = "sweeping"
    /\ NextValue("backward") = Null
    /\ allocated' = allocated \ {tail["forward"]}
    /\ head' = [q \in Queues |-> Null] /\ tail' = [q \in Queues |-> Null]
    /\ list' = [q \in Queues |-> <<>>]
    /\ owner' = "closed"
    /\ UNCHANGED <<next, ownerReg, userVars>>

FinalizeNullNodes ==
    /\ owner = "sweeping"
    /\ NextValue("backward") = Null
    /\ allocated' = allocated \ {tail["forward"], tail["backward"]}
    /\ head' = [q \in Queues |-> Null] /\ tail' = [q \in Queues |-> Null]
    /\ list' = [q \in Queues |-> <<>>]
    /\ owner' = "closed"
    /\ UNCHANGED <<next, ownerReg, userVars>>

-----------------------------------------------------------------------------
\* owner_initialize with two distinct null nodes.
Init ==
    /\ \E f, b \in Nodes :
        /\ f # b
        /\ allocated = {f, b}
        /\ head = [q \in Queues |-> IF q = "forward" THEN f ELSE b]
        /\ list = [q \in Queues |-> IF q = "forward" THEN <<f>> ELSE <<b>>]
    /\ tail = head
    /\ next = [v \in Nodes |-> Null]
    /\ kept = {}
    /\ owner = "idle" /\ ownerReg = Null
    /\ user = "idle" /\ userReg = Null /\ userItem = Null

OwnerStep ==
    \/ \E v \in Nodes : OwnerPush(v)
    \/ OwnerPushed \/ OwnerReclaims \/ OwnerPops \/ OwnerDeletes
    \/ Finalize \/ FinalizeKept \/ FinalizeForward
    \/ FinalizeBackward \/ FinalizeNullNodes

UserStep ==
    \/ UserPops \/ UserPopped \/ UserHandsBack \/ UserHandedBack
    \/ UserKeeps \/ UserStops
    \/ \E v \in kept : UserReleases(v)

Next == OwnerStep \/ UserStep

Spec == Init /\ [][Next]_vars

\* Each thread goes on with a call it has begun, the user pops what there is
\* (process_orders and process_responses run every frame), and a finalization
\* that has begun ends.
FairSpec ==
    /\ Spec
    /\ WF_vars(UserPops \/ UserPopped \/ UserHandsBack \/ UserHandedBack)
    /\ WF_vars(OwnerPushed \/ OwnerPops \/ OwnerDeletes \/ FinalizeKept
               \/ FinalizeForward \/ FinalizeBackward \/ FinalizeNullNodes)

-----------------------------------------------------------------------------
(* Properties.                                                              *)

\* The types of the variables.
TypeOK ==
    /\ next \in [Nodes -> Nodes \cup {Null}]
    /\ head \in [Queues -> Nodes \cup {Null}]
    /\ tail \in [Queues -> IF owner = "closed" THEN {Null} ELSE Nodes]
    /\ allocated \in SUBSET Nodes
    /\ kept \in SUBSET Nodes
    /\ owner \in OwnerStates /\ user \in UserStates
    /\ ownerReg \in Nodes \cup {Null}
    /\ userReg \in Nodes \cup {Null}
    /\ userItem \in Nodes \cup {Null}
    /\ list \in [Queues -> Seq(Nodes)]

\* The sequence s is what the function nx links from the node first to the node
\* last, and no node is in it twice.
LinkedList(s, nx, first, last) ==
    /\ s # <<>>
    /\ s[1] = first /\ s[Len(s)] = last
    /\ \A i \in 1..(Len(s) - 1) : nx[s[i]] = s[i + 1]
    /\ nx[last] = Null
    /\ IsInjective(s)

\* The last node is m_head, but while a push is between its exchange and its
\* last assignment, when it is the node pushed.
LastForward  == IF owner = "pushing" THEN ownerReg ELSE head["forward"]
LastBackward == IF user = "handed" THEN userItem ELSE head["backward"]

\* Each value in memory is at one place: in one of the queues, in the user's
\* container (the null node of the forward queue may be there too) or on its
\* way back.
InTransit == IF user = "handing" THEN {userItem} ELSE {}
OnePlace(f, b, transit) ==
    /\ f \cap b = {}
    /\ transit \cap (f \cup b \cup kept) = {}
    /\ kept \cap b = {}
    /\ kept \cap f \subseteq {tail["forward"]}
    /\ allocated = f \cup b \cup kept \cup transit

\* What a thread has read in a pop is what the pop is to return.
RegistersValid ==
    /\ user = "popping" => userReg # Null /\ userReg = NextValue("forward")
    /\ owner = "deleting" => ownerReg # Null /\ ownerReg = NextValue("backward")

Finalizing ==
    /\ owner \in {"dropping", "draining", "sweeping", "closed"} => user = "stopped"
    /\ owner \in {"draining", "sweeping", "closed"} => kept = {}
    /\ owner = "sweeping" => NextValue("forward") = Null
    /\ owner = "closed" => allocated = {} /\ list = [q \in Queues |-> <<>>]

\* The two lists are well-formed, disjoint and make up what is allocated,
\* whichever step of a push or a pop either thread has done.
WellFormed ==
    /\ LinkedList(list["forward"], next, tail["forward"], LastForward)
    /\ LinkedList(list["backward"], next, tail["backward"], LastBackward)
    /\ OnePlace(Range(list["forward"]), Range(list["backward"]), InTransit)
    /\ RegistersValid

ListsAreWellFormed == owner # "closed" => WellFormed

\* The inductive invariant.
IndInv == TypeOK /\ Finalizing /\ ListsAreWellFormed

\* owner_finalize frees all values: the two null nodes and deferred ones too.
NothingLeaks == owner = "closed" => allocated = {}

Undelivered ==
    IF list["forward"] = <<>> THEN <<>> ELSE Tail(list["forward"])
Usable  == IF owner = "closed" THEN {} ELSE kept \cup {tail["forward"]}
Garbage == allocated \ (Range(Undelivered) \cup Usable)

\* The channel is a first-in first-out queue whose owner frees nothing that the
\* user may still use: the value popped last and those it has deferred.
Promise == INSTANCE OwnedFifo WITH
    Values <- Nodes, queue <- Undelivered, held <- Usable,
    garbage <- Garbage, open <- (user # "stopped")
IsOwnedFifo == Promise!Spec

\* When owner_delete_processed_items returns, all that was given back is freed,
\* but for the null node of the backward queue and a value whose push the user
\* has not begun.
ReclaimReturns == owner \in {"reclaiming", "deleting"} /\ owner' = "idle"
ReclaimIsComplete == [][ReclaimReturns => Cardinality(Garbage) <= 2]_vars

\* A value that was pushed is popped, unless the user has stopped.
ValuesArrive ==
    \A v \in Nodes : v \in Range(Undelivered) ~>
        (v \notin Range(Undelivered) \/ user = "stopped")

=============================================================================
