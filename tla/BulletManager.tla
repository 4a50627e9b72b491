--------------------------- MODULE BulletManager ---------------------------
(* CBulletManager (src/xrGame/Level_Bullet_Manager.cpp): the bullets in     *)
(* flight and the events of the last frame.  The task UpdateWorkload finds  *)
(* out which bullets are done and registers their removal by their index;   *)
(* the start of the next frame moves the last bullet into the place of each *)
(* removed one.  Module ParallelTasks says which thread runs what when.     *)
(* Left out: the flight of a bullet, the hits (they do not touch the list), *)
(* the copy m_BulletsRendered, the width of the index (16 bits).            *)
EXTENDS Naturals, Sequences, Functions

CONSTANT Bullets    \* bound: names for bullets

VARIABLES
    bullets,    \* m_Bullets
    events,     \* m_Events: the removals
    updating,   \* is UpdateWorkload in its loop?
    cursor      \* the bullets that it has not yet looked at

bulletVars == <<bullets, events, updating, cursor>>

BulletTypeOK ==
    /\ bullets \in Seq(Bullets)
    /\ events \in Seq([index : Nat, bullet : Bullets])
    /\ updating \in BOOLEAN
    /\ cursor \in 0..Len(bullets)

BulletInit ==
    /\ bullets = <<>> /\ events = <<>>
    /\ updating = FALSE /\ cursor = 0

-----------------------------------------------------------------------------
\* EVENT_REMOVE: the place of index i (from 0) gets the last bullet.
Remove(seq, i) ==
    [k \in 1..Len(seq) - 1 |-> IF k = i + 1 THEN seq[Len(seq)] ELSE seq[k]]

\* CommitEvents, the first n events.
Committed(n) ==
    LET after[k \in 0..n] ==
            IF k = 0 THEN bullets ELSE Remove(after[k - 1], events[k].index)
    IN  after[n]

\* The start of Level's frame; `new' bullets have been fired when it ends.
BulletFrame(new) ==
    /\ bullets' = Committed(Len(events)) \o new
    /\ events' = <<>>
    /\ UNCHANGED <<updating, cursor>>

Clear ==
    /\ bullets' = <<>> /\ events' = <<>>
    /\ UNCHANGED <<updating, cursor>>

\* UpdateWorkload starts at the last bullet.
BeginUpdate ==
    /\ ~updating /\ updating' = TRUE
    /\ cursor' = Len(bullets)
    /\ UNCHANGED <<bullets, events>>

\* Mutant of UpdateBullet: from the first bullet on.
UpdateForwards(survives) ==
    LET i == Len(bullets) - cursor IN
    /\ updating /\ cursor > 0
    /\ cursor' = cursor - 1
    /\ events' = IF survives THEN events
                 ELSE Append(events, [index |-> i, bullet |-> bullets[i + 1]])
    /\ UNCHANGED <<bullets, updating>>

\* process_bullet, and the removal of a bullet that is done.
UpdateBullet(survives) ==
    /\ updating /\ cursor > 0
    /\ cursor' = cursor - 1
    /\ events' = IF survives THEN events
                 ELSE Append(events, [index |-> cursor - 1,
                                      bullet |-> bullets[cursor]])
    /\ UNCHANGED <<bullets, updating>>

EndUpdate ==
    /\ updating /\ cursor = 0
    /\ updating' = FALSE
    /\ UNCHANGED <<bullets, events, cursor>>

-----------------------------------------------------------------------------
\* However many bullets are done, and whatever has been fired since: to commit
\* the events removes the bullets they were registered for and no other, and
\* no index is beyond the end.
RemovalsAreExact ==
    /\ \A k \in 1..Len(events) :
           events[k].index < Len(Committed(k - 1))
    /\ Range(Committed(Len(events))) =
           Range(bullets) \ {events[k].bullet : k \in 1..Len(events)}

=============================================================================
