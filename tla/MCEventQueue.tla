---------------------------- MODULE MCEventQueue ----------------------------
(* A small instance of EventQueue for TLC.                                  *)
EXTENDS EventQueue, TLC

\* What an unused object holds is never read, unless it is being run.
Read == Range(ready) \cup {ge}

QueueView ==
    <<ready, unused, [o \in Objects \cap Read |-> event[o]], recent,
      blocked, checked, main, ge, phase, players>>

ClientSymmetry == Permutations(Clients)

=============================================================================
