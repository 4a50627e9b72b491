---------------------------- MODULE MCSheduler ----------------------------
(* A small instance of Sheduler for TLC: a download that draws itself, an   *)
(* actor, which a spectator registers again as realtime, and a monster.     *)
EXTENDS Sheduler

CONSTANTS manager, actor, monster

MCObjects    == {manager, actor, monster}
MCPriorities == (manager :> {TRUE}) @@ (actor :> BOOLEAN) @@ (monster :> {FALSE})

=============================================================================
