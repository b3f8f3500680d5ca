------------------------ MODULE MCInstanceDatabase ------------------------
(* Model-checking instance of the registry: two names, two homes, three   *)
(* ids so that groups can collide on either key and still leave room.     *)
EXTENDS InstanceDatabase, TLC

CONSTANTS g1, g2, h1, h2, n1, n2

MCGroupNames == {g1, g2}
MCHomes == {h1, h2}
MCInstanceNames == {n1, n2}
=============================================================================
