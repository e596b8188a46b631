-------------------------- MODULE MCRendezvousRoom --------------------------
(* Small rooms: two clients, one with a grant and one without. *)
EXTENDS RendezvousRoom, TLC

CONSTANTS t1, t2
=============================================================================
