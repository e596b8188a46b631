--------------------------- MODULE MCAccessRoutes ---------------------------
(* Small instances of AccessRoutes. *)
EXTENDS AccessRoutes, TLC

CONSTANTS alpha, beta, i1, i2, t1, t2, r1, r2, r3, r4

Call(op, server, request, token, index, revision, handle, expires) ==
  [op |-> op, server |-> server, request |-> request, token |-> token,
   index |-> index, revision |-> revision, handle |-> handle, expires |-> expires]

(* A token that expires at 2; a second revocation with a higher revision      *)
(* re-uses the request identifier of the reservation.                         *)
Expiring ==
  {Call("reserve", alpha, r1, t1, i1, 1, NoValue, 2),
   Call("activate", alpha, r2, t1, i1, 1, 2, 2),
   Call("revoke", alpha, r3, t1, i1, 1, NoValue, 2),
   Call("revoke", alpha, r1, t1, i1, 2, NoValue, 2)}
(* Two tokens that compete for the last slots, one of which becomes active,   *)
(* and a request whose index is another token's. *)
Crowd ==
  {Call("reserve", alpha, r1, t1, i1, 1, NoValue, NoValue),
   Call("activate", alpha, r3, t1, i1, 1, 2, NoValue),
   Call("revoke", alpha, r2, t1, i1, 1, NoValue, NoValue),
   Call("reserve", beta, r1, t2, i2, 1, NoValue, NoValue),
   Call("revoke", beta, r2, t2, i2, 1, NoValue, NoValue),
   Call("reserve", beta, r3, t2, i1, 1, NoValue, NoValue)}
Symmetric == Permutations(Nonce) \cup Permutations(Generation)
               \cup Permutations(Redemption)
=============================================================================
