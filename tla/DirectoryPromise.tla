-------------------------- MODULE DirectoryPromise --------------------------
(***************************************************************************)
(* What a directory profile promises, with no generations, buckets,        *)
(* checkpoints or caches: publications and expiry change the listing;      *)
(* acknowledging makes the public directory show the listing of that       *)
(* moment; `waiting' says that a change has not been acknowledged yet.     *)
(***************************************************************************)
CONSTANTS Listing, Empty    \* possible listings, and the one with no server

VARIABLES listing,   \* what D1 lists now
          shown,     \* what the last acknowledged artifacts show
          waiting    \* is there a change they do not show?

promiseVars == <<listing, shown, waiting>>

PromiseInit ==
  /\ listing \in Listing /\ shown = Empty
  /\ waiting = (listing # Empty)

(* A visible change: also one that only renews what is listed. *)
Change == /\ listing' \in Listing /\ waiting' = TRUE /\ UNCHANGED shown

Acknowledge == /\ shown' = listing /\ waiting' = FALSE /\ UNCHANGED listing

PromiseNext == Change \/ Acknowledge
PromiseSpec == PromiseInit /\ [][PromiseNext]_promiseVars
=============================================================================
