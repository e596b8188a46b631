------------------------- MODULE MCDirectoryBuilder -------------------------
(* Values of the constants for TLC: two of the four files of a generation,    *)
(* and a clock whose unit is a fraction of the expiry quantum.                *)
EXTENDS DirectoryBuilder

CONSTANTS alpha, beta,     \* servers
          one, two         \* displayed contents, and orders

Objects == <<"json", "manifest">>
Aliases == <<"json", "manifest">>
Cached  == {"json"}
Uncached == {}

(* A bound: an alarm runs the same build as the cron, so where neither nudges  *)
(* nor alarms are the question only the operations of the cron are followed.   *)
CronOnly == trigger # "alarm"

(* A bound: the loss of storage and a late request do not meet (see the        *)
(* README), and a nudge that finds lost storage or a crash is not followed.    *)
FaultsApart ==
  /\ resets = 0 \/ flight = NoValue
  /\ (resets = 0 /\ crashes = 0) \/ ~nudged
=============================================================================
