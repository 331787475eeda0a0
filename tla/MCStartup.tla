----------------------------- MODULE MCStartup ------------------------------
(***************************************************************************)
(* Two servers, one of them with a pool that it was given, and the         *)
(* migration command; releases that add a migration, change one, insert    *)
(* one, break one, and name two files alike.                               *)
(***************************************************************************)
EXTENDS Startup

CONSTANTS p1, p2, p3, half, NaN

File(version, body) == [version |-> version, body |-> body]

First   == File(1, "bids")
Changed == File(1, "bids, edited")
Second  == File(2, "index")
Third   == File(3, "audit")
Bad     == File(2, "syntax error")
Misnamed == File(NULL, "notes")

ShippedReleases ==
  {{First}, {First, Second}, {First, Third}, {Changed, Second},
   {First, Bad, Third}, {First, Misnamed}, {First, Changed}}

BrokenFiles == {Bad}

TestEnvironments ==
  {<<>>, [BID_STRATEGY |-> "OPTIMISTIC"], [BID_STRATEGY |-> "safe"],
   [DB_POOL_MIN_SIZE |-> 21], [OPTIMISTIC_MAX_ATTEMPTS |-> Invalid],
   [DB_POOL_TIMEOUT_SECONDS |-> half], [DB_POOL_TIMEOUT_SECONDS |-> NaN],
   [DB_POOL_TIMEOUT_SECONDS |-> 0], [DB_LOCK_TIMEOUT_MS |-> half]}

LowerCase ==
  [name \in {"pessimistic", "OPTIMISTIC", "safe"} |->
     IF name = "OPTIMISTIC" THEN "optimistic" ELSE name]

=============================================================================
