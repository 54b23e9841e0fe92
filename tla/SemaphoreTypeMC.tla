--------------------------- MODULE SemaphoreTypeMC ---------------------------
(* Small instances of SemaphoreType for TLC.                               *)
EXTENDS SemaphoreType, TLC

CONSTANTS a, b   \* threads

MCPair == {a, b}
MCPairPidOf == a :> 0 @@ b :> 1
===============================================================================
