------------------------- MODULE MCPersistentState -------------------------
EXTENDS PersistentState, TLC

CONSTANTS short, long, rps

MCPins == {short, long}
MCCodePoints == (short :> 1) @@ (long :> 2)
=============================================================================
