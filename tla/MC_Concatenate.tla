--------------------------- MODULE MC_Concatenate ---------------------------
EXTENDS Concatenate, TLC

CONSTANTS a, b, nopath

MCPaths == {a, b}

=============================================================================
