-------------------------- MODULE MCPrefixDeletion --------------------------
(* A bucket with four keys under the prefix, between two that are not.     *)
EXTENDS PrefixDeletion

MCKeys == 1 .. 6
MCScope == 2 .. 5
=============================================================================
