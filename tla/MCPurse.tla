------------------------------ MODULE MCPurse ------------------------------
(* Three days in two weeks, and players who each use two kinds of handler:  *)
(* every pair of claims, shops and faults is one initial state.             *)
EXTENDS Purse
=============================================================================
