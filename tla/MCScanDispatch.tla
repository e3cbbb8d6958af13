--------------------------- MODULE MCScanDispatch ---------------------------
(***************************************************************************)
(* Instances of ScanDispatch for TLC: which runner sets up which           *)
(* connection. "own" belongs to the user, "pool" is a shared runner.       *)
(***************************************************************************)
EXTENDS ScanDispatch

OwnTwice == <<"own", "own">>
OwnAndPool == <<"own", "pool">>
PoolOnce == <<"pool">>
Own == {"own"}

=============================================================================
