------------------------- MODULE MCRefreshSessions --------------------------
(* Small instances of RefreshSessions for TLC. *)
EXTENDS RefreshSessions, TLC

AllLive == [u \in Users |-> "live"]
AllAbsent == [u \in Users |-> "absent"]
Interchangeable == Permutations(Calls) \cup Permutations(Devices)
=============================================================================
