---------------------------- MODULE MCUserCache -----------------------------
(* A small instance of UserCache for TLC. *)
EXTENDS UserCache, TLC

CONSTANTS u1, u2, a, b, username, description

(* The second update is called by a client that has not seen the first.    *)
MCColumns == {username, description}
MCRegistered == [k \in MCColumns |-> a]
MCDto == (u1 :> [k \in MCColumns |-> IF k = username THEN b ELSE a])
      @@ (u2 :> [k \in MCColumns |-> IF k = username THEN a ELSE b])
=============================================================================
