--------------------------- MODULE AvatarGallery ----------------------------
(***************************************************************************)
(* What the avatars feature promises a user: a gallery of at most Limit    *)
(* avatars, each shown from the moment its upload is answered until it is  *)
(* deleted, and never again.  There is no storage, no transaction and no   *)
(* clean-up here.  Module Avatars implements it.                           *)
(***************************************************************************)
EXTENDS Integers, FiniteSets

CONSTANTS Users, Ids, Limit

VARIABLES
    status,   \* users: live, softly deleted, purged
    shown,    \* the avatars in the gallery of each user
    used      \* the ids that have ever been shown

vars == <<status, shown, used>>

Init ==
    /\ status = [u \in Users |-> "live"]
    /\ shown = [u \in Users |-> {}]
    /\ used = {}

(* The limit is kept for users who have not deleted their account.         *)
Add(u, i) ==
    /\ i \notin used
    /\ status[u] = "live" => Cardinality(shown[u]) < Limit
    /\ status[u] # "purged"
    /\ shown' = [shown EXCEPT ![u] = @ \cup {i}]
    /\ used' = used \cup {i}
    /\ UNCHANGED status

Remove(u, i) ==
    /\ i \in shown[u]
    /\ shown' = [shown EXCEPT ![u] = @ \ {i}]
    /\ UNCHANGED <<status, used>>

SoftDelete(u) ==
    /\ status[u] = "live"
    /\ status' = [status EXCEPT ![u] = "deleted"]
    /\ UNCHANGED <<shown, used>>

Purge(u) ==
    /\ status[u] = "deleted"
    /\ status' = [status EXCEPT ![u] = "purged"]
    /\ shown' = [shown EXCEPT ![u] = {}]
    /\ UNCHANGED used

Next ==
    \/ \E u \in Users, i \in Ids : Add(u, i) \/ Remove(u, i)
    \/ \E u \in Users : SoftDelete(u) \/ Purge(u)

Spec == Init /\ [][Next]_vars
=============================================================================
