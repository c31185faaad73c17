----------------------------- MODULE Operations -----------------------------
(***************************************************************************)
(* The vocabulary of the balance feature (src/users/balance): the requests *)
(* a client can make, the rows of table balance_operations, and the legs a *)
(* request is executed in.  Amounts are integers (hundredths), the value   *)
(* normalizeAmount gives every spelling of an amount.                      *)
(***************************************************************************)
EXTENDS Integers

CONSTANTS
    Users,        \* user ids; their order is that of localeCompare
    Keys,         \* idempotency keys
    Requests,     \* the requests clients make, any number of times each
    MaxBalance,   \* the largest value of column decimal(12,2)
    None          \* SQL NULL, or "nobody"

Kinds == {"deposit", "withdrawal", "transfer"}
OpTypes == {"deposit", "withdrawal"}
Statuses == {"live", "deleted", "absent"}

Amount == 0 .. MaxBalance

(* One row of balance_operations; its primary key is (user, key). *)
Op == [type : OpTypes, amount : Nat, peer : Users, result : Amount]

(* A deposit and a withdrawal have their own user as counterparty.  "upper" *)
(* names the uuids the client spelled in capitals: PostgreSQL takes either  *)
(* spelling for the same uuid, the code compares and hashes the text.       *)
RequestType == [kind : Kinds, user : Users, to : Users, amount : Nat, key : Keys,
                upper : SUBSET {"to", "key"}]

(* Every client spells its uuids the way PostgreSQL prints them. *)
CanonicalRequests == \A r \in Requests : r.upper = {}

ASSUME UsersAssumption == Users \subseteq Nat
ASSUME MaxBalanceAssumption == MaxBalance \in Nat
ASSUME RequestsAssumption ==
    /\ Requests \subseteq RequestType
    /\ \A r \in Requests :
        /\ r.amount > 0
        /\ r.kind # "transfer" => r.to = r.user /\ "to" \notin r.upper
ASSUME NoneAssumption ==
    None \notin Int /\ None \notin Users /\ None \notin Requests /\ None \notin Op

(* createTransfer is a withdrawal from the sender, then a deposit to the   *)
(* recipient, each naming the other as counterparty, both under one key.   *)
LegCount(r) == IF r.kind = "transfer" THEN 2 ELSE 1
LegUser(r, i) == IF i = 1 THEN r.user ELSE r.to
LegPeer(r, i) == IF i = 1 THEN r.to ELSE r.user
LegType(r, i) == IF r.kind = "deposit" \/ i = 2 THEN "deposit" ELSE "withdrawal"
LegDelta(r, i) == IF LegType(r, i) = "deposit" THEN r.amount ELSE 0 - r.amount

NewOp(r, i, result) ==
    [type |-> LegType(r, i), amount |-> r.amount, peer |-> LegPeer(r, i),
     result |-> result]
=============================================================================
