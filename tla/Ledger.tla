------------------------------- MODULE Ledger -------------------------------
(***************************************************************************)
(* What the balance feature promises: every request takes effect in one    *)
(* atomic step or not at all, a key is spent by the first request that     *)
(* uses it, and no balance leaves 0 .. MaxBalance.  There are no locks, no  *)
(* transactions and no failures here.  Module Balance implements it.       *)
(***************************************************************************)
EXTENDS Operations

VARIABLES
    balance,   \* users.balance
    ops,       \* balance_operations, by user and key
    status     \* whether the row of users is live, soft-deleted or gone

vars == <<balance, ops, status>>

CONSTANTS InitBalance, InitStatus

Init ==
    /\ balance = InitBalance
    /\ status = InitStatus
    /\ ops = [u \in Users |-> [k \in Keys |-> None]]

Legs(r) == 1 .. LegCount(r)

(* The new balance of the user of leg i. *)
After(r, i) == balance[LegUser(r, i)] + LegDelta(r, i)

(* Request r takes effect: all of its legs, together. *)
Apply(r) ==
    /\ r.kind = "transfer" => r.user # r.to
    /\ \A i \in Legs(r) :
        /\ status[LegUser(r, i)] = "live"
        /\ ops[LegUser(r, i)][r.key] = None
        /\ After(r, i) \in Amount
    /\ balance' = [u \in Users |->
                     IF u = r.user THEN After(r, 1)
                     ELSE IF u = r.to THEN After(r, 2) ELSE balance[u]]
    /\ ops' = [u \in Users |-> [k \in Keys |->
                 IF k = r.key /\ u = r.user THEN NewOp(r, 1, After(r, 1))
                 ELSE IF k = r.key /\ u = r.to THEN NewOp(r, 2, After(r, 2))
                 ELSE ops[u][k]]]
    /\ UNCHANGED status

(* The reset job empties the balances of some live users. *)
Reset(us) ==
    /\ \A u \in us : status[u] = "live"
    /\ balance' = [u \in Users |-> IF u \in us THEN 0 ELSE balance[u]]
    /\ UNCHANGED <<ops, status>>

SoftDelete(u) ==
    /\ status[u] = "live"
    /\ status' = [status EXCEPT ![u] = "deleted"]
    /\ UNCHANGED <<balance, ops>>

(* The row of u goes, and with it every operation that names u. *)
HardDelete(u) ==
    /\ status[u] = "deleted"
    /\ status' = [status EXCEPT ![u] = "absent"]
    /\ balance' = [balance EXCEPT ![u] = 0]
    /\ ops' = [v \in Users |-> [k \in Keys |->
                 IF ops[v][k] # None /\ (v = u \/ ops[v][k].peer = u)
                 THEN None ELSE ops[v][k]]]

Next ==
    \/ \E r \in Requests : Apply(r)
    \/ \E us \in SUBSET Users : Reset(us)
    \/ \E u \in Users : SoftDelete(u)
    \/ \E u \in Users : HardDelete(u)

Spec == Init /\ [][Next]_vars
=============================================================================
