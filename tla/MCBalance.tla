----------------------------- MODULE MCBalance ------------------------------
(* Small instances of Balance for TLC. *)
EXTENDS Balance, TLC

Request(kind, user, to, amount, key) ==
    [kind |-> kind, user |-> user, to |-> to, amount |-> amount, key |-> key,
     upper |-> {}]

MCHashText == [x \in Users \X Keys \X SUBSET {"to", "key"} |-> x]
MCLockTexts == Users \X Keys \X SUBSET {"to", "key"}

(* Transactions differ in nothing but their names. *)
TxSymmetry == Permutations(Txs)

(* The users are live, with a balance of 2 each, or of 3 and 2. *)
TwoEach == [u \in Users |-> 2]
ThreeAndTwo == [u \in Users |-> 4 - u]
AllLive == [u \in Users |-> "live"]

(* A transfer, which any number of retries may follow; requests that reuse *)
(* its key for either party, the transfer among them too large for what    *)
(* the recipient already has; a withdrawal that competes for the balance;  *)
(* and a transfer to oneself.                                              *)
RetryRequests == {
    Request("transfer", 1, 2, 1, "a"),
    Request("deposit", 2, 2, 1, "a"),
    Request("transfer", 1, 2, 3, "a"),
    Request("withdrawal", 1, 1, 2, "b"),
    Request("transfer", 1, 1, 1, "b")}

(* Opposite transfers, and a withdrawal under the key of one of them:       *)
(* everything that takes more than one lock.                               *)
SharedKeyRequests == {
    Request("transfer", 1, 2, 1, "a"),
    Request("transfer", 2, 1, 1, "b"),
    Request("withdrawal", 1, 1, 1, "a")}

(* A transfer and a withdrawal that can deadlock, for they share a key; and *)
(* the same withdrawal with the key in capitals, which is another lock.     *)
FairRequests == {
    Request("transfer", 2, 1, 1, "a"),
    Request("withdrawal", 2, 2, 1, "a"),
    [Request("withdrawal", 2, 2, 1, "a") EXCEPT !.upper = {"key"}]}
=============================================================================
