------------------------------ MODULE Balance -------------------------------
(***************************************************************************)
(* BalanceService as it runs: every request is a database transaction      *)
(* (READ COMMITTED) made of separate SQL statements, which other           *)
(* transactions, the reset job and the deletion of users interleave with.  *)
(*                                                                         *)
(* balance, ops and status are the committed database; wrote and newOps    *)
(* are what a transaction has written and not yet committed.  A statement  *)
(* that finds its lock taken waits: its action is not enabled.             *)
(***************************************************************************)
EXTENDS Operations, FiniteSets

CONSTANTS
    Txs,           \* database transactions that can run at the same time
    ResetJob,      \* the transaction of the balance reset job
    LockTexts, Hashes, HashText,  \* hashtext, from lock texts to numbers
    InitBalance, InitStatus,      \* the rows of users
    Resets,        \* bound: how many times the reset job runs
    Deletable      \* bound: the users who may be deleted

VARIABLES
    balance, ops, status,      \* the committed database
    rowLock, advLock,          \* row locks on users; advisory locks
    pc, req, leg, reply,       \* the request a transaction serves
    wrote, newOps,             \* its uncommitted balances and operations
    resetTodo, resetAt, resetsLeft,   \* the UPDATE of the reset job
    effects, answers           \* history: commits with effect, results seen

db == <<balance, ops, status>>
locks == <<rowLock, advLock>>
tx == <<pc, req, leg, reply, wrote, newOps>>
reset == <<resetTodo, resetAt, resetsLeft>>
history == <<effects, answers>>
vars == <<db, locks, tx, reset, history>>

ASSUME ProcessAssumption ==
    /\ None \notin Txs /\ ResetJob \notin Txs /\ ResetJob # None
ASSUME HashAssumption == HashText \in [LockTexts -> Hashes]
ASSUME InitAssumption ==
    /\ InitBalance \in [Users -> Amount] /\ InitStatus \in [Users -> Statuses]
    /\ Resets \in Nat /\ Deletable \subseteq Users

Procs == Txs \cup {ResetJob}
Steps == {"idle", "lockFirst", "lockSecond", "advisory", "lookup", "change",
          "save", "commit", "reply"}
Codes == {"none", "ok", "badRequest", "notFound", "conflict", "serverError"}
Reply == [code : Codes, balance : Amount]
NoReply == [code |-> "none", balance |-> 0]

(* The text createIdempotencyLock hashes: `${userId}:${idempotencyKey}`.  *)
(* The sender's id comes from the token, the recipient's from the client.  *)
LockText(r, i) ==
    <<LegUser(r, i), r.key, IF i = 1 THEN r.upper \ {"to"} ELSE r.upper>>
Lock(r, i) == HashText[LockText(r, i)]

ASSUME LockTextAssumption ==
    \A r \in Requests, i \in {1, 2} : LockText(r, i) \in LockTexts

TypeOK ==
    /\ balance \in [Users -> Amount]
    /\ ops \in [Users -> [Keys -> Op \cup {None}]]
    /\ status \in [Users -> Statuses]
    /\ rowLock \in [Users -> Procs \cup {None}]
    /\ advLock \in [Hashes -> Txs \cup {None}]
    /\ pc \in [Txs -> Steps]
    /\ req \in [Txs -> Requests \cup {None}]
    /\ \A t \in Txs : pc[t] # "idle" => req[t] \in Requests
    /\ leg \in [Txs -> {1, 2}]
    /\ reply \in [Txs -> Reply]
    /\ wrote \in [Txs -> [Users -> Amount \cup {None}]]
    /\ newOps \in [Txs -> [Users -> Op \cup {None}]]
    /\ resetTodo \in SUBSET Users
    /\ resetAt \in Users \cup {None}
    /\ resetsLeft \in Nat
    /\ effects \in [Requests -> Nat]
    /\ answers \in [Requests -> SUBSET Amount]

Nothing == [u \in Users |-> None]

Init ==
    /\ balance = InitBalance /\ status = InitStatus
    /\ ops = [u \in Users |-> [k \in Keys |-> None]]
    /\ rowLock = Nothing
    /\ advLock = [h \in Hashes |-> None]
    /\ pc = [t \in Txs |-> "idle"]
    /\ req = [t \in Txs |-> None]
    /\ leg = [t \in Txs |-> 1]
    /\ reply = [t \in Txs |-> NoReply]
    /\ wrote = [t \in Txs |-> Nothing]
    /\ newOps = [t \in Txs |-> Nothing]
    /\ resetTodo = {} /\ resetAt = None /\ resetsLeft = Resets
    /\ effects = [r \in Requests |-> 0]
    /\ answers = [r \in Requests |-> {}]

-----------------------------------------------------------------------------
(* Locks.  A process keeps every lock it takes until its transaction ends. *)

Live(u) == status[u] = "live"
FreeFor(lock, p) == lock \in {None, p}

(* A plausible bug: session-level advisory locks, which outlive the commit. *)
BugKeepAdvisory(p) ==
    /\ rowLock' = [u \in Users |-> IF rowLock[u] = p THEN None ELSE rowLock[u]]
    /\ UNCHANGED advLock

ReleaseAll(p) ==
    /\ rowLock' = [u \in Users |-> IF rowLock[u] = p THEN None ELSE rowLock[u]]
    /\ advLock' = [h \in Hashes |-> IF advLock[h] = p THEN None ELSE advLock[h]]

(* The user, the key and the amount of the leg t is executing. *)
User(t) == LegUser(req[t], leg[t])
Peer(t) == LegPeer(req[t], leg[t])
Key(t) == req[t].key
Delta(t) == LegDelta(req[t], leg[t])

(* The transaction of t ends without effect and the client gets an error. *)
Fail(t, code) ==
    /\ ReleaseAll(t)
    /\ pc' = [pc EXCEPT ![t] = "reply"]
    /\ reply' = [reply EXCEPT ![t] = [code |-> code, balance |-> 0]]
    /\ wrote' = [wrote EXCEPT ![t] = Nothing]
    /\ newOps' = [newOps EXCEPT ![t] = Nothing]
    /\ UNCHANGED <<db, req, leg, reset, history>>

(* After a leg: the second leg of a transfer, or the end. *)
NextLeg(t) ==
    IF leg[t] < LegCount(req[t])
    THEN /\ pc' = [pc EXCEPT ![t] = "advisory"]
         /\ leg' = [leg EXCEPT ![t] = 2]
    ELSE /\ pc' = [pc EXCEPT ![t] = "commit"]
         /\ UNCHANGED leg

(* A plausible bug: the sender of a transfer is told the recipient's balance. *)
BugResultOfLastLeg(t, result) ==
    reply' = [reply EXCEPT ![t] = [code |-> "ok", balance |-> result]]

(* The client is answered with the balance of the first leg. *)
RecordResult(t, result) ==
    reply' = IF leg[t] = 1
             THEN [reply EXCEPT ![t] = [code |-> "ok", balance |-> result]]
             ELSE reply

-----------------------------------------------------------------------------
(* The steps of a request. *)

(* A request arrives, for the first time or as a retry.  A transfer to     *)
(* oneself is refused, if both ids are spelled alike.                      *)
Begin(t, r) ==
    /\ pc[t] = "idle"
    /\ req' = [req EXCEPT ![t] = r]
    /\ IF r.kind = "transfer" /\ r.user = r.to /\ "to" \notin r.upper
       THEN /\ pc' = [pc EXCEPT ![t] = "reply"]
            /\ reply' = [reply EXCEPT ![t] = [code |-> "badRequest", balance |-> 0]]
       ELSE /\ pc' = [pc EXCEPT ![t] =
                        IF r.kind = "transfer" THEN "lockFirst" ELSE "advisory"]
            /\ UNCHANGED reply
    /\ UNCHANGED <<db, locks, leg, wrote, newOps, reset, history>>

(* A plausible bug: the sender is always locked first. *)
BugUnsorted(r) == <<r.user, r.to>>

(* lockTransferUsersForUpdate: the two users in the order of their ids. *)
LockOrder(r) == IF r.user <= r.to THEN <<r.user, r.to>> ELSE <<r.to, r.user>>
UserToLock(t) == LockOrder(req[t])[IF pc[t] = "lockFirst" THEN 1 ELSE 2]

(* SELECT ... FOR UPDATE sees, and so locks, only a user who is not deleted. *)
LockUser(t) ==
    /\ pc[t] \in {"lockFirst", "lockSecond"}
    /\ IF Live(UserToLock(t))
       THEN /\ FreeFor(rowLock[UserToLock(t)], t)
            /\ rowLock' = [rowLock EXCEPT ![UserToLock(t)] = t]
       ELSE UNCHANGED rowLock
    /\ pc' = [pc EXCEPT ![t] =
                IF pc[t] = "lockFirst" THEN "lockSecond" ELSE "advisory"]
    /\ UNCHANGED <<db, advLock, req, leg, reply, wrote, newOps, reset, history>>

(* A plausible bug: the idempotency lock is tried and not waited for. *)
BugNoWait(t) ==
    /\ pc[t] = "advisory"
    /\ pc' = [pc EXCEPT ![t] = "lookup"]
    /\ UNCHANGED <<db, locks, req, leg, reply, wrote, newOps, reset, history>>

(* acquireIdempotencyLock *)
Acquire(t) ==
    /\ pc[t] = "advisory"
    /\ FreeFor(advLock[Lock(req[t], leg[t])], t)
    /\ advLock' = [advLock EXCEPT ![Lock(req[t], leg[t])] = t]
    /\ pc' = [pc EXCEPT ![t] = "lookup"]
    /\ UNCHANGED <<db, rowLock, req, leg, reply, wrote, newOps, reset, history>>

(* What t reads of user u: its own writes, else what is committed. *)
OpSeen(t, u) == IF newOps[t][u] # None THEN newOps[t][u] ELSE ops[u][Key(t)]
BalanceSeen(t, u) == IF wrote[t][u] # None THEN wrote[t][u] ELSE balance[u]

(* A plausible bug: the amount is left out of the comparison. *)
BugAnyAmount(op, r, i) == op.type = LegType(r, i) /\ op.peer = LegPeer(r, i)

(* hasSamePayload; the stored counterparty is compared as text. *)
SamePayload(op, r, i) ==
    /\ op.type = LegType(r, i) /\ op.amount = r.amount /\ op.peer = LegPeer(r, i)
    /\ i = 1 => "to" \notin r.upper

(* A plausible bug: a replay is answered with the balance of the moment. *)
BugReplayCurrent(t) ==
    LET op == OpSeen(t, User(t)) IN
    /\ pc[t] = "lookup"
    /\ \/ /\ op = None
          /\ pc' = [pc EXCEPT ![t] = "change"]
          /\ UNCHANGED <<db, locks, req, leg, reply, wrote, newOps, reset, history>>
       \/ /\ op # None
          /\ RecordResult(t, BalanceSeen(t, User(t)))
          /\ NextLeg(t)
          /\ UNCHANGED <<db, locks, req, wrote, newOps, reset, history>>

(* existingOperation: go on to change the balance, replay, or refuse. *)
Lookup(t) ==
    LET op == OpSeen(t, User(t)) IN
    /\ pc[t] = "lookup"
    /\ \/ /\ op = None
          /\ pc' = [pc EXCEPT ![t] = "change"]
          /\ UNCHANGED <<db, locks, req, leg, reply, wrote, newOps, reset, history>>
       \/ /\ op # None /\ SamePayload(op, req[t], leg[t])
          /\ RecordResult(t, op.result)
          /\ NextLeg(t)
          /\ UNCHANGED <<db, locks, req, wrote, newOps, reset, history>>
       \/ /\ op # None /\ ~SamePayload(op, req[t], leg[t])
          /\ Fail(t, "conflict")

(* A plausible bug: the balance is not compared with the amount. *)
BugOverdraft(t) == Live(User(t))

(* The row matches the WHERE of changeBalance. *)
Matches(t) ==
    /\ Live(User(t))
    /\ Delta(t) < 0 => BalanceSeen(t, User(t)) + Delta(t) >= 0

(* A plausible bug: the balance is read and written back without its row. *)
BugReadModifyWrite(t) ==
    LET new == BalanceSeen(t, User(t)) + Delta(t) IN
    /\ pc[t] = "change" /\ Matches(t) /\ new <= MaxBalance
    /\ wrote' = [wrote EXCEPT ![t][User(t)] = new]
    /\ pc' = [pc EXCEPT ![t] = "save"]
    /\ UNCHANGED <<db, locks, req, leg, reply, newOps, reset, history>>

(* changeBalance, when a row matches: it waits for the row, then updates   *)
(* it; a sum beyond decimal(12,2) is an error of the database.             *)
Change(t) ==
    LET new == BalanceSeen(t, User(t)) + Delta(t) IN
    /\ pc[t] = "change"
    /\ Matches(t)
    /\ FreeFor(rowLock[User(t)], t)
    /\ IF new > MaxBalance
       THEN Fail(t, "serverError")
       ELSE /\ rowLock' = [rowLock EXCEPT ![User(t)] = t]
            /\ wrote' = [wrote EXCEPT ![t][User(t)] = new]
            /\ pc' = [pc EXCEPT ![t] = "save"]
            /\ UNCHANGED <<db, advLock, req, leg, reply, newOps, reset, history>>

(* changeBalance, when no row matches.  createWithdrawal then asks the     *)
(* cache whether the user exists, which may still say so of a deleted one. *)
Reject(t) ==
    /\ pc[t] = "change"
    /\ ~Matches(t)
    /\ IF LegType(req[t], leg[t]) = "deposit"
       THEN Fail(t, "notFound")
       ELSE \E cached \in BOOLEAN :
                Fail(t, IF Live(User(t)) \/ cached THEN "badRequest" ELSE "notFound")

(* A plausible bug: no foreign key on the counterparty. *)
BugNoForeignKey(t) ==
    /\ pc[t] = "save"
    /\ newOps' = [newOps EXCEPT ![t][User(t)] =
                    NewOp(req[t], leg[t], wrote[t][User(t)])]
    /\ RecordResult(t, wrote[t][User(t)])
    /\ NextLeg(t)
    /\ UNCHANGED <<db, locks, req, wrote, reset, history>>

(* saveSuccessfulOperation.  The foreign keys need both users' rows; save  *)
(* updates a row whose key reads back as it was spelled, else it inserts.  *)
Save(t) ==
    /\ pc[t] = "save"
    /\ IF \/ status[Peer(t)] = "absent"
          \/ ops[User(t)][Key(t)] # None /\ LockText(req[t], leg[t])[3] # {}
       THEN Fail(t, "serverError")
       ELSE /\ newOps' = [newOps EXCEPT ![t][User(t)] =
                            NewOp(req[t], leg[t], wrote[t][User(t)])]
            /\ RecordResult(t, wrote[t][User(t)])
            /\ NextLeg(t)
            /\ UNCHANGED <<db, locks, req, wrote, reset, history>>

(* The transaction commits: all its writes appear, all its locks go. *)
Commit(t) ==
    /\ pc[t] = "commit"
    /\ balance' = [u \in Users |->
                     IF wrote[t][u] # None THEN wrote[t][u] ELSE balance[u]]
    /\ ops' = [u \in Users |-> [k \in Keys |->
                 IF newOps[t][u] # None /\ k = Key(t) THEN newOps[t][u] ELSE ops[u][k]]]
    /\ effects' = IF wrote[t] = Nothing THEN effects
                  ELSE [effects EXCEPT ![req[t]] = @ + 1]
    /\ ReleaseAll(t)
    /\ wrote' = [wrote EXCEPT ![t] = Nothing]
    /\ newOps' = [newOps EXCEPT ![t] = Nothing]
    /\ pc' = [pc EXCEPT ![t] = "reply"]
    /\ UNCHANGED <<status, req, leg, reply, reset, answers>>

Forget(t) ==
    /\ pc' = [pc EXCEPT ![t] = "idle"]
    /\ req' = [req EXCEPT ![t] = None]
    /\ leg' = [leg EXCEPT ![t] = 1]
    /\ reply' = [reply EXCEPT ![t] = NoReply]
    /\ wrote' = [wrote EXCEPT ![t] = Nothing]
    /\ newOps' = [newOps EXCEPT ![t] = Nothing]

(* The client receives the answer. *)
Respond(t) ==
    /\ pc[t] = "reply"
    /\ answers' = IF reply[t].code = "ok"
                  THEN [answers EXCEPT ![req[t]] = @ \cup {reply[t].balance}]
                  ELSE answers
    /\ Forget(t)
    /\ UNCHANGED <<db, locks, reset, effects>>

(* A plausible bug: the connection of a failed request stays in its transaction. *)
BugLeakTransaction(t) ==
    /\ pc[t] # "idle"
    /\ Forget(t)
    /\ UNCHANGED <<db, locks, reset, history>>

(* The server or its connection dies: the database rolls back what is not  *)
(* committed, and the client gets no answer, even to what is.              *)
Crash(t) ==
    /\ pc[t] # "idle"
    /\ ReleaseAll(t)
    /\ Forget(t)
    /\ UNCHANGED <<db, reset, history>>

-----------------------------------------------------------------------------
(* The reset job: one UPDATE, which reaches the rows in an order of its own. *)

NonZero(u) == Live(u) /\ balance[u] # 0

ResetBegin ==
    /\ resetsLeft > 0 /\ resetTodo = {} /\ resetAt = None
    /\ ResetJob \notin {rowLock[u] : u \in Users}
    /\ resetsLeft' = resetsLeft - 1
    /\ resetTodo' = {u \in Users : NonZero(u)}
    /\ UNCHANGED <<db, locks, tx, resetAt, history>>

ResetReach(u) ==
    /\ resetAt = None /\ u \in resetTodo
    /\ resetAt' = u
    /\ UNCHANGED <<db, locks, tx, resetTodo, resetsLeft, history>>

(* A plausible bug: the row is zeroed without waiting for its lock. *)
BugResetNoWait ==
    /\ resetAt # None
    /\ rowLock' = IF NonZero(resetAt)
                  THEN [rowLock EXCEPT ![resetAt] = ResetJob] ELSE rowLock
    /\ resetTodo' = resetTodo \ {resetAt}
    /\ resetAt' = None
    /\ UNCHANGED <<db, advLock, tx, resetsLeft, history>>

(* The row is locked and zeroed, or passed over if it matches no longer. *)
ResetRow ==
    /\ resetAt # None
    /\ IF NonZero(resetAt)
       THEN /\ rowLock[resetAt] = None
            /\ rowLock' = [rowLock EXCEPT ![resetAt] = ResetJob]
       ELSE UNCHANGED rowLock
    /\ resetTodo' = resetTodo \ {resetAt}
    /\ resetAt' = None
    /\ UNCHANGED <<db, advLock, tx, resetsLeft, history>>

ResetCommit ==
    /\ resetTodo = {} /\ resetAt = None
    /\ ResetJob \in {rowLock[u] : u \in Users}
    /\ balance' = [u \in Users |-> IF rowLock[u] = ResetJob THEN 0 ELSE balance[u]]
    /\ ReleaseAll(ResetJob)
    /\ UNCHANGED <<ops, status, tx, reset, history>>

(* The UPDATE fails, or the worker dies: nothing is reset. *)
ResetAbort ==
    /\ resetTodo # {} \/ ResetJob \in {rowLock[u] : u \in Users}
    /\ ReleaseAll(ResetJob)
    /\ resetTodo' = {} /\ resetAt' = None
    /\ UNCHANGED <<db, tx, resetsLeft, history>>

-----------------------------------------------------------------------------
(* Deadlock detection, by PostgreSQL: every process waits for at most one  *)
(* other, so a cycle is a set that waiting maps onto itself.               *)

Blocker(lock, p) == IF FreeFor(lock, p) THEN None ELSE lock

WaitsFor(p) ==
    IF p = ResetJob
    THEN IF resetAt # None /\ NonZero(resetAt) THEN rowLock[resetAt] ELSE None
    ELSE IF pc[p] \in {"lockFirst", "lockSecond"} /\ Live(UserToLock(p))
    THEN Blocker(rowLock[UserToLock(p)], p)
    ELSE IF pc[p] = "advisory" THEN Blocker(advLock[Lock(req[p], leg[p])], p)
    ELSE IF pc[p] = "change" /\ Matches(p) THEN Blocker(rowLock[User(p)], p)
    ELSE None

Cycle(ps) == ps # {} /\ {WaitsFor(p) : p \in ps} = ps

(* One process of a cycle is chosen and its transaction fails. *)
DetectDeadlock(p) ==
    /\ \E ps \in SUBSET Procs : p \in ps /\ Cycle(ps)
    /\ IF p = ResetJob THEN ResetAbort ELSE Fail(p, "serverError")

-----------------------------------------------------------------------------
(* Users are deleted: first softly, by themselves, then for good, by a job. *)

SoftDelete(u) ==
    /\ Live(u)
    /\ rowLock[u] = None
    /\ status' = [status EXCEPT ![u] = "deleted"]
    /\ UNCHANGED <<balance, ops, locks, tx, reset, history>>

(* An operation that is not committed yet refers to u and holds its row. *)
Referenced(u) ==
    \E t \in Txs, v \in Users :
        newOps[t][v] # None /\ (v = u \/ newOps[t][v].peer = u)

(* A plausible bug: only the user's own operations go with the user. *)
BugHalfCascade(u) ==
    /\ status[u] = "deleted"
    /\ ~Referenced(u)
    /\ status' = [status EXCEPT ![u] = "absent"]
    /\ balance' = [balance EXCEPT ![u] = 0]
    /\ ops' = [ops EXCEPT ![u] = [k \in Keys |-> None]]
    /\ UNCHANGED <<locks, tx, reset, history>>

HardDelete(u) ==
    /\ status[u] = "deleted"
    /\ ~Referenced(u)
    /\ status' = [status EXCEPT ![u] = "absent"]
    /\ balance' = [balance EXCEPT ![u] = 0]
    /\ ops' = [v \in Users |-> [k \in Keys |->
                 IF ops[v][k] # None /\ (v = u \/ ops[v][k].peer = u)
                 THEN None ELSE ops[v][k]]]
    /\ UNCHANGED <<locks, tx, reset, history>>

-----------------------------------------------------------------------------
TxStep(t) ==
    \/ LockUser(t) \/ Acquire(t) \/ Lookup(t) \/ Change(t) \/ Reject(t)
    \/ Save(t) \/ Commit(t) \/ Respond(t)

ResetStep == (\E u \in Users : ResetReach(u)) \/ ResetRow \/ ResetCommit

Next ==
    \/ \E t \in Txs, r \in Requests : Begin(t, r)
    \/ \E t \in Txs : TxStep(t) \/ Crash(t)
    \/ ResetBegin \/ ResetStep \/ ResetAbort
    \/ \E p \in Procs : DetectDeadlock(p)
    \/ \E u \in Deletable : SoftDelete(u) \/ HardDelete(u)

(* A transaction that can go on does, and PostgreSQL grants a lock in the  *)
(* order in which it was asked for, so none waits for ever while its lock  *)
(* is given to others.  Nothing obliges a client to send a request.        *)
Fairness ==
    /\ \A t \in Txs : SF_vars(TxStep(t))
    /\ SF_vars(ResetStep)
    /\ \A p \in Procs : WF_vars(DetectDeadlock(p))

Spec == Init /\ [][Next]_vars
FairSpec == Spec /\ Fairness

-----------------------------------------------------------------------------
(* Properties. *)

(* No two transactions are between the lookup of one (user, key) and the   *)
(* end of their transaction at once: the lock "on custom key" of           *)
(* balance-operations.repository.ts makes check and insert one step.       *)
Holds(t, u, k) ==
    /\ pc[t] \in {"lookup", "change", "save"}
    /\ User(t) = u /\ Key(t) = k

KeyLockExcludes ==
    \A t1, t2 \in Txs, u \in Users, k \in Keys :
        Holds(t1, u, k) /\ Holds(t2, u, k) => t1 = t2

(* However often and however concurrently a request is sent, and whatever  *)
(* crashes and deletions happen in between, it changes balances only once. *)
AppliedOnce == \A r \in Requests : effects[r] <= 1

(* The two halves of a transfer are recorded together and removed together. *)
RecordOf(u, k, r, i) ==
    /\ ops[u][k] # None
    /\ ops[u][k].type = LegType(r, i) /\ ops[u][k].peer = LegPeer(r, i)
    /\ ops[u][k].amount = r.amount

TransferWhole ==
    \A u, v \in Users, k \in Keys :
        u # v /\ ops[u][k] # None /\ ops[u][k].peer = v =>
            /\ ops[v][k] # None /\ ops[v][k].peer = u
            /\ ops[v][k].amount = ops[u][k].amount
            /\ ops[v][k].type # ops[u][k].type

(* A client told "ok" finds its operation in the ledger with the balance   *)
(* it was told, unless a party to it has since been deleted for good.      *)
Gone(r) == status[r.user] = "absent" \/ status[r.to] = "absent"

InLedger(r, b) ==
    Gone(r) \/ (RecordOf(r.user, r.key, r, 1) /\ ops[r.user][r.key].result = b)

AnswersMatchLedger == \A r \in Requests : \A b \in answers[r] : InLedger(r, b)

(* A replay is answered as the first call was. *)
ReplaysAgree == \A r \in Requests : Cardinality(answers[r]) <= 1

(* Two different requests never both succeed under one key of one user.    *)
KeyHasOnePayload ==
    \A r1, r2 \in Requests : \A i \in 1 .. LegCount(r1), j \in 1 .. LegCount(r2) :
        /\ answers[r1] # {} /\ answers[r2] # {}
        /\ LegUser(r1, i) = LegUser(r2, j) /\ r1.key = r2.key
        => r1 = r2 \/ Gone(r1) \/ Gone(r2)

(* "locking both users in deterministic order": transfers, whatever their  *)
(* directions, never wait for one another in a circle.                     *)
TransfersNeverDeadlock ==
    \A ps \in SUBSET Txs :
        Cycle(ps) => \E t \in ps : req[t].kind # "transfer"

(* Among requests, a deadlock takes two that share an idempotency key: the *)
(* one locks its row before its key, the other its key before its row.     *)
DeadlockNeedsSharedKey ==
    \A ps \in SUBSET Txs :
        Cycle(ps) => \E t1, t2 \in ps : t1 # t2 /\ req[t1].key = req[t2].key

(* Every request ends, and so does the reset job's UPDATE. *)
RequestsEnd == \A t \in Txs : pc[t] # "idle" ~> pc[t] = "idle"
ResetEnds == resetTodo # {} ~> resetTodo = {} /\ ResetJob \notin {rowLock[u] : u \in Users}

(* The transactions amount to the atomic operations of the ledger. *)
Abstract == INSTANCE Ledger WITH
    balance <- balance, ops <- ops, status <- status
LedgerSpec == Abstract!Spec
-----------------------------------------------------------------------------
(* The inductive invariant, for clients that spell their uuids canonically. *)

Running(t) == pc[t] \notin {"idle", "reply"}

(* The legs whose idempotency lock t has, and the last leg it is on. *)
LegLocked(t, i) ==
    Running(t) /\ (i < leg[t] \/ (i = leg[t] /\ pc[t] \in {"lookup", "change", "save", "commit"}))

LegOK(t) ==
    /\ pc[t] \in {"idle", "lockFirst", "lockSecond"} => leg[t] = 1
    /\ Running(t) => leg[t] <= LegCount(req[t])
    /\ Running(t) /\ req[t].kind = "transfer" => req[t].user # req[t].to
    /\ pc[t] = "commit" => leg[t] = LegCount(req[t])
    /\ pc[t] \in {"idle", "lockFirst", "lockSecond", "reply"} =>
          wrote[t] = Nothing /\ newOps[t] = Nothing

LockOK(t) == \A i \in {1, 2} : LegLocked(t, i) => advLock[Lock(req[t], i)] = t

(* A transaction has written a balance only of a row it holds, by the      *)
(* amount of a leg it has started, and records it before it goes on.       *)
Written(t, u, i) ==
    /\ LegLocked(t, i) /\ i <= LegCount(req[t])
    /\ u = LegUser(req[t], i)
    /\ wrote[t][u] = balance[u] + LegDelta(req[t], i)
    /\ \/ /\ newOps[t][u] = NewOp(req[t], i, wrote[t][u])
          /\ i < leg[t] \/ pc[t] = "commit"
       \/ newOps[t][u] = None /\ pc[t] = "save" /\ i = leg[t]

WriteOK(t) ==
    /\ pc[t] = "save" => wrote[t][User(t)] # None
    /\ pc[t] \in {"advisory", "lookup", "change", "save"} => newOps[t][User(t)] = None
    /\ pc[t] \in {"change", "save"} => ops[User(t)][Key(t)] = None
    /\ \A u \in Users : wrote[t][u] # None =>
          rowLock[u] = t /\ \E i \in {1, 2} : Written(t, u, i)
    /\ \A u \in Users : newOps[t][u] # None =>
          /\ wrote[t][u] # None
          /\ ops[u][Key(t)] = None
          /\ status[newOps[t][u].peer] # "absent"

(* A transfer whose first leg was a replay replays its second leg too, and *)
(* one that changed the sender's balance changes the recipient's.          *)
Recorded(r) == RecordOf(r.user, r.key, r, 1) \/ Gone(r)

ReplayOK(t) == Running(t) /\ leg[t] = 2 =>
    /\ newOps[t][req[t].user] = None => Recorded(req[t])
    /\ pc[t] = "commit" => (newOps[t][req[t].user] = None <=> newOps[t][req[t].to] = None)

TxOK(t) == LegOK(t) /\ LockOK(t) /\ WriteOK(t) /\ ReplayOK(t)
TxInv == \A t \in Txs : TxOK(t)

RowsLive == \A u \in Users : rowLock[u] # None => Live(u)

(* No operation outlives a user it names. *)
ForeignKeys == \A u \in Users, k \in Keys : ops[u][k] # None =>
    status[u] # "absent" /\ status[ops[u][k].peer] # "absent"

EffectInv == \A r \in Requests :
    effects[r] <= 1 /\ (effects[r] # 0 => Recorded(r))

IndInv ==
    /\ TypeOK /\ TxInv /\ RowsLive /\ ForeignKeys /\ TransferWhole /\ EffectInv

(* The first leg is done, and with it the answer is known: that of an      *)
(* operation of its own, which waits for the commit, or of a recorded one. *)
FirstLegOver(t) == Running(t) /\ (leg[t] = 2 \/ pc[t] = "commit")

Settled(t) ==
    \/ pc[t] = "reply" /\ reply[t].code = "ok"
    \/ FirstLegOver(t) /\ newOps[t][req[t].user] = None

PendingInv == \A t \in Txs :
    FirstLegOver(t) /\ newOps[t][req[t].user] # None =>
        newOps[t][req[t].user].result = reply[t].balance

(* Whatever clients have been told, or are going to be, is in the ledger,  *)
(* and agrees.                                                             *)
Told(r, b) ==
    b \in answers[r] \/ \E t \in Txs : Settled(t) /\ req[t] = r /\ reply[t].balance = b

ToldInv == \A r \in Requests, b \in Amount : Told(r, b) =>
    /\ InLedger(r, b)
    /\ \A c \in Amount : Told(r, c) => c = b
    /\ r.kind = "transfer" => r.user # r.to

AnswerInv == PendingInv /\ ToldInv

(* The locks a transaction has, and those it must have: a lock that is not *)
(* needed any more is not kept, and a live user whom a transfer has come   *)
(* past is locked.                                                         *)
KeysNeeded(t) == \A h \in Hashes : advLock[h] = t =>
    \E i \in {1, 2} : LegLocked(t, i) /\ h = Lock(req[t], i)

RowsNeeded(t) == \A u \in Users : rowLock[u] = t =>
    /\ Running(t) /\ pc[t] # "lockFirst"
    /\ pc[t] = "lockSecond" => u = LockOrder(req[t])[1]
    /\ req[t].kind # "transfer" => pc[t] \in {"save", "commit"}

UsersLocked(t) ==
    /\ pc[t] \in {"lockFirst", "lockSecond"} => req[t].kind = "transfer"
    /\ Running(t) /\ req[t].kind = "transfer" /\ pc[t] # "lockFirst" =>
          \A u \in {req[t].user, req[t].to} :
              Live(u) /\ (pc[t] = "lockSecond" => u = LockOrder(req[t])[1]) => rowLock[u] = t

HeldOK(t) == KeysNeeded(t) /\ RowsNeeded(t) /\ UsersLocked(t)

(* A transfer whose first leg was a replay keeps its operation from being  *)
(* replaced, if not from being purged; and of such transfers there is a    *)
(* last one in every chain from a recipient to a sender.                   *)
Replayed(t) == Running(t) /\ leg[t] = 2 /\ newOps[t][req[t].user] = None

ReplayKept(t) == Replayed(t) =>
    RecordOf(req[t].user, req[t].key, req[t], 1) \/ ops[req[t].user][req[t].key] = None

Follows(s, t) == req[s].user = req[t].to /\ req[s].key = req[t].key

NoReplayCircle == \A ps \in SUBSET Txs :
    /\ \A t \in ps : Replayed(t)
    /\ \A t \in ps : \E s \in ps : Follows(s, t)
    => ps = {}

WaitInv == (\A t \in Txs : HeldOK(t) /\ ReplayKept(t)) /\ NoReplayCircle

(* hashtext gives different locks different numbers. *)
CollisionFree == \A x, y \in LockTexts : HashText[x] = HashText[y] => x = y
=============================================================================
