--------------------------- MODULE BalanceProofs ----------------------------
(***************************************************************************)
(* Theorems about Balance, for all users, keys, requests, transactions and *)
(* hash functions.                                                         *)
(***************************************************************************)
EXTENDS Balance, WellFoundedInduction, TLAPS

(* The requests as the assumptions of Operations describe them. *)
LEMMA RequestFields ==
    ASSUME NEW r \in Requests
    PROVE  /\ r.kind \in Kinds /\ r.user \in Users /\ r.to \in Users
           /\ r.amount \in Nat /\ r.amount > 0 /\ r.key \in Keys
           /\ r.kind # "transfer" => r.to = r.user
BY RequestsAssumption DEF RequestType

(* The users, the amounts and the lock of a leg are well typed. *)
LEMMA LegFields ==
    ASSUME NEW r \in Requests, NEW i \in {1, 2}
    PROVE  /\ LegUser(r, i) \in Users /\ LegPeer(r, i) \in Users
           /\ LegType(r, i) \in OpTypes /\ LegDelta(r, i) \in Int
           /\ LegDelta(r, i) >= 0 \/ LegDelta(r, i) < 0
           /\ LegCount(r) \in {1, 2}
           /\ Lock(r, i) \in Hashes
           /\ \A b \in Amount : NewOp(r, i, b) \in Op
<1>1. Lock(r, i) \in Hashes
  BY HashAssumption, LockTextAssumption DEF Lock
<1>2. QED
  BY <1>1, RequestFields
  DEF LegUser, LegPeer, LegType, LegDelta, LegCount, OpTypes, NewOp, Op, Amount

-----------------------------------------------------------------------------
(* Type correctness. *)

LEMMA ReleaseType ==
    ASSUME TypeOK, NEW p \in Procs, ReleaseAll(p)
    PROVE  rowLock' \in [Users -> Procs \cup {None}] /\ advLock' \in [Hashes -> Txs \cup {None}]
BY DEF TypeOK, ReleaseAll

LEMMA FailType ==
    ASSUME TypeOK, NEW t \in Txs, NEW code \in Codes, Fail(t, code), pc[t] # "idle"
    PROVE  TypeOK'
<1>1. rowLock' \in [Users -> Procs \cup {None}] /\ advLock' \in [Hashes -> Txs \cup {None}]
  BY ReleaseType DEF Fail, Procs
<1>2. [code |-> code, balance |-> 0] \in Reply
  BY MaxBalanceAssumption DEF Reply, Amount
<1>3. pc' \in [Txs -> Steps] /\ reply' \in [Txs -> Reply]
  BY <1>2 DEF Fail, TypeOK, Steps
<1>4. wrote' \in [Txs -> [Users -> Amount \cup {None}]]
  BY DEF Fail, TypeOK, Nothing
<1>5. newOps' \in [Txs -> [Users -> Op \cup {None}]]
  BY DEF Fail, TypeOK, Nothing
<1>6. QED
  BY <1>1, <1>3, <1>4, <1>5 DEF Fail, TypeOK, db, reset, history

LEMMA NextLegType ==
    ASSUME TypeOK, NEW t \in Txs, NextLeg(t)
    PROVE  pc' \in [Txs -> Steps] /\ leg' \in [Txs -> {1, 2}]
BY DEF TypeOK, NextLeg, Steps

LEMMA RecordResultType ==
    ASSUME TypeOK, NEW t \in Txs, NEW b \in Amount, RecordResult(t, b)
    PROVE  reply' \in [Txs -> Reply]
BY DEF TypeOK, RecordResult, Reply, Codes

LEMMA ForgetType ==
    ASSUME TypeOK, NEW t \in Txs, Forget(t)
    PROVE  /\ pc' \in [Txs -> Steps] /\ leg' \in [Txs -> {1, 2}]
           /\ req' \in [Txs -> Requests \cup {None}]
           /\ \A s \in Txs : pc'[s] # "idle" => req'[s] \in Requests
           /\ reply' \in [Txs -> Reply]
           /\ wrote' \in [Txs -> [Users -> Amount \cup {None}]]
           /\ newOps' \in [Txs -> [Users -> Op \cup {None}]]
<1>1. NoReply \in Reply
  BY MaxBalanceAssumption DEF NoReply, Reply, Codes, Amount
<1>2. Nothing \in [Users -> Amount \cup {None}] /\ Nothing \in [Users -> Op \cup {None}]
  BY DEF Nothing
<1>3. QED
  BY <1>1, <1>2 DEF Forget, TypeOK, Steps

(* What the leg a transaction is on is made of. *)
LEMMA TxFields ==
    ASSUME TypeOK, NEW t \in Txs, pc[t] # "idle"
    PROVE  /\ req[t] \in Requests /\ leg[t] \in {1, 2}
           /\ User(t) \in Users /\ Peer(t) \in Users /\ Key(t) \in Keys
           /\ Delta(t) \in Int /\ Lock(req[t], leg[t]) \in Hashes
           /\ LegType(req[t], leg[t]) \in OpTypes
           /\ \A b \in Amount : NewOp(req[t], leg[t], b) \in Op
           /\ BalanceSeen(t, User(t)) \in Amount
           /\ OpSeen(t, User(t)) \in Op \cup {None}
<1>1. req[t] \in Requests /\ leg[t] \in {1, 2}
  BY DEF TypeOK
<1>2. User(t) \in Users /\ Key(t) \in Keys
  BY <1>1, LegFields, RequestFields DEF User, Key
<1>3. BalanceSeen(t, User(t)) \in Amount /\ OpSeen(t, User(t)) \in Op \cup {None}
  BY <1>2 DEF TypeOK, BalanceSeen, OpSeen
<1>4. QED
  BY <1>1, <1>2, <1>3, LegFields DEF Peer, Delta

LEMMA InitType == Init => TypeOK
<1> SUFFICES ASSUME Init PROVE TypeOK
  OBVIOUS
<1>1. NoReply \in Reply
  BY MaxBalanceAssumption DEF NoReply, Reply, Codes, Amount
<1>2. QED
  BY <1>1, InitAssumption DEF Init, TypeOK, Nothing, Steps

(* A transaction in a deadlock is waiting, so it is not idle. *)
LEMMA DeadlockedIsRunning ==
    ASSUME NEW p \in Procs, p # ResetJob, DetectDeadlock(p)
    PROVE  pc[p] \in {"lockFirst", "lockSecond", "advisory", "change"}
<1>1. PICK ps \in SUBSET Procs : p \in ps /\ {WaitsFor(q) : q \in ps} = ps
  BY DEF DetectDeadlock, Cycle
<1>2. WaitsFor(p) # None
  BY <1>1, ProcessAssumption DEF Procs
<1>3. QED
  BY <1>2 DEF WaitsFor

(* A transaction saves the balance it has just changed. *)
SaveWrote == \A t \in Txs : pc[t] = "save" => wrote[t][User(t)] # None

LEMMA StepType == TypeOK /\ SaveWrote /\ [Next]_vars => TypeOK'
<1> SUFFICES ASSUME TypeOK, SaveWrote, [Next]_vars PROVE TypeOK'
  OBVIOUS
<1> USE DEF db, locks, tx, reset, history
<1>1. ASSUME NEW t \in Txs, NEW r \in Requests, Begin(t, r) PROVE TypeOK'
  <2>1. [code |-> "badRequest", balance |-> 0] \in Reply
    BY MaxBalanceAssumption DEF Reply, Codes, Amount
  <2>2. QED
    BY <1>1, <2>1 DEF Begin, TypeOK, Steps
<1>2. ASSUME NEW t \in Txs, LockUser(t) PROVE TypeOK'
  <2>1. UserToLock(t) \in Users
    <3>1. req[t] \in Requests
      BY <1>2 DEF LockUser, TypeOK
    <3>2. QED
      BY <3>1, RequestFields DEF UserToLock, LockOrder
  <2>2. QED
    BY <1>2, <2>1 DEF LockUser, TypeOK, Steps, Procs
<1>3. ASSUME NEW t \in Txs, Acquire(t) PROVE TypeOK'
  BY <1>3, TxFields DEF Acquire, TypeOK, Steps
<1>4. ASSUME NEW t \in Txs, Lookup(t) PROVE TypeOK'
  <2> DEFINE op == OpSeen(t, User(t))
  <2>1. pc[t] = "lookup"
    BY <1>4 DEF Lookup
  <2>2. op \in Op \cup {None}
    BY <2>1, TxFields
  <2>3. CASE op = None /\ pc' = [pc EXCEPT ![t] = "change"]
             /\ UNCHANGED <<db, locks, req, leg, reply, wrote, newOps, reset, history>>
    BY <2>1, <2>3 DEF TypeOK, Steps
  <2>4. CASE op # None /\ RecordResult(t, op.result) /\ NextLeg(t)
             /\ UNCHANGED <<db, locks, req, wrote, newOps, reset, history>>
    <3>1. op.result \in Amount
      BY <2>2, <2>4 DEF Op
    <3>2. reply' \in [Txs -> Reply]
      BY <2>4, <3>1, RecordResultType
    <3>3. pc' \in [Txs -> Steps] /\ leg' \in [Txs -> {1, 2}]
      BY <2>4, NextLegType
    <3>4. \A s \in Txs : pc'[s] # "idle" => pc[s] # "idle"
      BY <2>1, <2>4 DEF NextLeg, TypeOK
    <3>5. QED
      BY <2>4, <3>2, <3>3, <3>4 DEF TypeOK
  <2>5. CASE Fail(t, "conflict")
    BY <2>1, <2>5, FailType DEF Codes
  <2>6. QED
    BY <1>4, <2>3, <2>4, <2>5 DEF Lookup
<1>5. ASSUME NEW t \in Txs, Change(t) PROVE TypeOK'
  <2> DEFINE new == BalanceSeen(t, User(t)) + Delta(t)
  <2>1. pc[t] = "change" /\ Matches(t)
    BY <1>5 DEF Change
  <2>2. CASE Fail(t, "serverError")
    BY <2>1, <2>2, FailType DEF Codes
  <2>3. CASE /\ ~(new > MaxBalance)
             /\ rowLock' = [rowLock EXCEPT ![User(t)] = t]
             /\ wrote' = [wrote EXCEPT ![t][User(t)] = new]
             /\ pc' = [pc EXCEPT ![t] = "save"]
             /\ UNCHANGED <<db, advLock, req, leg, reply, newOps, reset, history>>
    <3>1. new \in Amount
      BY <2>1, <2>3, TxFields, MaxBalanceAssumption DEF Matches, Amount
    <3>2. wrote' \in [Txs -> [Users -> Amount \cup {None}]]
      BY <2>3, <3>1 DEF TypeOK
    <3>3. QED
      BY <2>1, <2>3, <3>2, TxFields DEF TypeOK, Steps, Procs
  <2>4. QED
    BY <1>5, <2>2, <2>3 DEF Change
<1>6. ASSUME NEW t \in Txs, Reject(t) PROVE TypeOK'
  <2>1. pc[t] # "idle"
    BY <1>6 DEF Reject
  <2>2. PICK code \in {"notFound", "badRequest"} : Fail(t, code)
    BY <1>6 DEF Reject
  <2>3. QED
    BY <2>1, <2>2, FailType DEF Codes
<1>7. ASSUME NEW t \in Txs, Save(t) PROVE TypeOK'
  <2>1. pc[t] = "save"
    BY <1>7 DEF Save
  <2>2. CASE Fail(t, "serverError")
    BY <2>1, <2>2, FailType DEF Codes
  <2>3. CASE /\ newOps' = [newOps EXCEPT ![t][User(t)] =
                            NewOp(req[t], leg[t], wrote[t][User(t)])]
             /\ RecordResult(t, wrote[t][User(t)])
             /\ NextLeg(t)
             /\ UNCHANGED <<db, locks, req, wrote, reset, history>>
    <3>1. wrote[t][User(t)] \in Amount
      BY <2>1, TxFields DEF TypeOK, SaveWrote
    <3>2. newOps' \in [Txs -> [Users -> Op \cup {None}]]
      BY <2>1, <2>3, <3>1, TxFields DEF TypeOK
    <3>3. reply' \in [Txs -> Reply]
      BY <2>3, <3>1, RecordResultType
    <3>4. pc' \in [Txs -> Steps] /\ leg' \in [Txs -> {1, 2}]
      BY <2>3, NextLegType
    <3>5. \A s \in Txs : pc'[s] # "idle" => pc[s] # "idle"
      BY <2>1, <2>3 DEF NextLeg, TypeOK
    <3>6. QED
      BY <2>3, <3>2, <3>3, <3>4, <3>5 DEF TypeOK
  <2>4. QED
    BY <1>7, <2>2, <2>3 DEF Save
<1>8. ASSUME NEW t \in Txs, Commit(t) PROVE TypeOK'
  <2>1. pc[t] = "commit" /\ req[t] \in Requests
    BY <1>8 DEF Commit, TypeOK
  <2>2. balance' \in [Users -> Amount] /\ ops' \in [Users -> [Keys -> Op \cup {None}]]
    BY <1>8 DEF Commit, TypeOK
  <2>3. effects' \in [Requests -> Nat]
    BY <1>8, <2>1 DEF Commit, TypeOK
  <2>4. rowLock' \in [Users -> Procs \cup {None}] /\ advLock' \in [Hashes -> Txs \cup {None}]
    BY <1>8, ReleaseType DEF Commit, Procs
  <2>5. wrote' \in [Txs -> [Users -> Amount \cup {None}]]
    BY <1>8 DEF Commit, TypeOK, Nothing
  <2>6. newOps' \in [Txs -> [Users -> Op \cup {None}]]
    BY <1>8 DEF Commit, TypeOK, Nothing
  <2>7. pc' \in [Txs -> Steps] /\ \A s \in Txs : pc'[s] # "idle" => pc[s] # "idle"
    BY <1>8, <2>1 DEF Commit, TypeOK, Steps
  <2>8. QED
    BY <1>8, <2>2, <2>3, <2>4, <2>5, <2>6, <2>7 DEF Commit, TypeOK
<1>9. ASSUME NEW t \in Txs, Respond(t) PROVE TypeOK'
  <2>1. req[t] \in Requests /\ reply[t].balance \in Amount
    BY <1>9 DEF Respond, TypeOK, Reply
  <2>2. answers' \in [Requests -> SUBSET Amount]
    BY <1>9, <2>1 DEF Respond, TypeOK
  <2>3. QED
    BY <1>9, <2>2, ForgetType DEF Respond, TypeOK
<1>10. ASSUME NEW t \in Txs, Crash(t) PROVE TypeOK'
  BY <1>10, ForgetType, ReleaseType DEF Crash, TypeOK, Procs
<1>11. CASE ResetBegin
  BY <1>11 DEF ResetBegin, TypeOK
<1>12. ASSUME NEW u \in Users, ResetReach(u) PROVE TypeOK'
  BY <1>12 DEF ResetReach, TypeOK
<1>13. CASE ResetRow
  BY <1>13 DEF ResetRow, TypeOK, Procs
<1>14. CASE ResetCommit
  <2>1. balance' \in [Users -> Amount]
    BY <1>14, MaxBalanceAssumption DEF ResetCommit, TypeOK, Amount
  <2>2. QED
    BY <1>14, <2>1, ReleaseType DEF ResetCommit, TypeOK, Procs
<1>15. CASE ResetAbort
  BY <1>15, ReleaseType DEF ResetAbort, TypeOK, Procs
<1>16. ASSUME NEW p \in Procs, DetectDeadlock(p) PROVE TypeOK'
  <2>1. CASE p = ResetJob
    BY <1>15, <1>16, <2>1 DEF DetectDeadlock
  <2>2. CASE p # ResetJob
    <3>1. p \in Txs /\ Fail(p, "serverError")
      BY <1>16, <2>2 DEF DetectDeadlock, Procs
    <3>2. pc[p] # "idle"
      BY <1>16, <2>2, DeadlockedIsRunning
    <3>3. QED
      BY <3>1, <3>2, FailType DEF Codes
  <2>3. QED
    BY <2>1, <2>2
<1>17. ASSUME NEW u \in Deletable, SoftDelete(u) PROVE TypeOK'
  BY <1>17, InitAssumption DEF SoftDelete, TypeOK, Statuses
<1>18. ASSUME NEW u \in Deletable, HardDelete(u) PROVE TypeOK'
  <2>1. balance' \in [Users -> Amount]
    <3>1. balance' = [balance EXCEPT ![u] = 0]
      BY <1>18 DEF HardDelete
    <3>2. 0 \in Amount
      BY MaxBalanceAssumption DEF Amount
    <3>3. QED
      BY <3>1, <3>2 DEF TypeOK
  <2>2. ops' \in [Users -> [Keys -> Op \cup {None}]]
    BY <1>18 DEF HardDelete, TypeOK
  <2>3. status' \in [Users -> Statuses]
    BY <1>18, InitAssumption DEF HardDelete, TypeOK, Statuses
  <2>4. QED
    BY <1>18, <2>1, <2>2, <2>3 DEF HardDelete, TypeOK
<1>19. CASE UNCHANGED vars
  BY <1>19 DEF vars, TypeOK
<1>20. QED
  BY <1>1, <1>2, <1>3, <1>4, <1>5, <1>6, <1>7, <1>8, <1>9, <1>10, <1>11, <1>12,
     <1>13, <1>14, <1>15, <1>16, <1>17, <1>18, <1>19
  DEF Next, TxStep, ResetStep

LEMMA StepSaveWrote == TypeOK /\ SaveWrote /\ [Next]_vars => SaveWrote'
<1> SUFFICES ASSUME TypeOK, SaveWrote, [Next]_vars, NEW s \in Txs, pc'[s] = "save"
             PROVE  (wrote[s][User(s)] # None)'
  BY DEF SaveWrote
<1> USE DEF db, locks, tx, reset, history
<1>1. ASSUME pc[s] = "save", UNCHANGED <<wrote[s], req[s], leg[s]>>
      PROVE  (wrote[s][User(s)] # None)'
  BY <1>1 DEF SaveWrote, User
<1>2. ASSUME NEW t \in Txs, TxStep(t) \/ Crash(t) \/ (\E r \in Requests : Begin(t, r))
                           \/ Fail(t, "serverError")
      PROVE  (wrote[s][User(s)] # None)'
  <2>1. CASE t # s
    BY <1>1, <1>2, <2>1
    DEF TypeOK, TxStep, Begin, LockUser, Acquire, Lookup, Change, Reject, Save, Commit,
        Respond, Crash, Fail, NextLeg, Forget
  <2>2. CASE t = s
    <3>1. Change(t)
      BY <1>2, <2>2
      DEF TypeOK, TxStep, Begin, LockUser, Acquire, Lookup, Reject, Save, Commit,
          Respond, Crash, Fail, NextLeg, Forget
    <3>2. BalanceSeen(t, User(t)) \in Amount /\ Delta(t) \in Int /\ User(t) \in Users
      BY <3>1, TxFields DEF Change
    <3>3. BalanceSeen(t, User(t)) + Delta(t) # None
      BY <3>2, NoneAssumption DEF Amount
    <3>4. QED
      BY <2>2, <3>1, <3>2, <3>3 DEF Change, Fail, TypeOK, User
  <2>3. QED
    BY <2>1, <2>2
<1>3. CASE ResetBegin \/ ResetStep \/ ResetAbort \/ UNCHANGED vars
           \/ \E u \in Deletable : SoftDelete(u) \/ HardDelete(u)
  BY <1>1, <1>3
  DEF ResetBegin, ResetStep, ResetReach, ResetRow, ResetCommit, ResetAbort, SoftDelete,
      HardDelete, vars
<1>4. ASSUME NEW p \in Procs, DetectDeadlock(p) PROVE (wrote[s][User(s)] # None)'
  BY <1>2, <1>3, <1>4 DEF DetectDeadlock, Procs
<1>5. QED
  BY <1>2, <1>3, <1>4 DEF Next

(* No balance, recorded or pending, leaves the range of its column: no      *)
(* interleaving of withdrawals, transfers and resets overdraws a balance.   *)
THEOREM TypeCorrect == Spec => []TypeOK
<1>1. Init => TypeOK /\ SaveWrote
  BY InitType DEF Init, SaveWrote
<1>2. TypeOK /\ SaveWrote /\ [Next]_vars => (TypeOK /\ SaveWrote)'
  BY StepType, StepSaveWrote
<1>3. QED
  BY <1>1, <1>2, PTL DEF Spec

-----------------------------------------------------------------------------
(* Interference between transactions.                                      *)

(* What a transaction's part of the invariant asks of the steps of others. *)
Undisturbed(s) ==
    /\ pc'[s] = pc[s] /\ req'[s] = req[s] /\ leg'[s] = leg[s]
    /\ wrote'[s] = wrote[s] /\ newOps'[s] = newOps[s]
    /\ \A h \in Hashes : advLock[h] = s => advLock'[h] = s
    /\ \A u \in Users : rowLock[u] = s => rowLock'[u] = s

DataKept(s) ==
    /\ \A u \in Users : wrote[s][u] # None => balance'[u] = balance[u]
    /\ \A u \in Users :
         /\ newOps[s][u] # None \/ (pc[s] \in {"change", "save"} /\ u = User(s))
         /\ ops[u][Key(s)] = None
         => ops'[u][Key(s)] = None
    /\ \A u \in Users : newOps[s][u] # None /\ status[newOps[s][u].peer] # "absent"
         => status'[newOps[s][u].peer] # "absent"
    /\ Running(s) /\ Recorded(req[s]) => Recorded(req[s])'

LEMMA Interference ==
    ASSUME TypeOK, NEW s \in Txs, TxOK(s), Undisturbed(s), DataKept(s)
    PROVE  TxOK(s)'
<1> USE DEF Undisturbed
<1>1. LegOK(s)'
  BY DEF TxOK, LegOK, Running
<1>2. LockOK(s)'
  <2> SUFFICES ASSUME NEW i \in {1, 2}, LegLocked(s, i)'
               PROVE  (advLock[Lock(req[s], i)] = s)'
    BY DEF LockOK
  <2>1. LegLocked(s, i) /\ pc[s] # "idle"
    BY DEF LegLocked, Running
  <2>2. Lock(req[s], i) \in Hashes
    BY <2>1, LegFields DEF TypeOK
  <2>3. QED
    BY <2>1, <2>2 DEF TxOK, LockOK
<1>3. WriteOK(s)'
  <2>1. (pc[s] = "save" => wrote[s][User(s)] # None)'
    BY DEF TxOK, WriteOK, User
  <2>2. /\ (pc[s] \in {"advisory", "lookup", "change", "save"} => newOps[s][User(s)] = None)'
        /\ (pc[s] \in {"change", "save"} => ops[User(s)][Key(s)] = None)'
    <3>1. pc[s] \in {"change", "save"} => User(s) \in Users
      BY TxFields
    <3>2. QED
      BY <3>1 DEF TxOK, WriteOK, User, Key, DataKept
  <2>3. ASSUME NEW u \in Users, wrote[s][u] # None
        PROVE  rowLock'[u] = s /\ \E i \in {1, 2} : Written(s, u, i)'
    <3>1. rowLock'[u] = s /\ balance'[u] = balance[u]
      BY <2>3 DEF TxOK, WriteOK, DataKept
    <3>2. PICK i \in {1, 2} : Written(s, u, i)
      BY <2>3 DEF TxOK, WriteOK
    <3>3. Written(s, u, i)'
      BY <3>1, <3>2 DEF Written, LegLocked, Running
    <3>4. QED
      BY <3>1, <3>3
  <2>4. ASSUME NEW u \in Users, newOps[s][u] # None
        PROVE  wrote[s][u] # None /\ ops'[u][Key(s)] = None /\ status'[newOps[s][u].peer] # "absent"
    BY <2>4 DEF TxOK, WriteOK, DataKept
  <2>5. QED
    BY <2>1, <2>2, <2>3, <2>4 DEF WriteOK, Key
<1>4. ReplayOK(s)'
  BY DEF TxOK, ReplayOK, Running, DataKept, Recorded, Gone, RecordOf
<1>5. QED
  BY <1>1, <1>2, <1>3, <1>4 DEF TxOK

(* A step that leaves the committed database alone keeps everything that   *)
(* speaks of it.                                                           *)
LEMMA SameData ==
    ASSUME UNCHANGED db, NEW s \in Txs, Undisturbed(s)
    PROVE  DataKept(s)
BY DEF db, Undisturbed, DataKept, Recorded, Gone, RecordOf

(* The steps that a transaction makes by itself, and those made to it.     *)
Moves(t) ==
    \/ \E r \in Requests : Begin(t, r)
    \/ TxStep(t) \/ Crash(t) \/ Fail(t, "serverError")

ResetMoves == ResetBegin \/ ResetStep \/ ResetAbort

(* No transaction touches another's registers, or takes a lock it has.     *)
LEMMA OthersUndisturbed ==
    ASSUME TypeOK, NEW t \in Txs, Moves(t), NEW s \in Txs, s # t
    PROVE  Undisturbed(s)
<1>1. /\ pc'[s] = pc[s] /\ req'[s] = req[s] /\ leg'[s] = leg[s]
      /\ wrote'[s] = wrote[s] /\ newOps'[s] = newOps[s]
  BY DEF Moves, TypeOK, tx, TxStep, Begin, LockUser, Acquire, Lookup, Change, Reject,
         Save, Commit, Respond, Crash, Fail, NextLeg, Forget
<1>2. ASSUME NEW h \in Hashes, advLock[h] = s PROVE advLock'[h] = s
  <2>1. s # None
    BY ProcessAssumption
  <2>2. QED
    BY <1>2, <2>1
    DEF Moves, TypeOK, locks, TxStep, Begin, LockUser, Acquire, Lookup, Change, Reject,
        Save, Commit, Respond, Crash, Fail, ReleaseAll, FreeFor
<1>3. ASSUME NEW u \in Users, rowLock[u] = s PROVE rowLock'[u] = s
  <2>1. s # None
    BY ProcessAssumption
  <2>2. QED
    BY <1>3, <2>1
    DEF Moves, TypeOK, locks, TxStep, Begin, LockUser, Acquire, Lookup, Change, Reject,
        Save, Commit, Respond, Crash, Fail, ReleaseAll, FreeFor
<1>4. QED
  BY <1>1, <1>2, <1>3 DEF Undisturbed

LEMMA ResetUndisturbed ==
    ASSUME TypeOK, ResetMoves, NEW s \in Txs
    PROVE  Undisturbed(s)
<1>1. s # ResetJob /\ s # None
  BY ProcessAssumption
<1>2. QED
  BY <1>1
  DEF Undisturbed, TypeOK, ResetMoves, ResetStep, ResetBegin, ResetReach, ResetRow,
      ResetCommit, ResetAbort, ReleaseAll, tx, locks

-----------------------------------------------------------------------------
(* What a transaction's own steps do to its part of the invariant.         *)

LEMMA StartOK ==
    ASSUME CanonicalRequests, TypeOK, NEW t \in Txs, TxOK(t), NEW r \in Requests, Begin(t, r)
    PROVE  TxOK(t)'
<1>1. /\ pc[t] = "idle" /\ pc'[t] \in {"reply", "lockFirst", "advisory"}
      /\ pc'[t] = "lockFirst" => r.user # r.to
      /\ r.kind = "transfer" /\ pc'[t] # "reply" => pc'[t] = "lockFirst"
      /\ req'[t] = r /\ leg'[t] = 1 /\ wrote'[t] = Nothing /\ newOps'[t] = Nothing
  BY DEF Begin, TypeOK, TxOK, LegOK, CanonicalRequests
<1>2. LegCount(r) \in {1, 2}
  BY DEF LegCount
<1>3. LegOK(t)'
  BY <1>1, <1>2 DEF LegOK, Running
<1>4. LockOK(t)'
  BY <1>1 DEF LockOK, LegLocked
<1>5. r.user \in Users
  BY RequestFields
<1>6. WriteOK(t)'
  BY <1>1, <1>5 DEF WriteOK, Nothing, User, LegUser
<1>7. ReplayOK(t)'
  BY <1>1 DEF ReplayOK
<1>8. QED
  BY <1>3, <1>4, <1>6, <1>7 DEF TxOK

(* A transaction that has ended has nothing left to answer for.            *)
LEMMA EndOK ==
    ASSUME NEW t \in Txs, pc'[t] \in {"reply", "idle"}, pc'[t] = "idle" => leg'[t] = 1,
           wrote'[t] = Nothing, newOps'[t] = Nothing
    PROVE  TxOK(t)'
BY DEF TxOK, LegOK, LockOK, WriteOK, ReplayOK, Running, LegLocked, Nothing

LEMMA FailOK ==
    ASSUME TypeOK, NEW t \in Txs, NEW code \in Codes, Fail(t, code)
    PROVE  TxOK(t)'
<1>1. pc'[t] = "reply" /\ wrote'[t] = Nothing /\ newOps'[t] = Nothing
  BY DEF Fail, TypeOK
<1>2. QED
  BY <1>1, EndOK

LEMMA LockUserOK ==
    ASSUME TypeOK, NEW t \in Txs, TxOK(t), LockUser(t)
    PROVE  TxOK(t)'
<1>1. /\ pc[t] \in {"lockFirst", "lockSecond"} /\ pc'[t] \in {"lockSecond", "advisory"}
      /\ req'[t] = req[t] /\ leg'[t] = 1 /\ leg[t] = 1
      /\ wrote'[t] = Nothing /\ newOps'[t] = Nothing
  BY DEF LockUser, TypeOK, TxOK, LegOK
<1>2. LegOK(t)'
  BY <1>1 DEF TxOK, LegOK, Running
<1>3. LegUser(req[t], 1) \in Users
  BY <1>1, LegFields DEF TypeOK
<1>4. LockOK(t)' /\ WriteOK(t)' /\ ReplayOK(t)'
  BY <1>1, <1>3 DEF LockOK, WriteOK, ReplayOK, LegLocked, Nothing, User
<1>5. QED
  BY <1>2, <1>4 DEF TxOK

LEMMA AcquireOK ==
    ASSUME TypeOK, NEW t \in Txs, TxOK(t), Acquire(t)
    PROVE  TxOK(t)'
<1> USE DEF db
<1>1. /\ pc[t] = "advisory" /\ pc'[t] = "lookup"
      /\ UNCHANGED <<db, rowLock, req, leg, reply, wrote, newOps>>
      /\ req[t] \in Requests /\ leg[t] \in {1, 2}
  BY DEF Acquire, TypeOK
<1>2. LegOK(t)'
  BY <1>1 DEF TxOK, LegOK, Running
<1>3. LockOK(t)'
  <2> SUFFICES ASSUME NEW i \in {1, 2}, LegLocked(t, i)'
               PROVE  (advLock[Lock(req[t], i)] = t)'
    BY DEF LockOK
  <2>1. Lock(req[t], i) \in Hashes /\ Lock(req[t], leg[t]) \in Hashes
    BY <1>1, LegFields
  <2>2. i < leg[t] \/ i = leg[t]
    BY <1>1 DEF LegLocked
  <2>3. i < leg[t] => advLock[Lock(req[t], i)] = t
    BY <1>1 DEF TxOK, LockOK, LegLocked, Running
  <2>4. advLock' = [advLock EXCEPT ![Lock(req[t], leg[t])] = t]
    BY DEF Acquire
  <2>5. QED
    BY <1>1, <2>1, <2>2, <2>3, <2>4 DEF TypeOK
<1>4. WriteOK(t)'
  <2>1. ASSUME NEW u \in Users, NEW i \in {1, 2}, Written(t, u, i) PROVE Written(t, u, i)'
    BY <1>1, <2>1 DEF Written, LegLocked, Running
  <2>2. QED
    BY <1>1, <2>1 DEF TxOK, WriteOK, User, Key
<1>5. ReplayOK(t)'
  BY <1>1 DEF TxOK, ReplayOK, Running, Recorded, Gone, RecordOf
<1>6. QED
  BY <1>2, <1>3, <1>4, <1>5 DEF TxOK

(* The user of the leg a transaction is on has had no balance written yet. *)
LEMMA NotWrittenYet ==
    ASSUME TypeOK, NEW t \in Txs, TxOK(t), pc[t] \in {"advisory", "lookup", "change"}
    PROVE  wrote[t][User(t)] = None /\ newOps[t][User(t)] = None
<1>1. newOps[t][User(t)] = None /\ User(t) \in Users
  BY TxFields DEF TxOK, WriteOK
<1>2. ASSUME wrote[t][User(t)] # None PROVE FALSE
  <2>1. PICK i \in {1, 2} : Written(t, User(t), i)
    BY <1>1, <1>2 DEF TxOK, WriteOK
  <2>2. wrote[t][User(t)] \in Amount /\ req[t] \in Requests
    BY <1>1, <1>2, TxFields DEF TypeOK
  <2>3. NewOp(req[t], i, wrote[t][User(t)]) # None
    BY <2>2, LegFields, NoneAssumption
  <2>4. QED
    BY <1>1, <2>1, <2>3 DEF Written
<1>3. QED
  BY <1>1, <1>2

(* Nor has the recipient's balance while a transfer is on its first leg.   *)
LEMMA SecondLegUntouched ==
    ASSUME TypeOK, NEW t \in Txs, TxOK(t), Running(t), leg[t] = 1, LegCount(req[t]) = 2
    PROVE  wrote[t][req[t].to] = None /\ newOps[t][req[t].to] = None
<1>1. req[t] \in Requests /\ req[t].to \in Users /\ req[t].to # req[t].user
  BY RequestFields DEF Running, TypeOK, TxOK, LegOK, LegCount
<1>2. ASSUME wrote[t][req[t].to] # None PROVE FALSE
  <2>1. PICK i \in {1, 2} : Written(t, req[t].to, i)
    BY <1>1, <1>2 DEF TxOK, WriteOK
  <2>2. i = 2
    BY <1>1, <2>1 DEF Written, LegUser
  <2>3. QED
    BY <2>1, <2>2 DEF Written, LegLocked
<1>3. QED
  BY <1>1, <1>2 DEF TxOK, WriteOK

(* Going on to the next leg, or to the commit, with nothing else changed.  *)
LEMMA NextLegOK ==
    ASSUME TypeOK, NEW t \in Txs, pc[t] \in {"lookup", "save"}, TxOK(t), NextLeg(t),
           UNCHANGED <<db, locks, req, wrote>>,
           newOps[t][User(t)] = None,
           \/ newOps' = newOps /\ pc[t] = "lookup"
           \/ /\ newOps' = [newOps EXCEPT ![t][User(t)] =
                              NewOp(req[t], leg[t], wrote[t][User(t)])]
              /\ pc[t] = "save" /\ status[Peer(t)] # "absent",
           leg[t] = 1 /\ LegCount(req[t]) = 2 /\ pc[t] = "lookup" => Recorded(req[t]),
           leg[t] = 2 => (newOps'[t][req[t].user] = None <=> newOps'[t][req[t].to] = None)
    PROVE  TxOK(t)'
<1> USE DEF db, locks
<1>1. /\ req[t] \in Requests /\ leg[t] \in {1, 2} /\ User(t) \in Users
      /\ \/ /\ leg[t] = 1 /\ LegCount(req[t]) = 2
            /\ pc'[t] = "advisory" /\ leg'[t] = 2
         \/ /\ leg[t] = LegCount(req[t])
            /\ pc'[t] = "commit" /\ leg'[t] = leg[t]
  BY TxFields DEF NextLeg, TypeOK, TxOK, LegOK, Running, LegCount
<1>2. LegOK(t)'
  BY <1>1 DEF TxOK, LegOK, Running
<1>3. LockOK(t)'
  BY <1>1 DEF TxOK, LockOK, LegLocked, Running
<1>4. ASSUME NEW u \in Users, u # User(t) \/ pc[t] = "lookup", wrote[t][u] # None
      PROVE  \E i \in {1, 2} : Written(t, u, i)'
  <2>1. PICK i \in {1, 2} : Written(t, u, i)
    BY <1>4 DEF TxOK, WriteOK
  <2>2. newOps'[t][u] = newOps[t][u]
    BY <1>1, <1>4 DEF TypeOK
  <2>3. newOps[t][u] = NewOp(req[t], i, wrote[t][u]) /\ i < leg[t]
    BY <1>1, <1>4, <2>1 DEF Written, User
  <2>4. QED
    BY <1>1, <2>1, <2>2, <2>3 DEF Written, LegLocked, Running
<1>5. ASSUME pc[t] = "save", NEW u \in Users, u = User(t), NEW j \in {1, 2}, j = leg[t]
      PROVE  newOps'[t][u] # None /\ Written(t, u, j)'
  <2>1. wrote[t][u] # None /\ newOps'[t][u] = NewOp(req[t], j, wrote[t][u])
    BY <1>1, <1>5 DEF TxOK, WriteOK, TypeOK
  <2>2. PICK i \in {1, 2} : Written(t, u, i)
    BY <1>1, <2>1 DEF TxOK, WriteOK
  <2>3. \A k \in {1, 2} : NewOp(req[t], k, wrote[t][u]) # None
    BY <1>1, <2>1, LegFields, NoneAssumption DEF TypeOK
  <2>4. i = leg[t]
    BY <1>5, <2>2, <2>3 DEF Written
  <2>5. QED
    BY <1>1, <1>5, <2>1, <2>2, <2>3, <2>4 DEF Written, LegLocked, Running
<1>6. WriteOK(t)'
  <2>1. (pc[t] = "save" => wrote[t][User(t)] # None)'
    BY <1>1
  <2>2. (pc[t] \in {"change", "save"} => ops[User(t)][Key(t)] = None)'
    BY <1>1
  <2>3. (pc[t] \in {"advisory", "lookup", "change", "save"} => newOps[t][User(t)] = None)'
    <3>1. CASE pc'[t] = "advisory"
      <4>1. newOps[t][req[t].to] = None /\ req[t].to # User(t)
        BY <1>1, <3>1, SecondLegUntouched DEF Running, TxOK, LegOK, User, LegUser, LegCount
      <4>2. newOps'[t][req[t].to] = None
        BY <1>1, <4>1, RequestFields DEF TypeOK
      <4>3. QED
        BY <1>1, <3>1, <4>2 DEF User, LegUser
    <3>2. QED
      BY <1>1, <3>1
  <2>4. ASSUME NEW u \in Users, wrote[t][u] # None
        PROVE  rowLock[u] = t /\ \E i \in {1, 2} : Written(t, u, i)'
    <3>1. rowLock[u] = t
      BY <2>4 DEF TxOK, WriteOK
    <3>2. \E i \in {1, 2} : Written(t, u, i)'
      BY <1>1, <1>4, <1>5, <2>4
    <3>3. QED
      BY <3>1, <3>2
  <2>5. ASSUME NEW u \in Users, newOps'[t][u] # None
        PROVE  wrote[t][u] # None /\ ops[u][Key(t)] = None /\ status[newOps'[t][u].peer] # "absent"
    <3>1. CASE newOps'[t][u] = newOps[t][u]
      BY <2>5, <3>1 DEF TxOK, WriteOK
    <3>2. CASE newOps'[t][u] # newOps[t][u]
      <4>1. /\ u = User(t) /\ pc[t] = "save" /\ status[Peer(t)] # "absent"
            /\ newOps'[t][u] = NewOp(req[t], leg[t], wrote[t][u])
        BY <1>1, <3>2 DEF TypeOK
      <4>2. newOps'[t][u].peer = Peer(t)
        BY <4>1 DEF NewOp, Peer
      <4>3. QED
        BY <4>1, <4>2 DEF TxOK, WriteOK
    <3>3. QED
      BY <3>1, <3>2
  <2>6. QED
    BY <2>1, <2>2, <2>3, <2>4, <2>5 DEF WriteOK, Key
<1>7. ReplayOK(t)'
  <2>1. Recorded(req[t]) => Recorded(req[t])'
    BY DEF Recorded, Gone, RecordOf
  <2>2. CASE leg[t] = 1 /\ leg'[t] = 2
    <3>1. pc[t] = "save" => newOps'[t][req[t].user] # None
      BY <1>1, <1>5, <2>2 DEF LegUser, User
    <3>2. QED
      BY <1>1, <2>1, <2>2, <3>1 DEF ReplayOK, TypeOK
  <2>3. CASE leg[t] = 2 /\ leg'[t] = 2
    <3>1. req[t].user # User(t) /\ req[t].user \in Users
      BY <1>1, <2>3, RequestFields DEF TxOK, LegOK, Running, LegCount, User, LegUser
    <3>2. newOps'[t][req[t].user] = newOps[t][req[t].user]
      BY <1>1, <3>1 DEF TypeOK
    <3>3. QED
      BY <1>1, <2>1, <2>3, <3>2 DEF TxOK, ReplayOK, Running
  <2>4. QED
    BY <1>1, <2>2, <2>3 DEF ReplayOK
<1>8. QED
  BY <1>2, <1>3, <1>6, <1>7 DEF TxOK

LEMMA LookupOK ==
    ASSUME TypeOK, TransferWhole, NEW t \in Txs, TxOK(t), Lookup(t)
    PROVE  TxOK(t)'
<1> USE DEF db, locks
<1>1. /\ pc[t] = "lookup" /\ req[t] \in Requests /\ leg[t] \in {1, 2} /\ User(t) \in Users
      /\ OpSeen(t, User(t)) = ops[User(t)][Key(t)] /\ newOps[t][User(t)] = None
  BY TxFields, NotWrittenYet DEF Lookup, OpSeen
<1>2. CASE /\ ops[User(t)][Key(t)] = None
           /\ pc' = [pc EXCEPT ![t] = "change"]
           /\ UNCHANGED <<db, locks, req, leg, reply, wrote, newOps, reset, history>>
  <2>1. pc'[t] = "change"
    BY <1>2 DEF TypeOK
  <2>2. LegOK(t)' /\ LockOK(t)'
    BY <1>1, <1>2, <2>1 DEF TxOK, LegOK, LockOK, LegLocked, Running
  <2>3. ASSUME NEW u \in Users, NEW i \in {1, 2}, Written(t, u, i) PROVE Written(t, u, i)'
    BY <1>1, <1>2, <2>1, <2>3 DEF Written, LegLocked, Running
  <2>4. WriteOK(t)'
    BY <1>1, <1>2, <2>1, <2>3 DEF TxOK, WriteOK, User, Key
  <2>5. ReplayOK(t)'
    BY <1>1, <1>2, <2>1 DEF TxOK, ReplayOK, Running, Recorded, Gone, RecordOf
  <2>6. QED
    BY <2>2, <2>4, <2>5 DEF TxOK
<1>3. CASE /\ ops[User(t)][Key(t)] # None
           /\ SamePayload(ops[User(t)][Key(t)], req[t], leg[t])
           /\ NextLeg(t)
           /\ UNCHANGED <<db, locks, req, wrote, newOps, reset, history>>
  <2>1. RecordOf(User(t), Key(t), req[t], leg[t])
    BY <1>3 DEF SamePayload, RecordOf
  <2>2. leg[t] = 1 => Recorded(req[t])
    BY <2>1 DEF Recorded, User, Key, LegUser
  <2>3. ASSUME leg[t] = 2 PROVE newOps[t][req[t].user] = None
    <3>1. /\ User(t) = req[t].to /\ req[t].user # req[t].to /\ req[t].user \in Users
          /\ req[t].key \in Keys
      BY <1>1, <2>3, RequestFields DEF TxOK, LegOK, Running, LegCount, User, LegUser
    <3>2. ops[req[t].to][req[t].key] # None /\ ops[req[t].to][req[t].key].peer = req[t].user
      BY <2>1, <2>3, <3>1 DEF RecordOf, LegPeer, Key
    <3>3. ops[req[t].user][req[t].key] # None
      BY <1>1, <3>1, <3>2 DEF TransferWhole
    <3>4. QED
      BY <3>1, <3>3 DEF TxOK, WriteOK, Key
  <2>4. leg[t] = 2 => newOps[t][req[t].to] = None
    BY <1>1 DEF User, LegUser
  <2>5. QED
    BY <1>1, <1>3, <2>2, <2>3, <2>4, NextLegOK
<1>4. CASE Fail(t, "conflict")
  BY <1>4, FailOK DEF Codes
<1>5. QED
  BY <1>1, <1>2, <1>3, <1>4 DEF Lookup

LEMMA ChangeOK ==
    ASSUME TypeOK, NEW t \in Txs, TxOK(t), Change(t)
    PROVE  TxOK(t)'
<1> DEFINE new == BalanceSeen(t, User(t)) + Delta(t)
<1> USE DEF db
<1>1. /\ pc[t] = "change" /\ req[t] \in Requests /\ leg[t] \in {1, 2} /\ User(t) \in Users
      /\ wrote[t][User(t)] = None /\ newOps[t][User(t)] = None
      /\ BalanceSeen(t, User(t)) \in Amount /\ Delta(t) \in Int
  BY TxFields, NotWrittenYet DEF Change
<1>2. CASE Fail(t, "serverError")
  BY <1>2, FailOK DEF Codes
<1>3. CASE /\ rowLock' = [rowLock EXCEPT ![User(t)] = t]
           /\ wrote' = [wrote EXCEPT ![t][User(t)] = new]
           /\ pc' = [pc EXCEPT ![t] = "save"]
           /\ UNCHANGED <<db, advLock, req, leg, reply, newOps, reset, history>>
  <2>1. pc'[t] = "save" /\ wrote'[t][User(t)] = new /\ rowLock'[User(t)] = t
    BY <1>1, <1>3 DEF TypeOK
  <2>2. new # None /\ new = balance[User(t)] + LegDelta(req[t], leg[t])
    BY <1>1, NoneAssumption DEF BalanceSeen, Delta, Amount
  <2>3. LegOK(t)' /\ LockOK(t)'
    BY <1>1, <1>3, <2>1 DEF TxOK, LegOK, LockOK, LegLocked, Running
  <2>4. ASSUME NEW u \in Users, u # User(t), wrote'[t][u] # None
        PROVE  rowLock'[u] = t /\ \E i \in {1, 2} : Written(t, u, i)'
    <3>1. wrote'[t][u] = wrote[t][u] /\ rowLock'[u] = rowLock[u]
      BY <1>1, <1>3, <2>4 DEF TypeOK
    <3>2. rowLock[u] = t
      BY <2>4, <3>1 DEF TxOK, WriteOK
    <3>3. PICK i \in {1, 2} : Written(t, u, i)
      BY <2>4, <3>1 DEF TxOK, WriteOK
    <3>4. Written(t, u, i)'
      BY <1>1, <1>3, <2>1, <3>1, <3>3 DEF Written, LegLocked, Running
    <3>5. QED
      BY <3>1, <3>2, <3>4
  <2>5. ASSUME NEW u \in Users, u = User(t)
        PROVE  rowLock'[u] = t /\ \E i \in {1, 2} : Written(t, u, i)'
    <3>1. ASSUME NEW i \in {1, 2}, i = leg[t] PROVE Written(t, u, i)'
      BY <1>1, <1>3, <2>1, <2>2, <2>5, <3>1
      DEF Written, LegLocked, Running, User, TxOK, LegOK
    <3>2. QED
      BY <1>1, <2>1, <2>5, <3>1
  <2>6. \A u \in Users : newOps[t][u] # None => wrote'[t][u] # None
    BY <1>1, <1>3, <2>1, <2>2 DEF TxOK, WriteOK, TypeOK
  <2>7. WriteOK(t)'
    BY <1>1, <1>3, <2>1, <2>2, <2>4, <2>5, <2>6 DEF TxOK, WriteOK, User, Key
  <2>8. ReplayOK(t)'
    BY <1>1, <1>3, <2>1 DEF TxOK, ReplayOK, Running, Recorded, Gone, RecordOf
  <2>9. QED
    BY <2>3, <2>7, <2>8 DEF TxOK
<1>4. QED
  BY <1>2, <1>3 DEF Change

LEMMA SaveOK ==
    ASSUME TypeOK, TransferWhole, RowsLive, NEW t \in Txs, TxOK(t), Save(t)
    PROVE  TxOK(t)'
<1> USE DEF locks
<1>1. /\ pc[t] = "save" /\ req[t] \in Requests /\ leg[t] \in {1, 2} /\ User(t) \in Users
      /\ wrote[t][User(t)] # None /\ newOps[t][User(t)] = None
      /\ ops[User(t)][Key(t)] = None /\ rowLock[User(t)] = t
  BY TxFields DEF Save, TxOK, WriteOK
<1>2. CASE Fail(t, "serverError")
  BY <1>2, FailOK DEF Codes
<1>3. CASE /\ status[Peer(t)] # "absent"
           /\ newOps' = [newOps EXCEPT ![t][User(t)] =
                            NewOp(req[t], leg[t], wrote[t][User(t)])]
           /\ NextLeg(t)
           /\ UNCHANGED <<db, locks, req, wrote, reset, history>>
  <2>1. NewOp(req[t], leg[t], wrote[t][User(t)]) # None
    BY <1>1, LegFields, NoneAssumption DEF TypeOK
  <2>2. newOps'[t][User(t)] # None
    BY <1>1, <1>3, <2>1 DEF TypeOK
  <2>3. ASSUME leg[t] = 2 PROVE newOps'[t][req[t].user] # None /\ newOps'[t][req[t].to] # None
    <3>1. /\ User(t) = req[t].to /\ Peer(t) = req[t].user /\ req[t].user # req[t].to
          /\ req[t].user \in Users /\ req[t].to \in Users /\ req[t].key \in Keys
      BY <1>1, <2>3, RequestFields DEF TxOK, LegOK, Running, LegCount, User, Peer, LegUser, LegPeer
    <3>2. ~Gone(req[t])
      BY <1>1, <1>3, <3>1, ProcessAssumption DEF Gone, RowsLive, Live
    <3>3. ~RecordOf(req[t].user, req[t].key, req[t], 1)
      BY <1>1, <3>1 DEF RecordOf, TransferWhole, LegPeer, Key
    <3>4. newOps[t][req[t].user] # None
      BY <1>1, <2>3, <3>2, <3>3 DEF TxOK, ReplayOK, Running, Recorded
    <3>5. QED
      BY <1>1, <1>3, <2>2, <3>1, <3>4 DEF TypeOK
  <2>4. QED
    BY <1>1, <1>3, <2>3, NextLegOK
<1>4. QED
  BY <1>2, <1>3 DEF Save

LEMMA OwnStepOK ==
    ASSUME CanonicalRequests, TypeOK, TransferWhole, RowsLive, NEW t \in Txs, TxOK(t), Moves(t)
    PROVE  TxOK(t)'
<1>1. CASE \E r \in Requests : Begin(t, r)
  BY <1>1, StartOK
<1>2. CASE Reject(t)
  <2>1. PICK code \in {"notFound", "badRequest"} : Fail(t, code)
    BY <1>2 DEF Reject
  <2>2. QED
    BY <2>1, FailOK DEF Codes
<1>3. CASE Commit(t)
  BY <1>3, EndOK DEF Commit, TypeOK
<1>4. CASE Respond(t) \/ Crash(t)
  BY <1>4, EndOK DEF Respond, Crash, Forget, TypeOK
<1>5. CASE Fail(t, "serverError")
  BY <1>5, FailOK DEF Codes
<1>6. QED
  BY <1>1, <1>2, <1>3, <1>4, <1>5, LockUserOK, AcquireOK, LookupOK, ChangeOK, SaveOK
  DEF Moves, TxStep

-----------------------------------------------------------------------------
(* What a commit writes.                                                   *)

(* Under canonical spelling one user and one key have one lock.            *)
LEMMA SameLock ==
    ASSUME CanonicalRequests, NEW r \in Requests, NEW q \in Requests,
           NEW i \in {1, 2}, NEW j \in {1, 2},
           LegUser(r, i) = LegUser(q, j), r.key = q.key
    PROVE  Lock(r, i) = Lock(q, j)
<1>1. r.upper = {} /\ q.upper = {}
  BY DEF CanonicalRequests
<1>2. LockText(r, i) = LockText(q, j)
  BY <1>1 DEF LockText
<1>3. QED
  BY <1>2 DEF Lock

(* The pending operation and balance of one user, at commit.               *)
LEMMA CommitRow ==
    ASSUME TypeOK, NEW t \in Txs, TxOK(t), Commit(t), RowsLive,
           NEW u \in Users, wrote[t][u] # None \/ newOps[t][u] # None
    PROVE  /\ wrote[t][u] # None /\ newOps[t][u] # None
           /\ ops[u][Key(t)] = None /\ rowLock[u] = t /\ Live(u)
           /\ status[newOps[t][u].peer] # "absent"
           /\ \E i \in {1, 2} :
                /\ i <= LegCount(req[t]) /\ u = LegUser(req[t], i)
                /\ advLock[Lock(req[t], i)] = t
                /\ wrote[t][u] = balance[u] + LegDelta(req[t], i)
                /\ newOps[t][u] = NewOp(req[t], i, wrote[t][u])
<1>1. wrote[t][u] # None /\ pc[t] = "commit" /\ req[t] \in Requests
  BY DEF Commit, TypeOK, TxOK, WriteOK
<1>2. PICK i \in {1, 2} : Written(t, u, i)
  BY <1>1 DEF TxOK, WriteOK
<1>3. newOps[t][u] = NewOp(req[t], i, wrote[t][u])
  BY <1>1, <1>2 DEF Written
<1>4. newOps[t][u] # None
  BY <1>1, <1>3, LegFields, NoneAssumption DEF TypeOK
<1>5. rowLock[u] = t /\ Live(u)
  BY <1>1, ProcessAssumption DEF TxOK, WriteOK, RowsLive
<1>6. QED
  BY <1>1, <1>2, <1>3, <1>4, <1>5 DEF TxOK, WriteOK, LockOK, Written

(* A transaction commits nothing, or all the legs of its request.          *)
LEMMA CommitShape ==
    ASSUME TypeOK, NEW t \in Txs, TxOK(t), Commit(t), RowsLive
    PROVE  \/ wrote[t] = Nothing /\ newOps[t] = Nothing
           \/ /\ \A i \in 1 .. LegCount(req[t]) : newOps[t][LegUser(req[t], i)] # None
              /\ ~Gone(req[t])
<1>1. /\ pc[t] = "commit" /\ req[t] \in Requests /\ leg[t] = LegCount(req[t])
      /\ req[t].user \in Users /\ req[t].to \in Users /\ LegCount(req[t]) \in {1, 2}
  BY RequestFields DEF Commit, TypeOK, TxOK, LegOK, LegCount
<1>2. CASE \A u \in Users : newOps[t][u] = None
  <2>1. \A u \in Users : wrote[t][u] = None
    BY <1>2, CommitRow
  <2>2. wrote[t] = Nothing /\ newOps[t] = Nothing
    BY <1>2, <2>1 DEF TypeOK, Nothing
  <2>3. QED
    BY <2>2
<1>3. CASE \E u \in Users : newOps[t][u] # None
  <2>1. PICK u \in Users : newOps[t][u] # None
    BY <1>3
  <2>2. PICK i \in {1, 2} : i <= LegCount(req[t]) /\ u = LegUser(req[t], i)
    BY <2>1, CommitRow
  <2>3. ASSUME LegCount(req[t]) = 2
        PROVE  newOps[t][req[t].user] # None /\ newOps[t][req[t].to] # None
    BY <1>1, <2>1, <2>2, <2>3 DEF TxOK, ReplayOK, Running, LegUser
  <2>4. newOps[t][req[t].user] # None
    BY <1>1, <2>1, <2>2, <2>3 DEF LegUser
  <2>5. \A j \in 1 .. LegCount(req[t]) : newOps[t][LegUser(req[t], j)] # None
    BY <1>1, <2>3, <2>4 DEF LegUser
  <2>6. ~Gone(req[t])
    <3>1. Live(req[t].user)
      BY <1>1, <2>4, CommitRow
    <3>2. LegCount(req[t]) = 2 => Live(req[t].to)
      BY <1>1, <2>3, CommitRow
    <3>3. LegCount(req[t]) = 1 => req[t].to = req[t].user
      BY <1>1, RequestFields DEF LegCount
    <3>4. QED
      BY <1>1, <3>1, <3>2, <3>3 DEF Gone, Live
  <2>7. QED
    BY <2>5, <2>6
<1>4. QED
  BY <1>2, <1>3

(* An operation that is there stays as it is when another is committed.    *)
LEMMA CommitAdds ==
    ASSUME TypeOK, NEW t \in Txs, TxOK(t), Commit(t), RowsLive,
           NEW u \in Users, NEW k \in Keys
    PROVE  /\ ops[u][k] # None => ops'[u][k] = ops[u][k]
           /\ ops'[u][k] # ops[u][k] =>
                k = Key(t) /\ newOps[t][u] # None /\ ops'[u][k] = newOps[t][u]
<1>1. ops'[u][k] = IF newOps[t][u] # None /\ k = Key(t) THEN newOps[t][u] ELSE ops[u][k]
  BY DEF Commit
<1>2. QED
  BY <1>1, CommitRow

LEMMA RecordedStays ==
    ASSUME TypeOK, NEW t \in Txs, TxOK(t), Commit(t), RowsLive, NEW r \in Requests, Recorded(r)
    PROVE  Recorded(r)'
<1>1. r.user \in Users /\ r.key \in Keys /\ UNCHANGED status
  BY RequestFields DEF Commit
<1>2. ops[r.user][r.key] # None => ops'[r.user][r.key] = ops[r.user][r.key]
  BY <1>1, CommitAdds
<1>3. QED
  BY <1>1, <1>2 DEF Recorded, RecordOf, Gone

(* A commit disturbs no other transaction: the row locks keep their        *)
(* balances apart, the idempotency locks their operations.                 *)
LEMMA CommitKeepsData ==
    ASSUME CanonicalRequests, TypeOK, TxInv, RowsLive, NEW t \in Txs, Commit(t),
           NEW s \in Txs, s # t
    PROVE  DataKept(s)
<1>1. TxOK(t) /\ TxOK(s) /\ UNCHANGED status
  BY DEF TxInv, Commit
<1>2. ASSUME NEW u \in Users, wrote[s][u] # None PROVE balance'[u] = balance[u]
  <2>1. rowLock[u] = s
    BY <1>1, <1>2 DEF TxOK, WriteOK
  <2>2. wrote[t][u] = None
    BY <1>1, <2>1, CommitRow
  <2>3. QED
    BY <2>2 DEF Commit
<1>3. ASSUME NEW u \in Users, ops[u][Key(s)] = None,
             newOps[s][u] # None \/ (pc[s] \in {"change", "save"} /\ u = User(s))
      PROVE  ops'[u][Key(s)] = None
  <2>1. pc[s] # "idle"
    BY <1>1, <1>3 DEF TxOK, LegOK, Nothing
  <2>2. req[s] \in Requests /\ Key(s) \in Keys
    BY <2>1, TxFields
  <2>3. PICK j \in {1, 2} : u = LegUser(req[s], j) /\ advLock[Lock(req[s], j)] = s
    <3>1. CASE newOps[s][u] # None
      BY <1>1, <3>1 DEF TxOK, WriteOK, LockOK, Written
    <3>2. CASE pc[s] \in {"change", "save"} /\ u = User(s)
      <4>1. leg[s] \in {1, 2} /\ LegLocked(s, leg[s])
        BY <2>1, <3>2, TxFields DEF LegLocked, Running
      <4>2. QED
        BY <1>1, <3>2, <4>1 DEF TxOK, LockOK, User
    <3>3. QED
      BY <1>3, <3>1, <3>2
  <2>4. SUFFICES ASSUME ops'[u][Key(s)] # ops[u][Key(s)] PROVE FALSE
    BY <1>3
  <2>5. newOps[t][u] # None /\ Key(s) = Key(t)
    BY <1>1, <2>2, <2>4, CommitAdds
  <2>6. PICK i \in {1, 2} : u = LegUser(req[t], i) /\ advLock[Lock(req[t], i)] = t
    BY <1>1, <2>5, CommitRow
  <2>7. req[t] \in Requests
    BY DEF Commit, TypeOK
  <2>8. Lock(req[t], i) = Lock(req[s], j)
    <3>1. LegUser(req[t], i) = LegUser(req[s], j) /\ req[t].key = req[s].key
      BY <2>3, <2>5, <2>6 DEF Key
    <3>2. QED
      BY <2>2, <2>7, <3>1, SameLock
  <2>9. QED
    BY <2>3, <2>6, <2>8
<1>4. Running(s) /\ Recorded(req[s]) => Recorded(req[s])'
  <2>1. Running(s) => req[s] \in Requests /\ req'[s] = req[s]
    BY DEF Running, TypeOK, Commit
  <2>2. QED
    BY <1>1, <2>1, RecordedStays DEF Recorded, RecordOf, Gone
<1>5. QED
  BY <1>1, <1>2, <1>3, <1>4 DEF DataKept

-----------------------------------------------------------------------------
(* What a commit does to the committed database.                           *)

LEMMA CommitShared ==
    ASSUME TypeOK, NEW t \in Txs, TxOK(t), Commit(t), RowsLive, ForeignKeys, TransferWhole,
           EffectInv
    PROVE  RowsLive' /\ ForeignKeys' /\ TransferWhole' /\ EffectInv'
<1> DEFINE r == req[t]
<1>1. /\ r \in Requests /\ r.user \in Users /\ r.to \in Users /\ r.key \in Keys
      /\ LegCount(r) \in {1, 2} /\ UNCHANGED status
      /\ LegCount(r) = 1 => r.to = r.user
      /\ LegCount(r) = 2 => r.to # r.user
  BY RequestFields DEF Commit, TypeOK, LegCount, TxOK, LegOK, Running
<1>2. RowsLive'
  BY <1>1 DEF RowsLive, Commit, ReleaseAll, Live
<1>3. ForeignKeys'
  <2> SUFFICES ASSUME NEW u \in Users, NEW k \in Keys, ops'[u][k] # None
               PROVE  status[u] # "absent" /\ status[ops'[u][k].peer] # "absent"
    BY <1>1 DEF ForeignKeys
  <2>1. CASE ops'[u][k] = ops[u][k]
    BY <2>1 DEF ForeignKeys
  <2>2. CASE ops'[u][k] # ops[u][k]
    <3>1. newOps[t][u] # None /\ ops'[u][k] = newOps[t][u]
      BY <2>2, CommitAdds
    <3>2. QED
      BY <3>1, CommitRow DEF Live
  <2>3. QED
    BY <2>1, <2>2
<1>4. TransferWhole'
  <2> SUFFICES ASSUME NEW u \in Users, NEW v \in Users, NEW k \in Keys,
                      u # v, ops'[u][k] # None, ops'[u][k].peer = v
               PROVE  /\ ops'[v][k] # None /\ ops'[v][k].peer = u
                      /\ ops'[v][k].amount = ops'[u][k].amount
                      /\ ops'[v][k].type # ops'[u][k].type
    BY DEF TransferWhole
  <2>1. CASE ops'[u][k] = ops[u][k]
    <3>1. /\ ops[v][k] # None /\ ops[v][k].peer = u
          /\ ops[v][k].amount = ops[u][k].amount /\ ops[v][k].type # ops[u][k].type
      BY <2>1 DEF TransferWhole
    <3>2. ops'[v][k] = ops[v][k]
      BY <3>1, CommitAdds
    <3>3. QED
      BY <2>1, <3>1, <3>2
  <2>2. CASE ops'[u][k] # ops[u][k]
    <3>1. k = Key(t) /\ newOps[t][u] # None /\ ops'[u][k] = newOps[t][u]
      BY <2>2, CommitAdds
    <3>2. PICK i \in {1, 2} : /\ i <= LegCount(r) /\ u = LegUser(r, i)
                              /\ newOps[t][u] = NewOp(r, i, wrote[t][u])
      BY <3>1, CommitRow
    <3>3. v = LegPeer(r, i)
      BY <3>1, <3>2 DEF NewOp
    <3>4. LegCount(r) = 2 /\ v \in {r.user, r.to}
      BY <1>1, <3>2, <3>3 DEF LegUser, LegPeer
    <3>5. newOps[t][v] # None
      BY <1>1, <3>1, <3>4, CommitShape DEF LegUser, Nothing
    <3>6. PICK j \in {1, 2} : /\ v = LegUser(r, j)
                              /\ newOps[t][v] = NewOp(r, j, wrote[t][v])
      BY <3>5, CommitRow
    <3>7. ops'[v][k] = newOps[t][v]
      BY <3>1, <3>5 DEF Commit
    <3>8. r.kind = "transfer"
      BY <3>4 DEF LegCount
    <3>9. i # j
      BY <3>2, <3>6
    <3>10. QED
      BY <1>1, <3>1, <3>2, <3>3, <3>5, <3>6, <3>7, <3>8, <3>9
      DEF NewOp, LegUser, LegPeer, LegType
  <2>3. QED
    BY <2>1, <2>2
<1>5. EffectInv'
  <2> SUFFICES ASSUME NEW q \in Requests
               PROVE  effects'[q] <= 1 /\ (effects'[q] # 0 => Recorded(q)')
    BY DEF EffectInv
  <2>1. effects[q] # 0 => Recorded(q)'
    BY RecordedStays DEF EffectInv
  <2>2. CASE effects'[q] = effects[q]
    BY <2>1, <2>2 DEF EffectInv
  <2>3. CASE effects'[q] # effects[q]
    <3>1. q = r /\ wrote[t] # Nothing /\ effects'[q] = effects[q] + 1
      BY <1>1, <2>3 DEF Commit, TypeOK
    <3>2. newOps[t][r.user] # None /\ ~Gone(r)
      BY <1>1, <3>1, CommitShape DEF LegUser
    <3>3. ~Recorded(r)
      BY <1>1, <3>2, CommitRow DEF Recorded, RecordOf, Key
    <3>4. effects[q] = 0
      BY <3>1, <3>3 DEF EffectInv
    <3>5. PICK i \in {1, 2} : /\ i <= LegCount(r) /\ r.user = LegUser(r, i)
                              /\ newOps[t][r.user] = NewOp(r, i, wrote[t][r.user])
      BY <1>1, <3>2, CommitRow
    <3>6. i = 1
      BY <1>1, <3>5 DEF LegUser
    <3>7. ops'[r.user][r.key] = NewOp(r, 1, wrote[t][r.user]) /\ ops'[r.user][r.key] # None
      BY <1>1, <3>2, <3>5, <3>6 DEF Commit, Key
    <3>8. RecordOf(q.user, q.key, q, 1)'
      BY <3>1, <3>7 DEF RecordOf, NewOp
    <3>9. QED
      BY <3>1, <3>4, <3>8 DEF Recorded
  <2>4. QED
    BY <2>2, <2>3
<1>6. QED
  BY <1>2, <1>3, <1>4, <1>5

-----------------------------------------------------------------------------
(* The steps of the reset job and the deletion of users.                   *)

LEMMA ResetKeeps ==
    ASSUME TypeOK, RowsLive, ForeignKeys, TransferWhole, EffectInv, TxInv, ResetMoves
    PROVE  TxInv' /\ RowsLive' /\ ForeignKeys' /\ TransferWhole' /\ EffectInv'
<1>1. UNCHANGED <<ops, status, effects, req, newOps>>
  BY DEF ResetMoves, ResetStep, ResetBegin, ResetReach, ResetRow, ResetCommit, ResetAbort,
         db, tx, history
<1>2. RowsLive'
  BY <1>1
  DEF TypeOK, RowsLive, Live, ResetMoves, ResetStep, ResetBegin, ResetReach, ResetRow,
      ResetCommit, ResetAbort, NonZero, ReleaseAll, locks
<1>3. ForeignKeys' /\ TransferWhole' /\ EffectInv'
  BY <1>1 DEF ForeignKeys, TransferWhole, EffectInv, Recorded, RecordOf, Gone
<1>4. ASSUME NEW s \in Txs PROVE TxOK(s)'
  <2>1. TxOK(s) /\ Undisturbed(s)
    BY ResetUndisturbed DEF TxInv
  <2>2. ASSUME NEW u \in Users, wrote[s][u] # None PROVE balance'[u] = balance[u]
    <3>1. rowLock[u] = s /\ s # ResetJob
      BY <2>1, <2>2, ProcessAssumption DEF TxOK, WriteOK
    <3>2. QED
      BY <3>1
      DEF ResetMoves, ResetStep, ResetBegin, ResetReach, ResetRow, ResetCommit, ResetAbort, db
  <2>3. DataKept(s)
    BY <1>1, <2>2 DEF DataKept, Recorded, RecordOf, Gone
  <2>4. QED
    BY <2>1, <2>3, Interference
<1>5. QED
  BY <1>2, <1>3, <1>4 DEF TxInv

LEMMA SoftDeleteKeeps ==
    ASSUME TypeOK, RowsLive, ForeignKeys, TransferWhole, EffectInv, TxInv,
           NEW u \in Users, SoftDelete(u)
    PROVE  TxInv' /\ RowsLive' /\ ForeignKeys' /\ TransferWhole' /\ EffectInv'
<1>1. /\ UNCHANGED <<balance, ops, locks, tx, effects>>
      /\ status' = [status EXCEPT ![u] = "deleted"]
      /\ rowLock[u] = None /\ status[u] = "live"
  BY DEF SoftDelete, history, Live
<1>2. \A v \in Users : status'[v] = "absent" <=> status[v] = "absent"
  BY <1>1 DEF TypeOK
<1>3. RowsLive'
  BY <1>1 DEF RowsLive, Live, locks, TypeOK
<1>4. \A r \in Requests : Recorded(r)' <=> Recorded(r)
  BY <1>1, <1>2, RequestFields DEF Recorded, RecordOf, Gone
<1>5. ForeignKeys' /\ TransferWhole' /\ EffectInv'
  <2>1. \A v \in Users, k \in Keys : ops[v][k] # None => ops[v][k].peer \in Users
    BY DEF TypeOK, Op
  <2>2. QED
    BY <1>1, <1>2, <1>4, <2>1 DEF ForeignKeys, TransferWhole, EffectInv
<1>6. ASSUME NEW s \in Txs PROVE TxOK(s)'
  <2>1. TxOK(s) /\ Undisturbed(s)
    BY <1>1 DEF TxInv, Undisturbed, tx, locks
  <2>2. \A v \in Users : newOps[s][v] # None => newOps[s][v].peer \in Users
    BY DEF TypeOK, Op
  <2>3. Running(s) => req[s] \in Requests /\ req'[s] = req[s]
    BY <1>1 DEF Running, TypeOK, tx
  <2>4. Running(s) /\ Recorded(req[s]) => Recorded(req[s])'
    BY <1>1, <1>2, <2>3, RequestFields DEF Recorded, RecordOf, Gone
  <2>5. DataKept(s)
    BY <1>1, <1>2, <2>2, <2>4 DEF DataKept
  <2>6. QED
    BY <2>1, <2>5, Interference
<1>7. QED
  BY <1>3, <1>5, <1>6 DEF TxInv

LEMMA HardDeleteKeeps ==
    ASSUME TypeOK, RowsLive, ForeignKeys, TransferWhole, EffectInv, TxInv,
           NEW u \in Users, HardDelete(u)
    PROVE  TxInv' /\ RowsLive' /\ ForeignKeys' /\ TransferWhole' /\ EffectInv'
<1>1. /\ UNCHANGED <<locks, tx, effects>>
      /\ status' = [status EXCEPT ![u] = "absent"]
      /\ balance' = [balance EXCEPT ![u] = 0]
      /\ status[u] = "deleted" /\ ~Referenced(u)
  BY DEF HardDelete, history
<1>2. \A v \in Users, k \in Keys :
        ops'[v][k] = IF ops[v][k] # None /\ (v = u \/ ops[v][k].peer = u)
                     THEN None ELSE ops[v][k]
  BY DEF HardDelete
<1>3. \A v \in Users : status'[v] = IF v = u THEN "absent" ELSE status[v]
  BY <1>1 DEF TypeOK
<1>4. rowLock[u] = None
  BY <1>1 DEF RowsLive, Live
<1>5. RowsLive'
  BY <1>1, <1>3, <1>4 DEF RowsLive, Live, locks
<1>6. ForeignKeys'
  <2>1. \A v \in Users, k \in Keys : ops[v][k] # None => ops[v][k].peer \in Users
    BY DEF TypeOK, Op
  <2>2. QED
    BY <1>2, <1>3, <2>1 DEF ForeignKeys
<1>7. TransferWhole'
  <2> SUFFICES ASSUME NEW w \in Users, NEW v \in Users, NEW k \in Keys,
                      w # v, ops'[w][k] # None, ops'[w][k].peer = v
               PROVE  /\ ops'[v][k] # None /\ ops'[v][k].peer = w
                      /\ ops'[v][k].amount = ops'[w][k].amount
                      /\ ops'[v][k].type # ops'[w][k].type
    BY DEF TransferWhole
  <2>1. ops'[w][k] = ops[w][k] /\ w # u /\ v # u
    BY <1>2
  <2>2. /\ ops[v][k] # None /\ ops[v][k].peer = w
        /\ ops[v][k].amount = ops[w][k].amount /\ ops[v][k].type # ops[w][k].type
    BY <2>1 DEF TransferWhole
  <2>3. ops'[v][k] = ops[v][k]
    BY <1>2, <2>1, <2>2
  <2>4. QED
    BY <2>1, <2>2, <2>3
<1>8. ASSUME NEW r \in Requests, Recorded(r) PROVE Recorded(r)'
  <2>1. r.user \in Users /\ r.to \in Users /\ r.key \in Keys
    BY RequestFields
  <2>2. CASE Gone(r)
    BY <1>3, <2>1, <2>2 DEF Recorded, Gone
  <2>3. CASE RecordOf(r.user, r.key, r, 1)
    <3>1. CASE r.user = u \/ r.to = u
      BY <1>3, <2>1, <3>1 DEF Recorded, Gone
    <3>2. CASE r.user # u /\ r.to # u
      <4>1. ops[r.user][r.key] # None /\ ops[r.user][r.key].peer = r.to
        BY <2>3 DEF RecordOf, LegPeer
      <4>2. ops'[r.user][r.key] = ops[r.user][r.key]
        BY <1>2, <2>1, <3>2, <4>1
      <4>3. QED
        BY <2>3, <4>2 DEF Recorded, RecordOf
    <3>3. QED
      BY <3>1, <3>2
  <2>4. QED
    BY <1>8, <2>2, <2>3 DEF Recorded
<1>9. EffectInv'
  BY <1>1, <1>8 DEF EffectInv
<1>10. ASSUME NEW s \in Txs PROVE TxOK(s)'
  <2>1. TxOK(s) /\ Undisturbed(s)
    BY <1>1 DEF TxInv, Undisturbed, tx, locks
  <2>2. ASSUME NEW v \in Users, wrote[s][v] # None PROVE balance'[v] = balance[v]
    <3>1. v # u
      BY <1>4, <2>1, <2>2, ProcessAssumption DEF TxOK, WriteOK
    <3>2. QED
      BY <1>1, <3>1 DEF TypeOK
  <2>3. ASSUME NEW v \in Users, ops[v][Key(s)] = None,
               newOps[s][v] # None \/ (pc[s] \in {"change", "save"} /\ v = User(s))
        PROVE  ops'[v][Key(s)] = None
    <3>1. Key(s) \in Keys
      BY <2>1, <2>3, TxFields DEF TxOK, LegOK, Nothing
    <3>2. QED
      BY <1>2, <2>3, <3>1
  <2>4. ASSUME NEW v \in Users, newOps[s][v] # None, status[newOps[s][v].peer] # "absent"
        PROVE  status'[newOps[s][v].peer] # "absent"
    <3>1. newOps[s][v].peer # u /\ newOps[s][v].peer \in Users
      BY <1>1, <2>4 DEF Referenced, TypeOK, Op
    <3>2. QED
      BY <1>3, <2>4, <3>1
  <2>5. Running(s) /\ Recorded(req[s]) => Recorded(req[s])'
    <3>1. Running(s) => req[s] \in Requests /\ req'[s] = req[s]
      BY <1>1 DEF Running, TypeOK, tx
    <3>2. QED
      BY <1>8, <3>1 DEF Recorded, RecordOf, Gone
  <2>6. DataKept(s)
    BY <2>2, <2>3, <2>4, <2>5 DEF DataKept
  <2>7. QED
    BY <2>1, <2>6, Interference
<1>11. QED
  BY <1>5, <1>6, <1>7, <1>9, <1>10 DEF TxInv

-----------------------------------------------------------------------------
(* The invariant is inductive.                                             *)

LEMMA InitInd == Init => IndInv
<1> SUFFICES ASSUME Init PROVE IndInv
  OBVIOUS
<1>1. TypeOK
  BY InitType
<1>2. \A t \in Txs : pc[t] = "idle" /\ leg[t] = 1 /\ wrote[t] = Nothing /\ newOps[t] = Nothing
  BY DEF Init
<1>3. TxInv
  BY <1>2
  DEF TxInv, TxOK, LegOK, LockOK, WriteOK, ReplayOK, Running, LegLocked, Nothing
<1>4. RowsLive /\ ForeignKeys /\ TransferWhole /\ EffectInv
  BY DEF Init, RowsLive, ForeignKeys, TransferWhole, EffectInv, Nothing
<1>5. QED
  BY <1>1, <1>3, <1>4 DEF IndInv

LEMMA MovesKeep ==
    ASSUME CanonicalRequests, IndInv, NEW t \in Txs, Moves(t)
    PROVE  TxInv' /\ RowsLive' /\ ForeignKeys' /\ TransferWhole' /\ EffectInv'
<1> USE DEF IndInv
<1>1. TxOK(t) /\ TxOK(t)'
  BY OwnStepOK DEF TxInv
<1>2. ASSUME NEW s \in Txs, s # t PROVE TxOK(s)'
  <2>1. TxOK(s) /\ Undisturbed(s)
    BY <1>2, OthersUndisturbed DEF TxInv
  <2>2. CASE Commit(t)
    BY <1>2, <2>1, <2>2, CommitKeepsData, Interference
  <2>3. CASE ~Commit(t)
    <3>1. UNCHANGED db
      BY <2>3
      DEF Moves, TxStep, Begin, LockUser, Acquire, Lookup, Change, Reject, Save, Respond,
          Crash, Fail
    <3>2. QED
      BY <2>1, <3>1, SameData, Interference
  <2>4. QED
    BY <2>2, <2>3
<1>3. CASE Commit(t)
  BY <1>1, <1>2, <1>3, CommitShared DEF TxInv
<1>4. CASE ~Commit(t)
  <2>1. UNCHANGED db /\ UNCHANGED effects
    BY <1>4
    DEF Moves, TxStep, Begin, LockUser, Acquire, Lookup, Change, Reject, Save, Respond,
        Crash, Fail, history
  <2>2. RowsLive'
    <3>1. ASSUME NEW u \in Users, rowLock'[u] # None, rowLock'[u] # rowLock[u] PROVE Live(u)
      BY <1>4, <3>1
      DEF TypeOK, Moves, TxStep, Begin, LockUser, Acquire, Lookup, Change, Reject, Save,
          Respond, Crash, Fail, ReleaseAll, Matches, locks
    <3>2. QED
      BY <2>1, <3>1 DEF RowsLive, Live, db
  <2>3. ForeignKeys' /\ TransferWhole' /\ EffectInv'
    BY <2>1 DEF ForeignKeys, TransferWhole, EffectInv, Recorded, RecordOf, Gone, db
  <2>4. QED
    BY <1>1, <1>2, <2>2, <2>3 DEF TxInv
<1>5. QED
  BY <1>3, <1>4

LEMMA StepInd == CanonicalRequests /\ IndInv /\ [Next]_vars => IndInv'
<1> SUFFICES ASSUME CanonicalRequests, IndInv, [Next]_vars PROVE IndInv'
  OBVIOUS
<1>1. TypeOK'
  BY StepType DEF IndInv, TxInv, TxOK, WriteOK, SaveWrote
<1>2. CASE \E t \in Txs : Moves(t)
  BY <1>1, <1>2, MovesKeep DEF IndInv
<1>3. CASE ResetMoves
  BY <1>1, <1>3, ResetKeeps DEF IndInv
<1>4. ASSUME NEW u \in Deletable, SoftDelete(u) \/ HardDelete(u) PROVE IndInv'
  <2>1. u \in Users
    BY InitAssumption
  <2>2. QED
    BY <1>1, <1>4, <2>1, SoftDeleteKeeps, HardDeleteKeeps DEF IndInv
<1>5. ASSUME NEW p \in Procs, DetectDeadlock(p) PROVE IndInv'
  BY <1>2, <1>3, <1>5 DEF DetectDeadlock, Procs, Moves, ResetMoves
<1>6. CASE UNCHANGED vars
  <2>1. UNCHANGED <<balance, ops, status, rowLock, advLock, pc, req, leg, reply, wrote, newOps,
                    effects>>
    BY <1>6 DEF vars, db, locks, tx, history
  <2>2. \A s \in Txs : TxOK(s)'
    <3>1. ASSUME NEW s \in Txs PROVE TxOK(s)'
      <4>1. Undisturbed(s) /\ UNCHANGED db /\ TxOK(s) /\ TypeOK
        BY <2>1 DEF Undisturbed, db, IndInv, TxInv
      <4>2. QED
        BY <4>1, SameData, Interference
    <3>2. QED
      BY <3>1
  <2>3. QED
    BY <1>1, <2>1, <2>2
    DEF IndInv, TxInv, RowsLive, Live, ForeignKeys, TransferWhole, EffectInv, Recorded,
        RecordOf, Gone
<1>7. QED
  BY <1>2, <1>3, <1>4, <1>5, <1>6 DEF Next, Moves, ResetMoves

-----------------------------------------------------------------------------
(* Theorems, for clients that spell their uuids canonically.               *)

LEMMA Inductive == ASSUME CanonicalRequests PROVE Spec => []IndInv
<1>1. Init => IndInv
  BY InitInd
<1>2. IndInv /\ [Next]_vars => IndInv'
  BY StepInd
<1>3. QED
  BY <1>1, <1>2, PTL DEF Spec

(* However often and concurrently a request is sent, and whatever crashes, *)
(* deadlocks, resets and deletions happen, it changes balances only once.  *)
THEOREM AppliedAtMostOnce == ASSUME CanonicalRequests PROVE Spec => []AppliedOnce
<1>1. IndInv => AppliedOnce
  BY DEF IndInv, EffectInv, AppliedOnce
<1>2. QED
  BY <1>1, Inductive, PTL

(* The withdrawal and the deposit of a transfer are always both recorded,  *)
(* each naming the other's user, or neither is.                            *)
THEOREM TransfersAreWhole == ASSUME CanonicalRequests PROVE Spec => []TransferWhole
<1>1. IndInv => TransferWhole
  BY DEF IndInv
<1>2. QED
  BY <1>1, Inductive, PTL

(* No two transactions ever work under one key of one user at once,        *)
(* whatever hashtext maps keys to.                                         *)
THEOREM KeyLockIsExclusive == ASSUME CanonicalRequests PROVE Spec => []KeyLockExcludes
<1>1. ASSUME IndInv PROVE KeyLockExcludes
  <2> SUFFICES ASSUME NEW t1 \in Txs, NEW t2 \in Txs, NEW u \in Users, NEW k \in Keys,
                      Holds(t1, u, k), Holds(t2, u, k)
               PROVE  t1 = t2
    BY DEF KeyLockExcludes
  <2>1. TypeOK /\ TxOK(t1) /\ TxOK(t2)
    BY <1>1 DEF IndInv, TxInv
  <2>2. /\ req[t1] \in Requests /\ leg[t1] \in {1, 2} /\ LegLocked(t1, leg[t1])
        /\ req[t2] \in Requests /\ leg[t2] \in {1, 2} /\ LegLocked(t2, leg[t2])
    BY <2>1, TxFields DEF Holds, LegLocked, Running
  <2>3. /\ advLock[Lock(req[t1], leg[t1])] = t1
        /\ advLock[Lock(req[t2], leg[t2])] = t2
    BY <2>1, <2>2 DEF TxOK, LockOK
  <2>4. /\ LegUser(req[t1], leg[t1]) = LegUser(req[t2], leg[t2])
        /\ req[t1].key = req[t2].key
    BY DEF Holds, User, Key
  <2>5. QED
    BY <2>2, <2>3, <2>4, SameLock
<1>2. QED
  BY <1>1, Inductive, PTL

-----------------------------------------------------------------------------
(* Balance implements Ledger.                                              *)

(* A commit is the application of the request to the ledger, or nothing.   *)
LEMMA CommitImplements ==
    ASSUME IndInv, NEW t \in Txs, Commit(t)
    PROVE  Abstract!Apply(req[t]) \/ UNCHANGED <<balance, ops, status>>
<1> DEFINE r == req[t]
<1>1. /\ TypeOK /\ TxOK(t) /\ RowsLive /\ UNCHANGED status
      /\ balance \in [Users -> Amount] /\ ops \in [Users -> [Keys -> Op \cup {None}]]
  BY DEF IndInv, TxInv, Commit, TypeOK
<1>2. /\ r \in Requests /\ r.user \in Users /\ r.to \in Users /\ r.key \in Keys
      /\ r.key = Key(t) /\ LegCount(r) \in {1, 2}
      /\ r.kind = "transfer" <=> LegCount(r) = 2
      /\ LegCount(r) = 1 => r.to = r.user
      /\ LegCount(r) = 2 => r.to # r.user
  BY <1>1, RequestFields DEF Commit, TypeOK, LegCount, TxOK, LegOK, Running, Key
<1>3. CASE wrote[t] = Nothing /\ newOps[t] = Nothing
  <2>1. balance' = balance
    BY <1>1, <1>3 DEF Commit, Nothing
  <2>2. ops' = ops
    BY <1>1, <1>3 DEF Commit, Nothing
  <2>3. QED
    BY <1>1, <2>1, <2>2
<1>4. CASE \A i \in 1 .. LegCount(r) : newOps[t][LegUser(r, i)] # None
  <2>1. ASSUME NEW i \in 1 .. LegCount(r)
        PROVE  /\ Live(LegUser(r, i)) /\ ops[LegUser(r, i)][r.key] = None
               /\ wrote[t][LegUser(r, i)] = balance[LegUser(r, i)] + LegDelta(r, i)
               /\ newOps[t][LegUser(r, i)] = NewOp(r, i, wrote[t][LegUser(r, i)])
               /\ wrote[t][LegUser(r, i)] \in Amount
               /\ wrote[t][LegUser(r, i)] # None
    <3>1. LegUser(r, i) \in Users /\ newOps[t][LegUser(r, i)] # None
      BY <1>2, <1>4 DEF LegUser
    <3>2. PICK j \in {1, 2} :
            /\ j <= LegCount(r) /\ LegUser(r, i) = LegUser(r, j)
            /\ wrote[t][LegUser(r, i)] = balance[LegUser(r, i)] + LegDelta(r, j)
            /\ newOps[t][LegUser(r, i)] = NewOp(r, j, wrote[t][LegUser(r, i)])
      BY <1>1, <3>1, CommitRow
    <3>3. i = j
      BY <1>2, <3>2 DEF LegUser
    <3>4. QED
      BY <1>1, <1>2, <3>1, <3>2, <3>3, CommitRow DEF TypeOK
  <2>2. ASSUME NEW u \in Users, u # r.user, u # r.to
        PROVE  wrote[t][u] = None /\ newOps[t][u] = None
    BY <1>1, <2>2, CommitRow DEF LegUser
  <2>3. /\ r.user = LegUser(r, 1) /\ 1 \in 1 .. LegCount(r)
        /\ LegCount(r) = 2 => r.to = LegUser(r, 2) /\ 2 \in 1 .. LegCount(r)
    BY <1>2 DEF LegUser
  <2>4. \A i \in 1 .. LegCount(r) :
          /\ Abstract!After(r, i) = wrote[t][LegUser(r, i)]
          /\ Abstract!LegUser(r, i) = LegUser(r, i)
          /\ Abstract!NewOp(r, i, Abstract!After(r, i)) = newOps[t][LegUser(r, i)]
    BY <2>1
    DEF LegUser, LegPeer, LegDelta, LegType, NewOp, Abstract!After, Abstract!LegUser,
        Abstract!LegDelta, Abstract!LegType, Abstract!LegPeer, Abstract!NewOp
  <2>5. balance' = [u \in Users |->
                      IF u = r.user THEN Abstract!After(r, 1)
                      ELSE IF u = r.to THEN Abstract!After(r, 2) ELSE balance[u]]
    <3>1. ASSUME NEW u \in Users
          PROVE  (IF wrote[t][u] # None THEN wrote[t][u] ELSE balance[u])
                 = IF u = r.user THEN Abstract!After(r, 1)
                   ELSE IF u = r.to THEN Abstract!After(r, 2) ELSE balance[u]
      <4>1. CASE u = r.user
        BY <2>1, <2>3, <2>4, <4>1
      <4>2. CASE u # r.user /\ u = r.to
        BY <1>2, <2>1, <2>3, <2>4, <4>2
      <4>3. CASE u # r.user /\ u # r.to
        BY <2>2, <4>3
      <4>4. QED
        BY <4>1, <4>2, <4>3
    <3>2. balance' = [u \in Users |-> IF wrote[t][u] # None THEN wrote[t][u] ELSE balance[u]]
      BY DEF Commit
    <3>3. QED
      BY <3>1, <3>2
  <2>6. ops' = [u \in Users |-> [k \in Keys |->
                  IF k = r.key /\ u = r.user THEN Abstract!NewOp(r, 1, Abstract!After(r, 1))
                  ELSE IF k = r.key /\ u = r.to THEN Abstract!NewOp(r, 2, Abstract!After(r, 2))
                  ELSE ops[u][k]]]
    <3>1. ASSUME NEW u \in Users, NEW k \in Keys
          PROVE  (IF newOps[t][u] # None /\ k = r.key THEN newOps[t][u] ELSE ops[u][k])
                 = IF k = r.key /\ u = r.user THEN Abstract!NewOp(r, 1, Abstract!After(r, 1))
                   ELSE IF k = r.key /\ u = r.to
                   THEN Abstract!NewOp(r, 2, Abstract!After(r, 2)) ELSE ops[u][k]
      <4>1. CASE u = r.user
        <5>1. newOps[t][u] # None
          BY <1>4, <2>3, <4>1
        <5>2. Abstract!NewOp(r, 1, Abstract!After(r, 1)) = newOps[t][u]
          BY <2>3, <2>4, <4>1
        <5>3. QED
          BY <1>2, <4>1, <5>1, <5>2
      <4>2. CASE u # r.user /\ u = r.to
        <5>1. newOps[t][u] # None
          BY <1>2, <1>4, <2>3, <4>2
        <5>2. Abstract!NewOp(r, 2, Abstract!After(r, 2)) = newOps[t][u]
          BY <1>2, <2>3, <2>4, <4>2
        <5>3. QED
          BY <4>2, <5>1, <5>2
      <4>3. CASE u # r.user /\ u # r.to
        BY <2>2, <4>3
      <4>4. QED
        BY <4>1, <4>2, <4>3
    <3>2. ops' = [u \in Users |-> [k \in Keys |->
                    IF newOps[t][u] # None /\ k = r.key THEN newOps[t][u] ELSE ops[u][k]]]
      BY DEF Commit, Key
    <3>3. QED
      BY <3>1, <3>2
  <2>7. Abstract!Legs(r) = 1 .. LegCount(r) /\ Abstract!Amount = Amount
    BY DEF Abstract!Legs, Abstract!LegCount, LegCount, Abstract!Amount, Amount
  <2>8. \A i \in Abstract!Legs(r) :
          /\ status[Abstract!LegUser(r, i)] = "live"
          /\ ops[Abstract!LegUser(r, i)][r.key] = None
          /\ Abstract!After(r, i) \in Abstract!Amount
    BY <2>1, <2>4, <2>7 DEF Live
  <2>9. r.kind = "transfer" => r.user # r.to
    BY <1>2
  <2>10. Abstract!Apply(r)
    BY <1>1, <2>5, <2>6, <2>8, <2>9 DEF Abstract!Apply
  <2>11. QED
    BY <2>10
<1>5. QED
  BY <1>1, <1>3, <1>4, CommitShape

LEMMA StepImplements ==
    ASSUME IndInv, [Next]_vars
    PROVE  [Abstract!Next]_(Abstract!vars)
<1> USE DEF Abstract!vars
<1>1. CASE \E t \in Txs : Commit(t)
  <2>1. PICK t \in Txs : Commit(t)
    BY <1>1
  <2>2. req[t] \in Requests
    BY <2>1 DEF IndInv, TypeOK, Commit
  <2>3. QED
    BY <2>1, <2>2, CommitImplements DEF Abstract!Next
<1>2. CASE ResetCommit
  <2> DEFINE us == {u \in Users : rowLock[u] = ResetJob}
  <2>1. /\ balance' = [u \in Users |-> IF u \in us THEN 0 ELSE balance[u]]
        /\ UNCHANGED <<ops, status>>
    BY <1>2 DEF ResetCommit
  <2>2. \A u \in us : status[u] = "live"
    BY ProcessAssumption DEF IndInv, RowsLive, Live
  <2>3. us \in SUBSET Users /\ Abstract!Reset(us)
    BY <2>1, <2>2 DEF Abstract!Reset
  <2>4. QED
    BY <2>3 DEF Abstract!Next
<1>3. ASSUME NEW u \in Deletable, SoftDelete(u) PROVE [Abstract!Next]_(Abstract!vars)
  BY <1>3, InitAssumption DEF SoftDelete, Live, Abstract!SoftDelete, Abstract!Next
<1>4. ASSUME NEW u \in Deletable, HardDelete(u) PROVE [Abstract!Next]_(Abstract!vars)
  BY <1>4, InitAssumption DEF HardDelete, Abstract!HardDelete, Abstract!Next
<1>5. CASE UNCHANGED db
  BY <1>5 DEF db
<1>6. ASSUME NEW t \in Txs, TxStep(t) \/ Crash(t) \/ Fail(t, "serverError")
                           \/ \E r \in Requests : Begin(t, r)
      PROVE  Commit(t) \/ UNCHANGED db
  BY <1>6
  DEF TxStep, Begin, LockUser, Acquire, Lookup, Change, Reject, Save, Respond, Crash, Fail
<1>7. ResetBegin \/ ResetStep \/ ResetAbort => ResetCommit \/ UNCHANGED db
  BY DEF ResetBegin, ResetStep, ResetReach, ResetRow, ResetAbort
<1>8. ASSUME NEW p \in Procs, DetectDeadlock(p) PROVE UNCHANGED db
  BY <1>8 DEF DetectDeadlock, ResetAbort, Fail
<1>9. QED
  BY <1>1, <1>2, <1>3, <1>4, <1>5, <1>6, <1>7, <1>8 DEF Next, vars

(* The transactions of the balance service, with their locks, their        *)
(* retries and their failures, do no more than the ledger allows.          *)
THEOREM ImplementsLedger == ASSUME CanonicalRequests PROVE Spec => LedgerSpec
<1>1. Init => Abstract!Init
  BY DEF Init, Abstract!Init
<1>2. IndInv /\ [Next]_vars => [Abstract!Next]_(Abstract!vars)
  BY StepImplements
<1>3. QED
  BY <1>1, <1>2, Inductive, PTL DEF Spec, LedgerSpec, Abstract!Spec

-----------------------------------------------------------------------------
(* Which locks a transaction has.                                          *)

TakesNothing(s) ==
    /\ \A h \in Hashes : advLock'[h] = s => advLock[h] = s
    /\ \A u \in Users : rowLock'[u] = s => rowLock[u] = s

NobodyRises == \A u \in Users : Live(u)' => Live(u)

LEMMA OthersTakeNothing ==
    ASSUME TypeOK, NEW t \in Txs, Moves(t), NEW s \in Txs, s # t
    PROVE  TakesNothing(s)
<1>1. s # None
  BY ProcessAssumption
<1>2. ASSUME NEW h \in Hashes, advLock'[h] = s PROVE advLock[h] = s
  BY <1>1, <1>2
  DEF Moves, TypeOK, locks, TxStep, Begin, LockUser, Acquire, Lookup, Change, Reject,
      Save, Commit, Respond, Crash, Fail, ReleaseAll
<1>3. ASSUME NEW u \in Users, rowLock'[u] = s PROVE rowLock[u] = s
  BY <1>1, <1>3
  DEF Moves, TypeOK, locks, TxStep, Begin, LockUser, Acquire, Lookup, Change, Reject,
      Save, Commit, Respond, Crash, Fail, ReleaseAll
<1>4. QED
  BY <1>2, <1>3 DEF TakesNothing

LEMMA ResetTakesNothing ==
    ASSUME TypeOK, ResetMoves, NEW s \in Txs
    PROVE  TakesNothing(s)
<1>1. s # ResetJob /\ s # None
  BY ProcessAssumption
<1>2. QED
  BY <1>1
  DEF TakesNothing, TypeOK, ResetMoves, ResetStep, ResetBegin, ResetReach, ResetRow,
      ResetCommit, ResetAbort, ReleaseAll, tx, locks

(* The steps of others leave a transaction the locks it has, and no more.  *)
LEMMA HeldInterference ==
    ASSUME TypeOK, NEW s \in Txs, HeldOK(s), Undisturbed(s), TakesNothing(s), NobodyRises
    PROVE  HeldOK(s)'
<1> USE DEF Undisturbed, TakesNothing
<1>1. KeysNeeded(s)'
  BY DEF HeldOK, KeysNeeded, LegLocked, Running
<1>2. RowsNeeded(s)'
  BY DEF HeldOK, RowsNeeded, Running
<1>3. UsersLocked(s)'
  <2>1. (pc[s] \in {"lockFirst", "lockSecond"} => req[s].kind = "transfer")'
    BY DEF HeldOK, UsersLocked
  <2>2. ASSUME Running(s)', req'[s].kind = "transfer", pc'[s] # "lockFirst",
               NEW u \in {req'[s].user, req'[s].to}, Live(u)',
               pc'[s] = "lockSecond" => u = LockOrder(req[s])[1]
        PROVE  rowLock'[u] = s
    <3>1. Running(s) /\ req[s].kind = "transfer" /\ pc[s] # "lockFirst"
      BY <2>2 DEF Running
    <3>2. u \in Users /\ u \in {req[s].user, req[s].to}
      BY <2>2, <3>1, RequestFields DEF TypeOK, Running
    <3>3. Live(u)
      BY <2>2, <3>2 DEF NobodyRises
    <3>4. rowLock[u] = s
      BY <2>2, <3>1, <3>2, <3>3 DEF HeldOK, UsersLocked
    <3>5. QED
      BY <3>2, <3>4
  <2>3. QED
    BY <2>1, <2>2 DEF UsersLocked
<1>4. QED
  BY <1>1, <1>2, <1>3 DEF HeldOK

(* What has ended has no lock.                                             *)
LEMMA EndHeld ==
    ASSUME NEW t \in Txs, pc'[t] \in {"reply", "idle"},
           \A h \in Hashes : advLock'[h] # t, \A u \in Users : rowLock'[u] # t
    PROVE  HeldOK(t)'
BY DEF HeldOK, KeysNeeded, RowsNeeded, UsersLocked, Running

LEMMA ReleasedHeld ==
    ASSUME TypeOK, NEW t \in Txs, ReleaseAll(t), pc'[t] \in {"reply", "idle"}
    PROVE  HeldOK(t)'
<1>1. t # None
  BY ProcessAssumption
<1>2. (\A h \in Hashes : advLock'[h] # t) /\ \A u \in Users : rowLock'[u] # t
  BY <1>1 DEF ReleaseAll, TypeOK
<1>3. QED
  BY <1>2, EndHeld

(* A step that takes no lock, after which all those it had are still needed. *)
LEMMA SameLocksHeld ==
    ASSUME TypeOK, NEW t \in Txs, HeldOK(t), UNCHANGED <<locks, req, status>>,
           pc[t] \in {"advisory", "lookup", "change", "save"},
           pc'[t] \in {"advisory", "lookup", "change", "save", "commit"},
           \A i \in {1, 2} : LegLocked(t, i) => LegLocked(t, i)',
           pc[t] = "save" => pc'[t] = "commit" \/ req[t].kind = "transfer"
    PROVE  HeldOK(t)'
<1> USE DEF locks
<1>1. KeysNeeded(t)'
  BY DEF HeldOK, KeysNeeded
<1>2. RowsNeeded(t)'
  BY DEF HeldOK, RowsNeeded, Running
<1>3. UsersLocked(t)'
  BY DEF HeldOK, UsersLocked, Running, Live
<1>4. QED
  BY <1>1, <1>2, <1>3 DEF HeldOK

LEMMA BeginHeld ==
    ASSUME TypeOK, NEW t \in Txs, HeldOK(t), NEW r \in Requests, Begin(t, r)
    PROVE  HeldOK(t)'
<1>1. (\A h \in Hashes : advLock[h] # t) /\ \A u \in Users : rowLock[u] # t
  BY DEF Begin, HeldOK, KeysNeeded, RowsNeeded, LegLocked, Running
<1>2. /\ UNCHANGED locks /\ req'[t] = r
      /\ pc'[t] \in {"reply", "lockFirst", "advisory"}
      /\ pc'[t] = "lockFirst" => r.kind = "transfer"
      /\ pc'[t] = "advisory" => r.kind # "transfer"
  BY DEF Begin, TypeOK
<1>3. QED
  BY <1>1, <1>2 DEF HeldOK, KeysNeeded, RowsNeeded, UsersLocked, Running, locks

LEMMA LockUserHeld ==
    ASSUME TypeOK, NEW t \in Txs, TxOK(t), HeldOK(t), LockUser(t)
    PROVE  HeldOK(t)'
<1> DEFINE u0 == UserToLock(t)
<1>1. /\ pc[t] \in {"lockFirst", "lockSecond"} /\ req[t] \in Requests /\ leg[t] = 1
      /\ pc'[t] = IF pc[t] = "lockFirst" THEN "lockSecond" ELSE "advisory"
      /\ UNCHANGED <<db, advLock, req, leg>>
      /\ req[t].kind = "transfer" /\ req[t].user # req[t].to
      /\ req[t].user \in Users /\ req[t].to \in Users
  BY RequestFields
  DEF LockUser, TypeOK, HeldOK, UsersLocked, TxOK, LegOK, Running
<1>2. u0 \in Users /\ t # None
  BY <1>1, ProcessAssumption DEF UserToLock, LockOrder
<1>3. /\ Live(u0) => rowLock'[u0] = t
      /\ ~Live(u0) => rowLock'[u0] = rowLock[u0]
      /\ \A u \in Users : u # u0 => rowLock'[u] = rowLock[u]
  BY <1>2 DEF LockUser, TypeOK
<1>4. KeysNeeded(t)'
  <2>1. \A h \in Hashes : advLock[h] # t
    BY <1>1 DEF HeldOK, KeysNeeded, LegLocked
  <2>2. QED
    BY <1>1, <2>1 DEF KeysNeeded
<1>5. ASSUME NEW u \in Users, rowLock[u] = t
      PROVE  pc[t] = "lockSecond" /\ u = LockOrder(req[t])[1]
  BY <1>1, <1>5 DEF HeldOK, RowsNeeded
<1>6. RowsNeeded(t)'
  <2> SUFFICES ASSUME NEW u \in Users, rowLock'[u] = t
               PROVE  pc'[t] = "lockSecond" => u = LockOrder(req[t])[1]
    BY <1>1 DEF RowsNeeded, Running
  <2>1. CASE pc[t] = "lockFirst"
    <3>1. u = u0
      BY <1>3, <1>5, <2>1
    <3>2. QED
      BY <2>1, <3>1 DEF UserToLock
  <2>2. CASE pc[t] = "lockSecond"
    BY <1>1, <2>2
  <2>3. QED
    BY <1>1, <2>1, <2>2
<1>7. UsersLocked(t)'
  <2> SUFFICES ASSUME NEW u \in {req[t].user, req[t].to}, Live(u),
                      pc'[t] = "lockSecond" => u = LockOrder(req[t])[1]
               PROVE  rowLock'[u] = t
    BY <1>1 DEF UsersLocked, Running, Live, db
  <2>1. CASE pc[t] = "lockFirst"
    <3>1. u = u0
      BY <1>1, <2>1 DEF UserToLock
    <3>2. QED
      BY <1>3, <3>1
  <2>2. CASE pc[t] = "lockSecond"
    <3>1. u = u0 \/ u = LockOrder(req[t])[1]
      BY <1>1, <2>2 DEF UserToLock, LockOrder
    <3>2. u = LockOrder(req[t])[1] => rowLock[u] = t
      BY <1>1, <2>2 DEF HeldOK, UsersLocked, Running
    <3>3. QED
      BY <1>1, <1>3, <3>1, <3>2
  <2>3. QED
    BY <1>1, <2>1, <2>2
<1>8. QED
  BY <1>4, <1>6, <1>7 DEF HeldOK

LEMMA AcquireHeld ==
    ASSUME TypeOK, NEW t \in Txs, TxOK(t), HeldOK(t), Acquire(t)
    PROVE  HeldOK(t)'
<1>1. /\ pc[t] = "advisory" /\ pc'[t] = "lookup" /\ leg[t] \in {1, 2}
      /\ UNCHANGED <<db, rowLock, req, leg>>
      /\ Lock(req[t], leg[t]) \in Hashes
      /\ advLock' = [advLock EXCEPT ![Lock(req[t], leg[t])] = t]
  BY TxFields DEF Acquire, TypeOK
<1>2. KeysNeeded(t)'
  <2> SUFFICES ASSUME NEW h \in Hashes, advLock'[h] = t
               PROVE  \E i \in {1, 2} : LegLocked(t, i)' /\ h = Lock(req[t], i)
    BY <1>1 DEF KeysNeeded, Lock, LockText
  <2>1. CASE h = Lock(req[t], leg[t])
    BY <1>1, <2>1 DEF LegLocked, Running
  <2>2. CASE h # Lock(req[t], leg[t])
    <3>1. PICK i \in {1, 2} : LegLocked(t, i) /\ h = Lock(req[t], i)
      BY <1>1, <2>2 DEF TypeOK, HeldOK, KeysNeeded
    <3>2. LegLocked(t, i)'
      BY <1>1, <3>1 DEF LegLocked, Running
    <3>3. QED
      BY <3>1, <3>2
  <2>3. QED
    BY <2>1, <2>2
<1>3. RowsNeeded(t)'
  BY <1>1 DEF HeldOK, RowsNeeded, Running
<1>4. UsersLocked(t)'
  BY <1>1 DEF HeldOK, UsersLocked, Running, Live, db
<1>5. QED
  BY <1>2, <1>3, <1>4 DEF HeldOK

LEMMA NextLegHeld ==
    ASSUME TypeOK, NEW t \in Txs, TxOK(t), HeldOK(t), NextLeg(t), pc[t] \in {"lookup", "save"},
           UNCHANGED <<db, locks, req>>
    PROVE  HeldOK(t)'
<1>1. /\ req[t] \in Requests /\ leg[t] \in {1, 2}
      /\ \/ leg[t] = 1 /\ req[t].kind = "transfer" /\ pc'[t] = "advisory" /\ leg'[t] = 2
         \/ pc'[t] = "commit" /\ leg'[t] = leg[t]
  BY DEF NextLeg, TypeOK, TxOK, LegOK, Running, LegCount
<1>2. \A i \in {1, 2} : LegLocked(t, i) => LegLocked(t, i)'
  BY <1>1 DEF LegLocked, Running
<1>3. QED
  BY <1>1, <1>2, SameLocksHeld DEF db

LEMMA ChangeHeld ==
    ASSUME TypeOK, NEW t \in Txs, TxOK(t), HeldOK(t), Change(t)
    PROVE  HeldOK(t)'
<1>1. pc[t] = "change" /\ User(t) \in Users /\ leg[t] \in {1, 2}
  BY TxFields DEF Change
<1>2. CASE Fail(t, "serverError")
  BY <1>2, ReleasedHeld DEF Fail, TypeOK
<1>3. CASE /\ rowLock' = [rowLock EXCEPT ![User(t)] = t]
           /\ pc' = [pc EXCEPT ![t] = "save"]
           /\ UNCHANGED <<db, advLock, req, leg>>
  <2>1. pc'[t] = "save"
    BY <1>3 DEF TypeOK
  <2>2. KeysNeeded(t)'
    <3>1. \A i \in {1, 2} : LegLocked(t, i) => LegLocked(t, i)'
      BY <1>1, <1>3, <2>1 DEF LegLocked, Running
    <3>2. QED
      BY <1>3, <3>1 DEF HeldOK, KeysNeeded, Lock, LockText
  <2>3. RowsNeeded(t)'
    BY <2>1 DEF RowsNeeded, Running
  <2>4. UsersLocked(t)'
    BY <1>1, <1>3, <2>1 DEF HeldOK, UsersLocked, Running, Live, db, TypeOK
  <2>5. QED
    BY <2>2, <2>3, <2>4 DEF HeldOK
<1>4. QED
  BY <1>2, <1>3 DEF Change

LEMMA OwnHeld ==
    ASSUME TypeOK, NEW t \in Txs, TxOK(t), HeldOK(t), Moves(t)
    PROVE  HeldOK(t)'
<1>1. ASSUME NEW code \in Codes, Fail(t, code) PROVE HeldOK(t)'
  BY <1>1, ReleasedHeld DEF Fail, TypeOK
<1>2. CASE \E r \in Requests : Begin(t, r)
  BY <1>2, BeginHeld
<1>3. CASE LockUser(t) \/ Acquire(t) \/ Change(t)
  BY <1>3, LockUserHeld, AcquireHeld, ChangeHeld
<1>4. CASE Lookup(t)
  <2>1. CASE pc' = [pc EXCEPT ![t] = "change"] /\ UNCHANGED <<db, locks, req, leg>>
    <3>1. pc[t] = "lookup" /\ pc'[t] = "change"
      BY <1>4, <2>1 DEF Lookup, TypeOK
    <3>2. \A i \in {1, 2} : LegLocked(t, i) => LegLocked(t, i)'
      BY <2>1, <3>1 DEF LegLocked, Running
    <3>3. QED
      BY <2>1, <3>1, <3>2, SameLocksHeld DEF db
  <2>2. CASE NextLeg(t) /\ UNCHANGED <<db, locks, req>>
    BY <1>4, <2>2, NextLegHeld DEF Lookup
  <2>3. CASE Fail(t, "conflict")
    BY <1>1, <2>3 DEF Codes
  <2>4. QED
    BY <1>4, <2>1, <2>2, <2>3 DEF Lookup
<1>5. CASE Reject(t)
  <2>1. PICK code \in {"notFound", "badRequest"} : Fail(t, code)
    BY <1>5 DEF Reject
  <2>2. QED
    BY <1>1, <2>1 DEF Codes
<1>6. CASE Save(t)
  <2>1. CASE Fail(t, "serverError")
    BY <1>1, <2>1 DEF Codes
  <2>2. CASE NextLeg(t) /\ UNCHANGED <<db, locks, req>>
    BY <1>6, <2>2, NextLegHeld DEF Save
  <2>3. QED
    BY <1>6, <2>1, <2>2 DEF Save
<1>7. CASE Commit(t)
  BY <1>7, ReleasedHeld DEF Commit, TypeOK
<1>8. CASE Respond(t)
  <2>1. (\A h \in Hashes : advLock[h] # t) /\ \A u \in Users : rowLock[u] # t
    BY <1>8 DEF Respond, HeldOK, KeysNeeded, RowsNeeded, LegLocked, Running
  <2>2. pc'[t] = "idle" /\ UNCHANGED locks
    BY <1>8 DEF Respond, Forget, TypeOK
  <2>3. QED
    BY <2>1, <2>2, EndHeld DEF locks
<1>9. CASE Crash(t)
  BY <1>9, ReleasedHeld DEF Crash, Forget, TypeOK
<1>10. CASE Fail(t, "serverError")
  BY <1>1, <1>10 DEF Codes
<1>11. QED
  BY <1>2, <1>3, <1>4, <1>5, <1>6, <1>7, <1>8, <1>9, <1>10 DEF Moves, TxStep

-----------------------------------------------------------------------------
(* Transfers whose first leg was a replay.                                 *)

LEMMA ReplayedFields ==
    ASSUME TypeOK, NEW t \in Txs, TxOK(t), Replayed(t)
    PROVE  /\ req[t] \in Requests /\ req[t].kind = "transfer" /\ req[t].user # req[t].to
           /\ req[t].user \in Users /\ req[t].to \in Users /\ req[t].key \in Keys
           /\ LegLocked(t, 1) /\ advLock[Lock(req[t], 1)] = t
           /\ LegType(req[t], 1) = "withdrawal"
<1>1. /\ req[t] \in Requests /\ req[t].kind = "transfer" /\ req[t].user # req[t].to
      /\ LegLocked(t, 1)
  BY DEF Replayed, Running, TypeOK, TxOK, LegOK, LegCount, LegLocked
<1>2. LegType(req[t], 1) = "withdrawal"
  BY <1>1 DEF LegType
<1>3. QED
  BY <1>1, <1>2, RequestFields DEF TxOK, LockOK

(* A transaction becomes one by finding its withdrawal in the ledger.      *)
LEMMA NewReplay ==
    ASSUME TypeOK, NEW t \in Txs, TxOK(t), Moves(t), Replayed(t)'
    PROVE  /\ UNCHANGED db /\ req'[t] = req[t]
           /\ Replayed(t) \/ RecordOf(req[t].user, req[t].key, req[t], 1)
<1>1. ASSUME NEW code \in Codes, Fail(t, code) PROVE FALSE
  BY <1>1 DEF Fail, Replayed, Running, TypeOK
<1>2. CASE (\E r \in Requests : Begin(t, r)) \/ LockUser(t) \/ Acquire(t)
  <2>1. ~\E r \in Requests : Begin(t, r)
    BY DEF Begin, Replayed, Running, TypeOK, TxOK, LegOK
  <2>2. ~LockUser(t)
    BY DEF LockUser, Replayed, Running, TypeOK, TxOK, LegOK
  <2>3. QED
    BY <1>2, <2>1, <2>2 DEF Acquire, Replayed, Running, TypeOK
<1>3. CASE Change(t)
  BY <1>1, <1>3 DEF Change, Codes, Replayed, Running, TypeOK
<1>4. CASE Reject(t)
  BY <1>1, <1>4 DEF Reject, Codes
<1>5. CASE Commit(t) \/ Respond(t) \/ Crash(t) \/ Fail(t, "serverError")
  <2>1. pc'[t] \in {"reply", "idle"}
    BY <1>5 DEF Commit, Respond, Crash, Fail, Forget, TypeOK
  <2>2. QED
    BY <2>1 DEF Replayed, Running
<1>6. CASE Lookup(t)
  <2>1. /\ pc[t] = "lookup" /\ User(t) \in Users /\ newOps[t][User(t)] = None
        /\ OpSeen(t, User(t)) = ops[User(t)][Key(t)] /\ leg[t] \in {1, 2}
        /\ ~Fail(t, "conflict")
    BY <1>1, <1>6, TxFields, NotWrittenYet DEF Lookup, OpSeen, Codes
  <2>2. UNCHANGED <<db, req, newOps>>
    BY <1>6, <2>1 DEF Lookup
  <2>3. CASE leg[t] = 2
    BY <2>1, <2>2, <2>3 DEF Replayed, Running
  <2>4. CASE leg[t] = 1
    <3>1. SamePayload(ops[User(t)][Key(t)], req[t], 1) /\ ops[User(t)][Key(t)] # None
      BY <1>6, <2>1, <2>4 DEF Lookup, Replayed, TypeOK
    <3>2. QED
      BY <2>1, <2>2, <2>4, <3>1 DEF SamePayload, RecordOf, User, LegUser, Key
  <2>5. QED
    BY <2>1, <2>3, <2>4
<1>7. CASE Save(t)
  <2>1. /\ pc[t] = "save" /\ req[t] \in Requests /\ leg[t] \in {1, 2} /\ User(t) \in Users
        /\ LegCount(req[t]) \in {1, 2}
        /\ UNCHANGED <<db, req>>
        /\ newOps' = [newOps EXCEPT ![t][User(t)] =
                        NewOp(req[t], leg[t], wrote[t][User(t)])]
        /\ NextLeg(t)
    BY <1>1, <1>7, TxFields, LegFields DEF Save, Codes
  <2>2. CASE leg[t] = 2
    <3>1. req[t].user # User(t) /\ req[t].user \in Users
      BY <2>1, <2>2, RequestFields DEF TxOK, LegOK, Running, LegCount, User, LegUser
    <3>2. newOps'[t][req[t].user] = newOps[t][req[t].user]
      BY <2>1, <3>1 DEF TypeOK
    <3>3. QED
      BY <2>1, <2>2, <3>2 DEF Replayed, Running
  <2>3. CASE leg[t] = 1
    <3>1. wrote[t][User(t)] \in Amount
      BY <2>1 DEF TxOK, WriteOK, TypeOK
    <3>2. NewOp(req[t], 1, wrote[t][User(t)]) # None
      BY <2>1, <3>1, LegFields, NoneAssumption
    <3>3. newOps'[t][req[t].user] # None
      BY <2>1, <2>3, <3>2 DEF TypeOK, User, LegUser
    <3>4. QED
      BY <2>1, <3>3 DEF Replayed
  <2>4. QED
    BY <2>1, <2>2, <2>3
<1>8. QED
  BY <1>2, <1>3, <1>4, <1>5, <1>6, <1>7 DEF Moves, TxStep

LEMMA ReplayInterference ==
    ASSUME TypeOK, NEW s \in Txs, TxOK(s), ReplayKept(s), Undisturbed(s),
           \A u \in Users, k \in Keys :
              Replayed(s) /\ u = req[s].user /\ k = req[s].key =>
                 ops'[u][k] = ops[u][k] \/ ops'[u][k] = None
    PROVE  ReplayKept(s)' /\ (Replayed(s)' <=> Replayed(s)) /\ req'[s] = req[s]
<1>1. (Replayed(s)' <=> Replayed(s)) /\ req'[s] = req[s]
  BY DEF Undisturbed, Replayed, Running
<1>2. ASSUME Replayed(s)
      PROVE  \/ RecordOf(req[s].user, req[s].key, req[s], 1)'
             \/ ops'[req[s].user][req[s].key] = None
  <2>1. req[s].user \in Users /\ req[s].key \in Keys
    BY <1>2, ReplayedFields
  <2>2. QED
    BY <1>1, <1>2, <2>1 DEF ReplayKept, RecordOf
<1>3. QED
  BY <1>1, <1>2 DEF ReplayKept

(* The idempotency lock keeps the operation a replay has found.            *)
LEMMA CommitKeepsReplay ==
    ASSUME CanonicalRequests, TypeOK, TxInv, RowsLive, NEW t \in Txs, Commit(t),
           NEW s \in Txs, s # t, Replayed(s)
    PROVE  ops'[req[s].user][req[s].key] = ops[req[s].user][req[s].key]
<1> DEFINE u == req[s].user  k == req[s].key
<1>1. TxOK(s) /\ TxOK(t)
  BY DEF TxInv
<1>2. /\ req[s] \in Requests /\ u \in Users /\ k \in Keys
      /\ advLock[Lock(req[s], 1)] = s /\ u = LegUser(req[s], 1)
  BY <1>1, ReplayedFields DEF LegUser
<1>3. ASSUME ops'[u][k] # ops[u][k] PROVE FALSE
  <2>1. k = Key(t) /\ newOps[t][u] # None
    BY <1>1, <1>2, <1>3, CommitAdds
  <2>2. PICK i \in {1, 2} : u = LegUser(req[t], i) /\ advLock[Lock(req[t], i)] = t
    BY <1>1, <1>2, <2>1, CommitRow
  <2>3. req[t] \in Requests
    BY DEF Commit, TypeOK
  <2>4. Lock(req[t], i) = Lock(req[s], 1)
    BY <1>2, <2>1, <2>2, <2>3, SameLock DEF Key
  <2>5. QED
    BY <1>2, <2>2, <2>4
<1>4. QED
  BY <1>3

-----------------------------------------------------------------------------
(* The invariant of the waiting transactions.                              *)

LEMMA InitWait == Init => WaitInv
<1> SUFFICES ASSUME Init PROVE WaitInv
  OBVIOUS
<1>1. ASSUME NEW t \in Txs PROVE HeldOK(t) /\ ReplayKept(t) /\ ~Replayed(t)
  BY ProcessAssumption
  DEF Init, HeldOK, KeysNeeded, RowsNeeded, UsersLocked, ReplayKept, Replayed, Running, Nothing
<1>2. NoReplayCircle
  BY <1>1 DEF NoReplayCircle
<1>3. QED
  BY <1>1, <1>2 DEF WaitInv

(* What becomes of the replays when no transaction joins them.             *)
LEMMA SameReplays ==
    ASSUME NoReplayCircle, NEW ps \in SUBSET Txs,
           \A t \in ps : Replayed(t) /\ req'[t] = req[t],
           \A t \in ps : \E s \in ps : Follows(s, t)'
    PROVE  ps = {}
<1>1. \A t \in ps : \E s \in ps : Follows(s, t)
  BY DEF Follows
<1>2. QED
  BY <1>1 DEF NoReplayCircle

(* The steps of no transaction.                                            *)
LEMMA OutsideWait ==
    ASSUME TypeOK, TxInv, WaitInv, NobodyRises,
           \A s \in Txs : Undisturbed(s) /\ TakesNothing(s),
           \A u \in Users, k \in Keys : ops'[u][k] = ops[u][k] \/ ops'[u][k] = None
    PROVE  WaitInv'
<1>1. ASSUME NEW s \in Txs
      PROVE  HeldOK(s)' /\ ReplayKept(s)' /\ (Replayed(s)' <=> Replayed(s)) /\ req'[s] = req[s]
  <2>1. HeldOK(s) /\ ReplayKept(s) /\ TxOK(s)
    BY DEF WaitInv, TxInv
  <2>2. HeldOK(s)'
    BY <2>1, HeldInterference
  <2>3. QED
    BY <2>1, <2>2, ReplayInterference
<1>2. ASSUME NEW ps \in SUBSET Txs, \A t \in ps : Replayed(t)',
             \A t \in ps : \E s \in ps : Follows(s, t)'
      PROVE  ps = {}
  <2>1. \A t \in ps : Replayed(t) /\ req'[t] = req[t]
    BY <1>1, <1>2
  <2>2. QED
    BY <1>2, <2>1, SameReplays DEF WaitInv
<1>3. NoReplayCircle'
  BY <1>2 DEF NoReplayCircle
<1>4. QED
  BY <1>1, <1>3 DEF WaitInv

LEMMA MovesWait ==
    ASSUME CanonicalRequests, IndInv, IndInv', WaitInv, NEW t \in Txs, Moves(t)
    PROVE  WaitInv'
<1>1. /\ TypeOK /\ TxInv /\ RowsLive /\ TransferWhole /\ NoReplayCircle
      /\ TxOK(t) /\ HeldOK(t) /\ ReplayKept(t)
  BY DEF IndInv, TxInv, WaitInv
<1>2. NobodyRises
  BY DEF NobodyRises, Live, Moves, TxStep, Begin, LockUser, Acquire, Lookup, Change, Reject,
         Save, Commit, Respond, Crash, Fail, db
<1>3. ASSUME NEW s \in Txs, s # t
      PROVE  HeldOK(s)' /\ ReplayKept(s)' /\ (Replayed(s)' <=> Replayed(s)) /\ req'[s] = req[s]
  <2>1. HeldOK(s) /\ ReplayKept(s) /\ TxOK(s) /\ Undisturbed(s) /\ TakesNothing(s)
    BY <1>1, <1>3, OthersUndisturbed, OthersTakeNothing DEF WaitInv, TxInv
  <2>2. HeldOK(s)'
    BY <1>1, <1>2, <2>1, HeldInterference
  <2>3. Commit(t) \/ UNCHANGED db
    BY DEF Moves, TxStep, Begin, LockUser, Acquire, Lookup, Change, Reject, Save, Respond,
           Crash, Fail
  <2>4. Replayed(s) => ops'[req[s].user][req[s].key] = ops[req[s].user][req[s].key]
    BY <1>1, <1>3, <2>3, CommitKeepsReplay DEF db
  <2>5. QED
    BY <1>1, <2>1, <2>2, <2>4, ReplayInterference
<1>4. HeldOK(t)'
  BY <1>1, OwnHeld
<1>5. ReplayKept(t)'
  <2>1. SUFFICES ASSUME Replayed(t)'
                 PROVE  (\/ RecordOf(req[t].user, req[t].key, req[t], 1)
                         \/ ops[req[t].user][req[t].key] = None)'
    BY DEF ReplayKept
  <2>2. /\ UNCHANGED ops /\ req'[t] = req[t]
        /\ Replayed(t) \/ RecordOf(req[t].user, req[t].key, req[t], 1)
    BY <1>1, <2>1, NewReplay DEF db
  <2>3. QED
    BY <1>1, <2>2 DEF ReplayKept, RecordOf
<1>6. ASSUME NEW ps \in SUBSET Txs, \A s \in ps : Replayed(s)',
             \A s \in ps : \E q \in ps : Follows(q, s)'
      PROVE  ps = {}
  <2>1. CASE t \notin ps \/ Replayed(t)
    <3>1. t \in ps => req'[t] = req[t]
      BY <1>1, <1>6, NewReplay
    <3>2. \A s \in ps : Replayed(s) /\ req'[s] = req[s]
      BY <1>3, <1>6, <2>1, <3>1
    <3>3. QED
      BY <1>1, <1>6, <3>2, SameReplays
  <2>2. CASE t \in ps /\ ~Replayed(t)
    <3>1. /\ UNCHANGED db /\ req'[t] = req[t]
          /\ RecordOf(req[t].user, req[t].key, req[t], 1)
      BY <1>1, <1>6, <2>2, NewReplay
    <3>2. TypeOK' /\ TxOK(t)' /\ Replayed(t)'
      BY <1>6, <2>2 DEF IndInv, TxInv
    <3>3. /\ req[t] \in Requests /\ req[t].kind = "transfer" /\ req[t].user # req[t].to
          /\ req[t].user \in Users /\ req[t].to \in Users /\ req[t].key \in Keys
      <4>1. req'[t] \in Requests /\ req'[t].kind = "transfer" /\ req'[t].user # req'[t].to
        BY <3>2 DEF Replayed, Running, TypeOK, TxOK, LegOK, LegCount
      <4>2. QED
        BY <3>1, <4>1, RequestFields
    <3>4. /\ ops[req[t].to][req[t].key] # None
          /\ ops[req[t].to][req[t].key].type # "withdrawal"
      BY <1>1, <3>1, <3>3 DEF TransferWhole, RecordOf, LegPeer, LegType
    <3>5. PICK s \in ps : Follows(s, t)'
      BY <1>6, <2>2
    <3>6. /\ s \in Txs /\ s # t /\ Replayed(s)
          /\ req[s].user = req[t].to /\ req[s].key = req[t].key
      BY <1>3, <1>6, <3>1, <3>3, <3>5 DEF Follows
    <3>7. TxOK(s) /\ ReplayKept(s)
      BY <1>1, <3>6 DEF TxInv, WaitInv
    <3>8. LegType(req[s], 1) = "withdrawal"
      BY <1>1, <3>6, <3>7, ReplayedFields
    <3>9. QED
      BY <3>4, <3>6, <3>7, <3>8 DEF ReplayKept, RecordOf
  <2>3. QED
    BY <2>1, <2>2
<1>7. NoReplayCircle'
  BY <1>6 DEF NoReplayCircle
<1>8. QED
  BY <1>3, <1>4, <1>5, <1>7 DEF WaitInv

LEMMA StepWait ==
    ASSUME CanonicalRequests, IndInv, IndInv', WaitInv, [Next]_vars
    PROVE  WaitInv'
<1>1. TypeOK /\ TxInv
  BY DEF IndInv
<1>2. CASE \E t \in Txs : Moves(t)
  BY <1>2, MovesWait
<1>3. CASE ResetMoves
  <2>1. NobodyRises /\ UNCHANGED ops
    BY <1>3
    DEF ResetMoves, ResetStep, ResetBegin, ResetReach, ResetRow, ResetCommit, ResetAbort,
        NobodyRises, Live, db
  <2>2. QED
    BY <1>1, <1>3, <2>1, ResetUndisturbed, ResetTakesNothing, OutsideWait
<1>4. ASSUME NEW u \in Deletable, SoftDelete(u) \/ HardDelete(u) PROVE WaitInv'
  <2>1. UNCHANGED <<locks, tx>>
    BY <1>4 DEF SoftDelete, HardDelete
  <2>2. \A s \in Txs : Undisturbed(s) /\ TakesNothing(s)
    BY <2>1 DEF Undisturbed, TakesNothing, locks, tx
  <2>3. NobodyRises
    BY <1>1, <1>4 DEF SoftDelete, HardDelete, NobodyRises, Live, TypeOK
  <2>4. \A v \in Users, k \in Keys : ops'[v][k] = ops[v][k] \/ ops'[v][k] = None
    BY <1>4 DEF SoftDelete, HardDelete
  <2>5. QED
    BY <1>1, <2>2, <2>3, <2>4, OutsideWait
<1>5. ASSUME NEW p \in Procs, DetectDeadlock(p) PROVE WaitInv'
  BY <1>2, <1>3, <1>5 DEF DetectDeadlock, Procs, Moves, ResetMoves
<1>6. CASE UNCHANGED vars
  <2>1. \A s \in Txs : Undisturbed(s) /\ TakesNothing(s)
    BY <1>6 DEF Undisturbed, TakesNothing, vars, locks, tx
  <2>2. NobodyRises /\ UNCHANGED ops
    BY <1>6 DEF NobodyRises, Live, vars, db
  <2>3. QED
    BY <1>1, <2>1, <2>2, OutsideWait
<1>7. QED
  BY <1>2, <1>3, <1>4, <1>5, <1>6 DEF Next, Moves, ResetMoves

LEMMA WaitInductive == ASSUME CanonicalRequests PROVE Spec => [](IndInv /\ WaitInv)
<1>1. Init => IndInv /\ WaitInv
  BY InitInd, InitWait
<1>2. IndInv /\ WaitInv /\ [Next]_vars => (IndInv /\ WaitInv)'
  BY StepInd, StepWait
<1>3. QED
  BY <1>1, <1>2, PTL DEF Spec

-----------------------------------------------------------------------------
(* Deadlocks.                                                              *)

(* A waiting transaction waits for the holder of the lock it is about to take. *)
LEMMA WaitShape ==
    ASSUME TypeOK, NEW t \in Txs, NEW p \in Txs, WaitsFor(t) = p
    PROVE  /\ p # t /\ req[t] \in Requests /\ leg[t] \in {1, 2}
           /\ \/ /\ pc[t] \in {"lockFirst", "lockSecond"}
                 /\ UserToLock(t) \in Users /\ rowLock[UserToLock(t)] = p
              \/ pc[t] = "advisory" /\ advLock[Lock(req[t], leg[t])] = p
              \/ /\ pc[t] = "change" /\ Live(User(t))
                 /\ User(t) \in Users /\ rowLock[User(t)] = p
<1>1. p # None /\ t # ResetJob
  BY ProcessAssumption
<1>2. /\ pc[t] \in {"lockFirst", "lockSecond", "advisory", "change"}
      /\ req[t] \in Requests /\ leg[t] \in {1, 2}
  BY <1>1 DEF WaitsFor, TypeOK
<1>3. CASE pc[t] \in {"lockFirst", "lockSecond"}
  <2>1. UserToLock(t) \in Users
    BY <1>2, RequestFields DEF UserToLock, LockOrder
  <2>2. p = Blocker(rowLock[UserToLock(t)], t)
    BY <1>1, <1>3 DEF WaitsFor
  <2>3. QED
    BY <1>1, <1>2, <1>3, <2>1, <2>2 DEF Blocker, FreeFor
<1>4. CASE pc[t] = "advisory"
  <2>1. p = Blocker(advLock[Lock(req[t], leg[t])], t)
    BY <1>1, <1>4 DEF WaitsFor
  <2>2. QED
    BY <1>1, <1>2, <1>4, <2>1 DEF Blocker, FreeFor
<1>5. CASE pc[t] = "change"
  <2>1. p = Blocker(rowLock[User(t)], t) /\ Matches(t)
    BY <1>1, <1>5 DEF WaitsFor
  <2>2. QED
    BY <1>1, <1>2, <1>5, <2>1, TxFields DEF Blocker, FreeFor, Matches
<1>6. QED
  BY <1>2, <1>3, <1>4, <1>5

LEMMA CycleMember ==
    ASSUME NEW ps \in SUBSET Txs, Cycle(ps), NEW t \in ps
    PROVE  /\ t \in Txs /\ WaitsFor(t) \in ps
           /\ \E q \in ps : WaitsFor(q) = t
BY DEF Cycle

(* Without collisions, one lock is one key of one user.                    *)
LEMMA LockIsKey ==
    ASSUME CollisionFree, NEW r1 \in Requests, NEW r2 \in Requests, NEW i \in {1, 2},
           NEW j \in {1, 2}, Lock(r1, i) = Lock(r2, j)
    PROVE  LegUser(r1, i) = LegUser(r2, j) /\ r1.key = r2.key
<1>1. LockText(r1, i) = LockText(r2, j)
  BY LockTextAssumption DEF Lock, CollisionFree
<1>2. QED
  BY <1>1 DEF LockText

(* A transfer that has come to change a balance waits for no row of a user. *)
LEMMA TransferChanges ==
    ASSUME IndInv, WaitInv, NEW t \in Txs, NEW p \in Txs, WaitsFor(t) = p, pc[t] = "change"
    PROVE  req[t].kind # "transfer"
<1>1. /\ p # t /\ req[t] \in Requests /\ leg[t] \in {1, 2}
      /\ Live(User(t)) /\ rowLock[User(t)] = p
  BY WaitShape DEF IndInv
<1>2. User(t) \in {req[t].user, req[t].to}
  BY DEF User, LegUser
<1>3. HeldOK(t)
  BY DEF WaitInv
<1>4. QED
  BY <1>1, <1>2, <1>3 DEF HeldOK, UsersLocked, Running

(* Whoever has the lock another waits for needs it.                        *)
LEMMA Blocking ==
    ASSUME IndInv, WaitInv, NEW t \in Txs, NEW p \in Txs, WaitsFor(t) = p
    PROVE  /\ pc[t] = "advisory" =>
                \E i \in {1, 2} : LegLocked(p, i) /\ Lock(req[t], leg[t]) = Lock(req[p], i)
           /\ pc[t] # "advisory" =>
                /\ Running(p) /\ pc[p] # "lockFirst"
                /\ req[p].kind # "transfer" => pc[p] \in {"save", "commit"}
           /\ pc[t] \in {"lockFirst", "lockSecond"} /\ pc[p] = "lockSecond" =>
                UserToLock(t) = LockOrder(req[p])[1]
<1>1. TypeOK /\ KeysNeeded(p) /\ RowsNeeded(p)
  BY DEF IndInv, WaitInv, HeldOK
<1>2. pc[t] = "advisory" => advLock[Lock(req[t], leg[t])] = p /\ Lock(req[t], leg[t]) \in Hashes
  BY <1>1, WaitShape, LegFields
<1>3. QED
  BY <1>1, <1>2, WaitShape DEF KeysNeeded, RowsNeeded

LEMMA Less == OpToRel(<, Nat) = {p \in Nat \X Nat : p[1] < p[2]}
BY DEF OpToRel

LEMMA Least == ASSUME NEW S \in SUBSET Nat, S # {} PROVE \E m \in S : \A k \in S : m <= k
<1> DEFINE R == {p \in Nat \X Nat : p[1] < p[2]}
<1>1. IsWellFoundedOn(R, Nat)
  BY Zenon, Less, NatLessThanWellFounded
<1>2. PICK m \in S : \A k \in S : ~(<<k, m>> \in R)
  BY <1>1, WFMin
<1>3. \A k \in S : ~(k < m)
  BY <1>2
<1>4. QED
  BY <1>3

(* Of transfers that wait for their second user, the one whose second user *)
(* comes first in the order of the ids makes no other of them wait.        *)
LEMMA SecondsAreOrdered ==
    ASSUME IndInv, WaitInv, NEW ts \in SUBSET Txs, ts # {}, \A t \in ts : pc[t] = "lockSecond"
    PROVE  \E t \in ts : \A q \in ts : WaitsFor(q) # t
<1>1. ASSUME NEW t \in ts
      PROVE  /\ UserToLock(t) = LockOrder(req[t])[2]
             /\ UserToLock(t) \in Nat /\ LockOrder(req[t])[1] \in Nat
             /\ LockOrder(req[t])[1] < UserToLock(t)
  <2>1. pc[t] = "lockSecond" /\ TypeOK /\ TxOK(t) /\ HeldOK(t) /\ t \in Txs
    BY <1>1 DEF IndInv, WaitInv, TxInv
  <2>2. /\ req[t] \in Requests /\ req[t].user # req[t].to
        /\ req[t].user \in Nat /\ req[t].to \in Nat
    BY <2>1, RequestFields, UsersAssumption
    DEF TypeOK, TxOK, LegOK, HeldOK, UsersLocked, Running
  <2>3. QED
    BY <2>1, <2>2 DEF UserToLock, LockOrder
<1>2. PICK t \in ts : \A q \in ts : UserToLock(t) <= UserToLock(q)
  <2> DEFINE us == {UserToLock(t) : t \in ts}
  <2>1. us \in SUBSET Nat /\ us # {}
    BY <1>1
  <2>2. PICK m \in us : \A k \in us : m <= k
    <3> HIDE DEF us
    <3> QED BY <2>1, Least
  <2>3. QED
    BY <2>2
<1>3. ASSUME NEW q \in ts, WaitsFor(q) = t PROVE FALSE
  <2>1. UserToLock(q) = LockOrder(req[t])[1]
    BY <1>3, Blocking
  <2>2. QED
    BY <1>1, <1>2, <2>1
<1>4. QED
  BY <1>3

(* Row locks alone make no circle: an idempotency lock is part of each.    *)
LEMMA CycleHasKey ==
    ASSUME IndInv, WaitInv, NEW ps \in SUBSET Txs, Cycle(ps)
    PROVE  \E t \in ps : pc[t] = "advisory"
<1>1. SUFFICES ASSUME \A t \in ps : pc[t] # "advisory" PROVE FALSE
  OBVIOUS
<1>2. ASSUME NEW t \in ps PROVE pc[t] = "lockSecond"
  <2>1. PICK q \in ps : WaitsFor(q) = t
    BY <1>2, CycleMember
  <2>2. /\ pc[t] # "lockFirst"
        /\ req[t].kind # "transfer" => pc[t] \in {"save", "commit"}
    BY <1>1, <2>1, Blocking
  <2>3. WaitsFor(t) \in Txs
    BY <1>2, CycleMember
  <2>4. pc[t] \in {"lockSecond", "change"}
    BY <1>1, <2>2, <2>3, WaitShape DEF IndInv
  <2>5. QED
    BY <2>2, <2>3, <2>4, TransferChanges
<1>3. PICK t \in ps : \A q \in ps : WaitsFor(q) # t
  BY <1>2, SecondsAreOrdered DEF Cycle
<1>4. QED
  BY <1>3, CycleMember

(* Among requests, a deadlock takes two that share an idempotency key, if  *)
(* no two keys have the same hash: the one locks its row before its key,   *)
(* the other its key before its row.                                       *)
THEOREM DeadlocksShareAKey ==
    ASSUME CanonicalRequests, CollisionFree PROVE Spec => []DeadlockNeedsSharedKey
<1>1. ASSUME IndInv, WaitInv PROVE DeadlockNeedsSharedKey
  <2> SUFFICES ASSUME NEW ps \in SUBSET Txs, Cycle(ps)
               PROVE  \E t1, t2 \in ps : t1 # t2 /\ req[t1].key = req[t2].key
    BY DEF DeadlockNeedsSharedKey
  <2>1. PICK t \in ps : pc[t] = "advisory"
    BY <1>1, CycleHasKey
  <2>2. PICK p \in ps : WaitsFor(t) = p
    BY CycleMember
  <2>3. /\ p # t /\ req[t] \in Requests /\ leg[t] \in {1, 2}
        /\ \E i \in {1, 2} : LegLocked(p, i) /\ Lock(req[t], leg[t]) = Lock(req[p], i)
    BY <1>1, <2>1, <2>2, WaitShape, Blocking DEF IndInv
  <2>4. req[p] \in Requests
    BY <1>1, <2>3 DEF IndInv, TypeOK, LegLocked, Running
  <2>5. req[t].key = req[p].key
    BY <2>3, <2>4, LockIsKey
  <2>6. QED
    BY <2>3, <2>5
<1>2. QED
  BY <1>1, WaitInductive, PTL

(* In a circle of transfers each waits for the key of its recipient, which *)
(* the next one has as the key of its sender, and changes no balance.      *)
LEMMA TransferCircle ==
    ASSUME CollisionFree, IndInv, WaitInv, NEW ps \in SUBSET Txs, Cycle(ps),
           \A t \in ps : req[t].kind = "transfer"
    PROVE  \A t \in ps : Replayed(t) /\ \E s \in ps : Follows(s, t)
<1>1. ASSUME NEW t \in ps
      PROVE  /\ t \in Txs /\ TxOK(t) /\ HeldOK(t) /\ req[t] \in Requests
             /\ pc[t] \in {"lockSecond", "advisory"}
  <2>1. t \in Txs /\ TypeOK /\ TxOK(t) /\ HeldOK(t) /\ WaitsFor(t) \in Txs
    BY <1>1, CycleMember DEF IndInv, TxInv, WaitInv
  <2>2. /\ req[t] \in Requests
        /\ pc[t] \in {"lockFirst", "lockSecond", "advisory", "change"}
    BY <2>1, WaitShape
  <2>3. pc[t] # "change"
    BY <2>1, TransferChanges
  <2>4. pc[t] # "lockFirst"
    <3>1. PICK q \in ps : WaitsFor(q) = t
      BY <1>1, CycleMember
    <3>2. SUFFICES ASSUME pc[t] = "lockFirst" PROVE FALSE
      OBVIOUS
    <3>3. \A i \in {1, 2} : ~LegLocked(t, i)
      BY <2>1, <3>2 DEF TxOK, LegOK, LegLocked
    <3>4. QED
      BY <2>1, <3>1, <3>2, <3>3, Blocking
  <2>5. QED
    BY <2>1, <2>2, <2>3, <2>4
<1>2. \A t \in ps : pc[t] = "advisory"
  <2> DEFINE ts == {t \in ps : pc[t] = "lockSecond"}
  <2>1. SUFFICES ASSUME ts # {} PROVE FALSE
    BY <1>1
  <2>2. PICK t \in ts : \A q \in ts : WaitsFor(q) # t
    BY <2>1, SecondsAreOrdered
  <2>3. PICK q \in ps : WaitsFor(q) = t
    BY <2>2, CycleMember
  <2>4. pc[q] = "advisory"
    BY <1>1, <2>2, <2>3
  <2>5. \E i \in {1, 2} : LegLocked(t, i)
    BY <2>2, <2>3, <2>4, Blocking
  <2>6. QED
    BY <1>1, <2>2, <2>5 DEF TxOK, LegOK, LegLocked
<1>3. ASSUME NEW t \in ps PROVE leg[t] = 2
  <2>1. PICK q \in ps : WaitsFor(q) = t
    BY <1>3, CycleMember
  <2>2. PICK i \in {1, 2} : LegLocked(t, i)
    BY <1>2, <2>1, Blocking
  <2>3. leg[t] \in {1, 2}
    BY DEF IndInv, TypeOK
  <2>4. QED
    BY <1>2, <2>2, <2>3 DEF LegLocked
<1>4. ASSUME NEW t \in ps, NEW s \in ps, WaitsFor(t) = s
      PROVE  Follows(s, t) /\ Replayed(s)
  <2>1. s # t /\ req[t] \in Requests /\ req[s] \in Requests
    BY <1>1, <1>4, WaitShape DEF IndInv
  <2>2. PICK i \in {1, 2} : LegLocked(s, i) /\ Lock(req[t], 2) = Lock(req[s], i)
    BY <1>2, <1>3, <1>4, Blocking
  <2>3. i = 1
    BY <1>2, <1>3, <2>2 DEF LegLocked
  <2>4. Follows(s, t)
    BY <2>1, <2>2, <2>3, LockIsKey DEF Follows, LegUser
  <2>5. newOps[s][req[s].user] = None
    <3>1. SUFFICES ASSUME newOps[s][req[s].user] # None PROVE FALSE
      OBVIOUS
    <3>2. req[s].user \in Users /\ req[s].user = req[t].to
      BY <2>1, <2>4, RequestFields DEF Follows
    <3>3. rowLock[req[s].user] = s
      BY <1>1, <3>1, <3>2 DEF TxOK, WriteOK
    <3>4. Live(req[t].to)
      BY <1>1, <3>2, <3>3, ProcessAssumption DEF IndInv, RowsLive
    <3>5. rowLock[req[t].to] = t
      BY <1>1, <1>2, <3>4 DEF HeldOK, UsersLocked, Running
    <3>6. QED
      BY <2>1, <3>2, <3>3, <3>5
  <2>6. QED
    BY <1>2, <1>3, <2>4, <2>5 DEF Replayed, Running
<1>5. QED
  BY <1>4, CycleMember

(* Transfers, whatever their directions, keys and users, never wait for    *)
(* one another in a circle, if no two keys have the same hash.             *)
THEOREM TransfersDoNotDeadlock ==
    ASSUME CanonicalRequests, CollisionFree PROVE Spec => []TransfersNeverDeadlock
<1>1. ASSUME IndInv, WaitInv PROVE TransfersNeverDeadlock
  <2> SUFFICES ASSUME NEW ps \in SUBSET Txs, Cycle(ps), \A t \in ps : req[t].kind = "transfer"
               PROVE  FALSE
    BY DEF TransfersNeverDeadlock
  <2>1. \A t \in ps : Replayed(t) /\ \E s \in ps : Follows(s, t)
    BY <1>1, TransferCircle
  <2>2. ps = {}
    BY <1>1, <2>1 DEF WaitInv, NoReplayCircle
  <2>3. QED
    BY <2>2 DEF Cycle
<1>2. QED
  BY <1>1, WaitInductive, PTL
=============================================================================
