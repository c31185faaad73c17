----------------------- MODULE BalanceAnswersProofs -------------------------
(***************************************************************************)
(* Theorems about what Balance answers: on top of the invariant of         *)
(* BalanceProofs, that answers are in the ledger and agree.                *)
(***************************************************************************)
EXTENDS BalanceProofs, FiniteSetTheorems

(* The answer of one transaction. *)
Tells(t, r, b) == Settled(t) /\ req[t] = r /\ reply[t].balance = b

LEMMA ToldBy ==
    ASSUME NEW r \in Requests, NEW b
    PROVE  Told(r, b) <=> b \in answers[r] \/ \E t \in Txs : Tells(t, r, b)
BY DEF Told, Tells

-----------------------------------------------------------------------------
(* Where a new answer comes from.                                          *)

(* An operation a lookup finds keeps the parties to its request alive.     *)
LEMMA LookupFinds ==
    ASSUME CanonicalRequests, IndInv, NEW t \in Txs, pc[t] = "lookup", leg[t] = 1,
           ops[User(t)][Key(t)] # None, SamePayload(ops[User(t)][Key(t)], req[t], 1)
    PROVE  ~Gone(req[t]) /\ InLedger(req[t], ops[User(t)][Key(t)].result)
<1>1. /\ req[t] \in Requests /\ User(t) \in Users /\ Key(t) \in Keys
      /\ User(t) = req[t].user /\ Key(t) = req[t].key
  BY TxFields DEF IndInv, User, Key, LegUser
<1>2. RecordOf(req[t].user, req[t].key, req[t], 1)
  BY <1>1 DEF SamePayload, RecordOf
<1>3. ops[User(t)][Key(t)].peer = req[t].to
  BY <1>1, <1>2 DEF RecordOf, LegPeer
<1>4. QED
  BY <1>1, <1>2, <1>3 DEF IndInv, ForeignKeys, Gone, InLedger

(* The step of a transaction leaves its answer as it is, or gives it one   *)
(* that the ledger has from now on; only a commit changes the ledger.      *)
Fresh(t) ==
    /\ ~Gone(req[t]) /\ InLedger(req[t], reply[t].balance)
    /\ req[t] \in Requests
    /\ req[t].kind = "transfer" => req[t].user # req[t].to

Same(t) == Settled(t) /\ req'[t] = req[t] /\ reply'[t] = reply[t]

PendingOf(t) ==
    FirstLegOver(t) /\ newOps[t][req[t].user] # None =>
        newOps[t][req[t].user].result = reply[t].balance

(* A transaction that has failed, ended or not yet finished a leg has no   *)
(* answer.                                                                 *)
LEMMA NoAnswerYet ==
    ASSUME NEW t \in Txs,
           \/ pc'[t] = "idle"
           \/ pc'[t] = "reply" /\ reply'[t].code # "ok"
           \/ pc'[t] \notin {"idle", "reply", "commit"} /\ leg'[t] = 1
    PROVE  ~Settled(t)' /\ ~FirstLegOver(t)'
BY DEF Settled, FirstLegOver, Running

LEMMA FailAnswer ==
    ASSUME TypeOK, NEW t \in Txs, NEW code \in Codes, code # "ok", Fail(t, code)
    PROVE  ~Settled(t)' /\ ~FirstLegOver(t)'
<1>1. pc'[t] = "reply" /\ reply'[t].code = code
  BY DEF Fail, TypeOK
<1>2. QED
  BY <1>1, NoAnswerYet

(* The own steps of a transaction that leave its answer open, or as it is. *)
LEMMA QuietSteps ==
    ASSUME CanonicalRequests, IndInv, NEW t \in Txs,
           \/ \E r \in Requests : Begin(t, r)
           \/ LockUser(t) \/ Acquire(t) \/ Change(t) \/ Reject(t)
           \/ Respond(t) \/ Crash(t) \/ Fail(t, "serverError")
    PROVE  /\ Settled(t)' => Same(t)
           /\ PendingOf(t) => PendingOf(t)'
<1> USE DEF IndInv
<1>0. TypeOK /\ TxOK(t)
  BY DEF TxInv
<1>1. CASE \E r \in Requests : Begin(t, r)
  <2>1. PICK r \in Requests : Begin(t, r)
    BY <1>1
  <2>2. pc[t] = "idle" /\ leg'[t] = 1
    BY <1>0, <2>1 DEF Begin, TxOK, LegOK
  <2>3. \/ pc'[t] = "reply" /\ reply'[t].code # "ok"
        \/ pc'[t] \in {"lockFirst", "advisory"}
    BY <1>0, <2>1 DEF Begin, TypeOK
  <2>4. QED
    BY <2>2, <2>3, NoAnswerYet DEF PendingOf
<1>2. CASE LockUser(t)
  <2>1. pc'[t] \in {"lockSecond", "advisory"} /\ leg'[t] = 1
    BY <1>0, <1>2 DEF LockUser, TypeOK, TxOK, LegOK
  <2>2. QED
    BY <2>1, NoAnswerYet DEF PendingOf
<1>3. CASE Acquire(t)
  <2>1. /\ pc[t] = "advisory" /\ pc'[t] = "lookup"
        /\ UNCHANGED <<req, leg, reply, newOps>>
    BY <1>0, <1>3 DEF Acquire, TypeOK
  <2>2. QED
    BY <2>1 DEF Settled, FirstLegOver, Running, Same, PendingOf
<1>4. CASE Change(t)
  <2>1. CASE Fail(t, "serverError")
    BY <1>0, <2>1, FailAnswer DEF Codes, PendingOf
  <2>2. CASE pc[t] = "change" /\ pc' = [pc EXCEPT ![t] = "save"]
             /\ UNCHANGED <<req, leg, reply, newOps>>
    <3>1. pc'[t] = "save"
      BY <1>0, <2>2 DEF TypeOK
    <3>2. QED
      BY <2>2, <3>1 DEF Settled, FirstLegOver, Running, Same, PendingOf
  <2>3. QED
    BY <1>4, <2>1, <2>2 DEF Change
<1>5. CASE Reject(t)
  <2>1. PICK code \in {"notFound", "badRequest"} : Fail(t, code)
    BY <1>5 DEF Reject
  <2>2. QED
    BY <1>0, <2>1, FailAnswer DEF Codes, PendingOf
<1>6. CASE Respond(t) \/ Crash(t)
  <2>1. pc'[t] = "idle"
    BY <1>0, <1>6 DEF Respond, Crash, Forget, TypeOK
  <2>2. QED
    BY <2>1, NoAnswerYet DEF PendingOf
<1>7. CASE Fail(t, "serverError")
  BY <1>0, <1>7, FailAnswer DEF Codes, PendingOf
<1>8. QED
  BY <1>1, <1>2, <1>3, <1>4, <1>5, <1>6, <1>7

LEMMA LookupAnswer ==
    ASSUME CanonicalRequests, IndInv, NEW t \in Txs, Lookup(t)
    PROVE  /\ Settled(t)' => Same(t) \/ Fresh(t)'
           /\ PendingOf(t) => PendingOf(t)'
<1> USE DEF db
<1>1. /\ TypeOK /\ TxOK(t) /\ pc[t] = "lookup" /\ Running(t)
      /\ req[t] \in Requests /\ leg[t] \in {1, 2} /\ User(t) \in Users
      /\ OpSeen(t, User(t)) = ops[User(t)][Key(t)] /\ newOps[t][User(t)] = None
  BY TxFields, NotWrittenYet DEF IndInv, TxInv, Lookup, OpSeen, Running
<1>2. CASE /\ pc' = [pc EXCEPT ![t] = "change"]
           /\ UNCHANGED <<db, locks, req, leg, reply, wrote, newOps, reset, history>>
  <2>1. pc'[t] = "change"
    BY <1>1, <1>2 DEF TypeOK
  <2>2. QED
    BY <1>1, <1>2, <2>1 DEF Settled, FirstLegOver, Running, Same, PendingOf
<1>3. CASE /\ ops[User(t)][Key(t)] # None
           /\ SamePayload(ops[User(t)][Key(t)], req[t], leg[t])
           /\ RecordResult(t, ops[User(t)][Key(t)].result) /\ NextLeg(t)
           /\ UNCHANGED <<db, locks, req, wrote, newOps, reset, history>>
  <2>1. CASE leg[t] = 1
    <3>1. reply'[t].balance = ops[User(t)][Key(t)].result
      BY <1>1, <1>3, <2>1 DEF RecordResult, TypeOK
    <3>2. ~Gone(req[t]) /\ InLedger(req[t], ops[User(t)][Key(t)].result)
      BY <1>1, <1>3, <2>1, LookupFinds
    <3>3. req[t].kind = "transfer" => req[t].user # req[t].to
      BY <1>1 DEF TxOK, LegOK
    <3>4. Fresh(t)'
      BY <1>1, <1>3, <3>1, <3>2, <3>3 DEF Fresh, Gone, InLedger, RecordOf
    <3>5. newOps'[t][req'[t].user] = None
      BY <1>1, <1>3, <2>1 DEF User, LegUser
    <3>6. QED
      BY <3>4, <3>5 DEF PendingOf
  <2>2. CASE leg[t] = 2
    <3>1. reply' = reply /\ pc'[t] = "commit" /\ leg'[t] = leg[t]
      BY <1>1, <1>3, <2>2 DEF RecordResult, NextLeg, LegCount, TypeOK
    <3>2. QED
      BY <1>1, <1>3, <2>2, <3>1 DEF Settled, FirstLegOver, Running, Same, PendingOf
  <2>3. QED
    BY <1>1, <2>1, <2>2
<1>4. CASE Fail(t, "conflict")
  BY <1>1, <1>4, FailAnswer DEF Codes, PendingOf
<1>5. QED
  BY <1>1, <1>2, <1>3, <1>4 DEF Lookup

LEMMA SaveAnswer ==
    ASSUME CanonicalRequests, IndInv, NEW t \in Txs, Save(t)
    PROVE  /\ Settled(t)' => Same(t)
           /\ PendingOf(t) => PendingOf(t)'
<1>1. /\ TypeOK /\ TxOK(t) /\ pc[t] = "save" /\ Running(t)
      /\ req[t] \in Requests /\ leg[t] \in {1, 2} /\ User(t) \in Users
      /\ wrote[t][User(t)] \in Amount
  BY TxFields DEF IndInv, TxInv, Save, Running, TypeOK, TxOK, WriteOK
<1>2. CASE Fail(t, "serverError")
  BY <1>1, <1>2, FailAnswer DEF Codes, PendingOf
<1>3. CASE /\ newOps' = [newOps EXCEPT ![t][User(t)] =
                            NewOp(req[t], leg[t], wrote[t][User(t)])]
           /\ RecordResult(t, wrote[t][User(t)]) /\ NextLeg(t)
           /\ UNCHANGED <<db, locks, req, wrote, reset, history>>
  <2>1. /\ newOps'[t][User(t)] = NewOp(req[t], leg[t], wrote[t][User(t)])
        /\ newOps'[t][User(t)] # None
    BY <1>1, <1>3, LegFields, NoneAssumption DEF TypeOK
  <2>2. CASE leg[t] = 1
    <3>1. User(t) = req[t].user /\ reply'[t].balance = wrote[t][User(t)]
      BY <1>1, <1>3, <2>2 DEF RecordResult, TypeOK, User, LegUser
    <3>2. pc'[t] # "reply"
      BY <1>1, <1>3 DEF NextLeg, TypeOK
    <3>3. QED
      BY <1>3, <2>1, <3>1, <3>2 DEF Settled, PendingOf, NewOp
  <2>3. CASE leg[t] = 2
    <3>1. reply' = reply /\ pc'[t] = "commit" /\ leg'[t] = leg[t]
      BY <1>1, <1>3, <2>3 DEF RecordResult, NextLeg, LegCount, TypeOK
    <3>2. User(t) = req[t].to /\ req[t].user # req[t].to /\ req[t].user \in Users
      BY <1>1, <2>3, RequestFields DEF TxOK, LegOK, LegCount, User, LegUser
    <3>3. newOps'[t][req[t].user] = newOps[t][req[t].user]
      BY <1>1, <1>3, <3>2 DEF TypeOK
    <3>4. QED
      BY <1>1, <1>3, <2>3, <3>1, <3>3 DEF Settled, FirstLegOver, Running, Same, PendingOf
  <2>4. QED
    BY <1>1, <2>2, <2>3
<1>4. QED
  BY <1>2, <1>3 DEF Save

LEMMA CommitAnswer ==
    ASSUME IndInv, NEW t \in Txs, Commit(t), PendingOf(t)
    PROVE  /\ Settled(t)' => Same(t) \/ Fresh(t)'
           /\ PendingOf(t)'
<1> DEFINE r == req[t]
<1>1. /\ TypeOK /\ TxOK(t) /\ RowsLive /\ pc[t] = "commit" /\ pc'[t] = "reply"
      /\ r \in Requests /\ r.user \in Users /\ r.key \in Keys /\ r.key = Key(t)
      /\ UNCHANGED <<status, req, leg, reply>>
  BY RequestFields DEF IndInv, TxInv, Commit, TypeOK, Key
<1>2. PendingOf(t)'
  BY <1>1 DEF PendingOf, FirstLegOver, Running
<1>3. CASE newOps[t][r.user] = None
  BY <1>1, <1>2, <1>3 DEF Settled, FirstLegOver, Running, Same
<1>4. CASE newOps[t][r.user] # None
  <2>1. ~Gone(r)
    BY <1>1, <1>4, CommitShape DEF Nothing
  <2>2. r.kind = "transfer" => r.user # r.to
    BY <1>1 DEF TxOK, LegOK, Running
  <2>3. PICK i \in {1, 2} : /\ i <= LegCount(r) /\ r.user = LegUser(r, i)
                            /\ newOps[t][r.user] = NewOp(r, i, wrote[t][r.user])
    BY <1>1, <1>4, CommitRow
  <2>4. i = 1
    BY <2>2, <2>3 DEF LegUser, LegCount
  <2>5. newOps[t][r.user].result = reply[t].balance
    BY <1>1, <1>4 DEF PendingOf, FirstLegOver, Running
  <2>6. ops'[r.user][r.key] = newOps[t][r.user]
    BY <1>1, <1>4 DEF Commit
  <2>7. InLedger(r, reply[t].balance)'
    BY <1>1, <1>4, <2>3, <2>4, <2>5, <2>6 DEF InLedger, RecordOf, NewOp
  <2>8. QED
    BY <1>1, <1>2, <2>1, <2>2, <2>7 DEF Fresh, Gone
<1>5. QED
  BY <1>2, <1>3, <1>4

-----------------------------------------------------------------------------
(* What the ledger has, it keeps.                                          *)

LEMMA LedgerKeeps ==
    ASSUME IndInv, NEW r \in Requests, NEW b, InLedger(r, b),
           \/ \E t \in Txs : Moves(t)
           \/ ResetMoves
           \/ \E u \in Users : SoftDelete(u) \/ HardDelete(u)
    PROVE  InLedger(r, b)'
<1>1. r.user \in Users /\ r.to \in Users /\ r.key \in Keys
  BY RequestFields
<1>2. ASSUME UNCHANGED <<ops, status>> PROVE InLedger(r, b)'
  BY <1>2 DEF InLedger, RecordOf, Gone
<1>3. ASSUME NEW t \in Txs, Moves(t) PROVE InLedger(r, b)'
  <2>1. CASE Commit(t)
    <3>1. TypeOK /\ TxOK(t) /\ RowsLive /\ UNCHANGED status
      BY <2>1 DEF IndInv, TxInv, Commit
    <3>2. ops[r.user][r.key] # None => ops'[r.user][r.key] = ops[r.user][r.key]
      BY <1>1, <2>1, <3>1, CommitAdds
    <3>3. QED
      BY <3>1, <3>2 DEF InLedger, RecordOf, Gone
  <2>2. CASE ~Commit(t)
    <3>1. UNCHANGED <<ops, status>>
      BY <1>3, <2>2
      DEF Moves, TxStep, Begin, LockUser, Acquire, Lookup, Change, Reject, Save, Respond,
          Crash, Fail, db
    <3>2. QED
      BY <1>2, <3>1
  <2>3. QED
    BY <2>1, <2>2
<1>4. CASE ResetMoves
  <2>1. UNCHANGED <<ops, status>>
    BY <1>4 DEF ResetMoves, ResetStep, ResetBegin, ResetReach, ResetRow, ResetCommit,
                ResetAbort, db
  <2>2. QED
    BY <1>2, <2>1
<1>5. ASSUME NEW u \in Users, SoftDelete(u) PROVE InLedger(r, b)'
  <2>1. UNCHANGED ops /\ \A v \in Users : status'[v] = "absent" <=> status[v] = "absent"
    BY <1>5 DEF SoftDelete, IndInv, TypeOK, Live
  <2>2. QED
    BY <1>1, <2>1 DEF InLedger, RecordOf, Gone
<1>6. ASSUME NEW u \in Users, HardDelete(u) PROVE InLedger(r, b)'
  <2>1. \A v \in Users : status'[v] = IF v = u THEN "absent" ELSE status[v]
    BY <1>6 DEF HardDelete, IndInv, TypeOK
  <2>2. CASE Gone(r)
    BY <1>1, <2>1, <2>2 DEF InLedger, Gone
  <2>3. CASE r.user = u \/ r.to = u
    BY <1>1, <2>1, <2>3 DEF InLedger, Gone
  <2>4. CASE ~Gone(r) /\ r.user # u /\ r.to # u
    <3>1. ops[r.user][r.key] # None /\ ops[r.user][r.key].peer = r.to
      BY <2>4 DEF InLedger, RecordOf, LegPeer
    <3>2. ops'[r.user][r.key] = ops[r.user][r.key]
      BY <1>1, <1>6, <2>4, <3>1 DEF HardDelete
    <3>3. QED
      BY <2>4, <3>2 DEF InLedger, RecordOf
  <2>5. QED
    BY <2>2, <2>3, <2>4
<1>7. QED
  BY <1>3, <1>4, <1>5, <1>6

-----------------------------------------------------------------------------
(* The invariant is inductive.                                             *)

(* Only the transaction that moves changes its answer.                     *)
LEMMA OthersKeepAnswers ==
    ASSUME TypeOK, NEW t \in Txs, Moves(t), NEW s \in Txs, s # t
    PROVE  reply'[s] = reply[s]
BY DEF Moves, TypeOK, tx, TxStep, Begin, LockUser, Acquire, Lookup, Change, Reject,
       Save, Commit, Respond, Crash, Fail, NextLeg, Forget, RecordResult

LEMMA SameAnswer ==
    ASSUME NEW s \in Txs, pc'[s] = pc[s], req'[s] = req[s], leg'[s] = leg[s],
           newOps'[s] = newOps[s], reply'[s] = reply[s]
    PROVE  /\ Settled(s)' <=> Settled(s)
           /\ PendingOf(s) => PendingOf(s)'
BY DEF Settled, FirstLegOver, Running, PendingOf

LEMMA OwnAnswer ==
    ASSUME CanonicalRequests, IndInv, NEW t \in Txs, Moves(t), PendingOf(t)
    PROVE  (Settled(t)' => Same(t) \/ Fresh(t)') /\ PendingOf(t)'
BY QuietSteps, LookupAnswer, SaveAnswer, CommitAnswer DEF Moves, TxStep

(* Whatever is told after a step was told before it, or is fresh.          *)
FreshOf(r, b) ==
    /\ ~Gone(r) /\ InLedger(r, b)
    /\ r.kind = "transfer" => r.user # r.to

LEMMA MovesTell ==
    ASSUME CanonicalRequests, IndInv, PendingInv, NEW t \in Txs, Moves(t),
           NEW r \in Requests, NEW b, Told(r, b)'
    PROVE  Told(r, b) \/ FreshOf(r, b)'
<1>1. TypeOK /\ PendingOf(t)
  BY DEF IndInv, PendingInv, PendingOf
<1>2. CASE b \in answers'[r]
  <2>1. CASE b \in answers[r]
    BY <2>1 DEF Told
  <2>2. CASE b \notin answers[r]
    <3>1. Respond(t)
      BY <1>2, <2>2
      DEF Moves, TxStep, Begin, LockUser, Acquire, Lookup, Change, Reject, Save, Commit,
          Crash, Fail, history
    <3>2. pc[t] = "reply" /\ reply[t].code = "ok" /\ req[t] = r /\ reply[t].balance = b
      BY <1>1, <1>2, <2>2, <3>1 DEF Respond, TypeOK
    <3>3. QED
      BY <3>2 DEF Told, Settled
  <2>3. QED
    BY <2>1, <2>2
<1>3. ASSUME NEW s \in Txs, Settled(s)', req'[s] = r, reply'[s].balance = b
      PROVE  Told(r, b) \/ FreshOf(r, b)'
  <2>1. CASE s # t
    <3>1. Undisturbed(s) /\ reply'[s] = reply[s]
      BY <1>1, <2>1, OthersUndisturbed, OthersKeepAnswers
    <3>2. Settled(s) /\ req[s] = r /\ reply[s].balance = b
      BY <1>3, <3>1, SameAnswer DEF Undisturbed
    <3>3. QED
      BY <3>2 DEF Told
  <2>2. CASE s = t
    <3>1. Same(t) \/ Fresh(t)'
      BY <1>1, <1>3, <2>2, OwnAnswer
    <3>2. QED
      BY <1>3, <2>2, <3>1 DEF Same, Fresh, FreshOf, Told
  <2>3. QED
    BY <2>1, <2>2
<1>4. QED
  BY <1>2, <1>3 DEF Told

LEMMA MovesPending ==
    ASSUME CanonicalRequests, IndInv, PendingInv, NEW t \in Txs, Moves(t)
    PROVE  PendingInv'
<1>1. ASSUME NEW s \in Txs PROVE PendingOf(s)'
  <2>1. TypeOK /\ PendingOf(s)
    BY DEF IndInv, PendingInv, PendingOf
  <2>2. CASE s # t
    <3>1. Undisturbed(s) /\ reply'[s] = reply[s]
      BY <2>1, <2>2, OthersUndisturbed, OthersKeepAnswers
    <3>2. QED
      BY <2>1, <3>1, SameAnswer DEF Undisturbed
  <2>3. CASE s = t
    BY <2>1, <2>3, OwnAnswer
  <2>4. QED
    BY <2>2, <2>3
<1>2. QED
  BY <1>1 DEF PendingInv, PendingOf

(* What the ledger has of a request whose parties are there is one result. *)
LEMMA ToldStays ==
    ASSUME ToldInv,
           \A r \in Requests, b \in Amount : InLedger(r, b) => InLedger(r, b)',
           \A r \in Requests, b \in Amount : Told(r, b)' => Told(r, b) \/ FreshOf(r, b)'
    PROVE  ToldInv'
<1> SUFFICES ASSUME NEW r \in Requests, NEW b \in Amount, Told(r, b)'
             PROVE  /\ InLedger(r, b)'
                    /\ \A c \in Amount : Told(r, c)' => c = b
                    /\ r.kind = "transfer" => r.user # r.to
  BY DEF ToldInv
<1>1. \A c \in Amount : Told(r, c)' => InLedger(r, c)'
  BY DEF ToldInv, FreshOf
<1>2. r.kind = "transfer" => r.user # r.to
  BY DEF ToldInv, FreshOf
<1>3. ASSUME NEW c \in Amount, Told(r, c)' PROVE c = b
  <2>1. CASE Told(r, b) /\ Told(r, c)
    BY <2>1 DEF ToldInv
  <2>2. CASE ~Gone(r)'
    BY <1>1, <1>3, <2>2 DEF InLedger
  <2>3. QED
    BY <1>3, <2>1, <2>2 DEF FreshOf
<1>4. QED
  BY <1>1, <1>2, <1>3

(* The steps of the reset job and of deletion, and stuttering, tell nobody *)
(* anything.                                                               *)
LEMMA OthersTellNothing ==
    ASSUME TypeOK, AnswerInv, UNCHANGED <<pc, req, leg, reply, newOps, answers>>,
           \A r \in Requests, b \in Amount : InLedger(r, b) => InLedger(r, b)'
    PROVE  AnswerInv'
<1>1. \A s \in Txs : Settled(s)' <=> Settled(s)
  BY DEF Settled, FirstLegOver, Running
<1>2. \A r \in Requests, b \in Amount : Told(r, b)' => Told(r, b)
  BY <1>1 DEF Told
<1>3. ToldInv'
  BY <1>2, ToldStays DEF AnswerInv
<1>4. PendingInv'
  BY DEF AnswerInv, PendingInv, FirstLegOver, Running
<1>5. QED
  BY <1>3, <1>4 DEF AnswerInv

LEMMA StepAnswer == CanonicalRequests /\ IndInv /\ AnswerInv /\ [Next]_vars => AnswerInv'
<1> SUFFICES ASSUME CanonicalRequests, IndInv, AnswerInv, [Next]_vars PROVE AnswerInv'
  OBVIOUS
<1>1. ASSUME NEW t \in Txs, Moves(t) PROVE AnswerInv'
  <2>1. PendingInv'
    BY <1>1, MovesPending DEF AnswerInv
  <2>2. \A r \in Requests, b \in Amount : InLedger(r, b) => InLedger(r, b)'
    BY <1>1, LedgerKeeps
  <2>3. \A r \in Requests, b \in Amount : Told(r, b)' => Told(r, b) \/ FreshOf(r, b)'
    BY <1>1, MovesTell DEF AnswerInv
  <2>4. QED
    BY <2>1, <2>2, <2>3, ToldStays DEF AnswerInv
<1>2. CASE ResetMoves
  <2>1. UNCHANGED <<pc, req, leg, reply, newOps, answers>>
    BY <1>2 DEF ResetMoves, ResetStep, ResetBegin, ResetReach, ResetRow, ResetCommit,
                ResetAbort, tx, history
  <2>2. QED
    BY <1>2, <2>1, LedgerKeeps, OthersTellNothing DEF IndInv
<1>3. ASSUME NEW u \in Deletable, SoftDelete(u) \/ HardDelete(u) PROVE AnswerInv'
  <2>1. u \in Users /\ UNCHANGED <<pc, req, leg, reply, newOps, answers>>
    BY <1>3, InitAssumption DEF SoftDelete, HardDelete, tx, history
  <2>2. QED
    BY <1>3, <2>1, LedgerKeeps, OthersTellNothing DEF IndInv
<1>4. ASSUME NEW p \in Procs, DetectDeadlock(p) PROVE AnswerInv'
  BY <1>1, <1>2, <1>4 DEF DetectDeadlock, Procs, Moves, ResetMoves
<1>5. CASE UNCHANGED vars
  <2>1. /\ UNCHANGED <<pc, req, leg, reply, newOps, answers>>
        /\ UNCHANGED <<ops, status>>
    BY <1>5 DEF vars, db, tx, history
  <2>2. \A r \in Requests, b \in Amount : InLedger(r, b) => InLedger(r, b)'
    BY <2>1 DEF InLedger, RecordOf, Gone
  <2>3. QED
    BY <2>1, <2>2, OthersTellNothing DEF IndInv
<1>6. QED
  BY <1>1, <1>2, <1>3, <1>4, <1>5 DEF Next, Moves, ResetMoves

LEMMA InitAnswer == Init => AnswerInv
<1> SUFFICES ASSUME Init PROVE AnswerInv
  OBVIOUS
<1>1. \A t \in Txs : ~Settled(t) /\ ~FirstLegOver(t)
  BY DEF Init, Settled, FirstLegOver, Running
<1>2. QED
  BY <1>1 DEF Init, AnswerInv, PendingInv, ToldInv, Told

LEMMA InductiveAnswers == ASSUME CanonicalRequests PROVE Spec => [](IndInv /\ AnswerInv)
<1>1. Init => AnswerInv
  BY InitAnswer
<1>2. IndInv /\ AnswerInv /\ [Next]_vars => AnswerInv'
  BY StepAnswer
<1>3. QED
  BY <1>1, <1>2, Inductive, PTL DEF Spec

-----------------------------------------------------------------------------
(* Theorems, for clients that spell their uuids canonically.               *)

(* Who is told "ok" finds the operation in the ledger with the balance he  *)
(* was told, as long as the parties to it are not purged.                  *)
THEOREM AnswersAreInLedger ==
    ASSUME CanonicalRequests PROVE Spec => []AnswersMatchLedger
<1>1. ASSUME IndInv, AnswerInv PROVE AnswersMatchLedger
  <2> SUFFICES ASSUME NEW r \in Requests, NEW b \in answers[r] PROVE InLedger(r, b)
    BY DEF AnswersMatchLedger
  <2>1. b \in Amount
    BY <1>1 DEF IndInv, TypeOK
  <2>2. QED
    BY <1>1, <2>1 DEF AnswerInv, ToldInv, Told
<1>2. QED
  BY <1>1, InductiveAnswers, PTL

(* However often a request is sent, it is answered "ok" with one balance,  *)
(* even by a retry that overtakes the purge of a party to it.              *)
THEOREM RetriesAnswerAlike == ASSUME CanonicalRequests PROVE Spec => []ReplaysAgree
<1>1. ASSUME IndInv, AnswerInv PROVE ReplaysAgree
  <2> SUFFICES ASSUME NEW r \in Requests PROVE Cardinality(answers[r]) <= 1
    BY DEF ReplaysAgree
  <2>1. answers[r] \subseteq Amount
    BY <1>1 DEF IndInv, TypeOK
  <2>2. \A b, c \in answers[r] : b = c
    BY <1>1, <2>1 DEF AnswerInv, ToldInv, Told
  <2>3. CASE answers[r] = {}
    BY <2>3, FS_EmptySet
  <2>4. CASE answers[r] # {}
    <3>1. PICK b \in answers[r] : TRUE
      BY <2>4
    <3>2. answers[r] = {b}
      BY <2>2, <3>1
    <3>3. QED
      BY <3>2, FS_Singleton
  <2>5. QED
    BY <2>3, <2>4
<1>2. QED
  BY <1>1, InductiveAnswers, PTL

(* The row of each leg of a request that the ledger has.                   *)
LEMMA LegRecorded ==
    ASSUME IndInv, NEW r \in Requests, NEW b, InLedger(r, b), ~Gone(r),
           r.kind = "transfer" => r.user # r.to, NEW i \in 1 .. LegCount(r)
    PROVE  RecordOf(LegUser(r, i), r.key, r, i) /\ i \in {1, 2}
<1>1. /\ r.user \in Users /\ r.to \in Users /\ r.key \in Keys
      /\ RecordOf(r.user, r.key, r, 1) /\ i \in {1, 2}
      /\ i = 2 => r.kind = "transfer"
  BY RequestFields DEF InLedger, LegCount
<1>2. CASE i = 1
  BY <1>1, <1>2 DEF LegUser
<1>3. CASE i = 2
  <2>1. /\ ops[r.user][r.key] # None /\ ops[r.user][r.key].peer = r.to
        /\ ops[r.user][r.key].type = "withdrawal" /\ ops[r.user][r.key].amount = r.amount
    BY <1>1, <1>3 DEF RecordOf, LegPeer, LegType
  <2>2. /\ ops[r.to][r.key] # None /\ ops[r.to][r.key].peer = r.user
        /\ ops[r.to][r.key].amount = r.amount /\ ops[r.to][r.key].type # "withdrawal"
    BY <1>1, <1>3, <2>1 DEF IndInv, TransferWhole
  <2>3. ops[r.to][r.key].type = "deposit"
    BY <1>1, <2>2 DEF IndInv, TypeOK, Op, OpTypes
  <2>4. QED
    BY <1>1, <1>3, <2>2, <2>3 DEF RecordOf, LegUser, LegPeer, LegType
<1>4. QED
  BY <1>1, <1>2, <1>3

(* One key of one user is one request: whoever reuses it for another one   *)
(* is not told "ok" while the first is in the ledger.                      *)
THEOREM KeysAreNotReused == ASSUME CanonicalRequests PROVE Spec => []KeyHasOnePayload
<1>1. ASSUME IndInv, AnswerInv PROVE KeyHasOnePayload
  <2> SUFFICES ASSUME NEW r1 \in Requests, NEW r2 \in Requests,
                      NEW i \in 1 .. LegCount(r1), NEW j \in 1 .. LegCount(r2),
                      answers[r1] # {}, answers[r2] # {},
                      LegUser(r1, i) = LegUser(r2, j), r1.key = r2.key,
                      ~Gone(r1), ~Gone(r2)
               PROVE  r1 = r2
    BY DEF KeyHasOnePayload
  <2>1. ASSUME NEW r \in Requests, answers[r] # {}
        PROVE  \E b \in Amount : InLedger(r, b) /\ (r.kind = "transfer" => r.user # r.to)
    <3>1. PICK b \in answers[r] : b \in Amount
      BY <1>1, <2>1 DEF IndInv, TypeOK
    <3>2. QED
      BY <1>1, <3>1 DEF AnswerInv, ToldInv, Told
  <2>2. RecordOf(LegUser(r1, i), r1.key, r1, i) /\ i \in {1, 2}
    BY <1>1, <2>1, LegRecorded
  <2>3. RecordOf(LegUser(r2, j), r2.key, r2, j) /\ j \in {1, 2}
    BY <1>1, <2>1, LegRecorded
  <2>4. LegType(r1, i) = LegType(r2, j) /\ LegPeer(r1, i) = LegPeer(r2, j)
        /\ r1.amount = r2.amount
    BY <2>2, <2>3 DEF RecordOf
  <2>5. /\ r1.kind = "transfer" => r1.user # r1.to
        /\ r2.kind = "transfer" => r2.user # r2.to
    BY <2>1
  <2>6. /\ i = 2 => r1.kind = "transfer"
        /\ j = 2 => r2.kind = "transfer"
    BY <2>2, <2>3 DEF LegCount
  <2>7. r1.kind = r2.kind /\ r1.user = r2.user /\ r1.to = r2.to
    <3>1. \A r \in {r1, r2} : /\ r.kind \in Kinds
                              /\ r.kind # "transfer" => r.to = r.user
      BY RequestFields
    <3>2. (r1.kind = "transfer") <=> (r2.kind = "transfer")
      BY <2>2, <2>3, <2>4, <2>5, <2>6, <3>1 DEF LegUser, LegPeer
    <3>3. r1.kind = "transfer" => i = j
      BY <2>2, <2>3, <2>4, <3>2 DEF LegType
    <3>4. r1.kind # "transfer" => r1.kind = r2.kind /\ i = j
      BY <2>2, <2>3, <2>4, <2>6, <3>1, <3>2 DEF LegType, Kinds
    <3>5. QED
      BY <2>2, <2>3, <2>4, <3>1, <3>2, <3>3, <3>4 DEF LegUser, LegPeer
  <2>8. r1.upper = r2.upper /\ r1 \in RequestType /\ r2 \in RequestType
    BY RequestsAssumption DEF CanonicalRequests
  <2>9. QED
    BY <2>4, <2>7, <2>8 DEF RequestType
<1>2. QED
  BY <1>1, InductiveAnswers, PTL
=============================================================================
