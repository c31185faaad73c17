------------------------- MODULE BalanceResetProofs -------------------------
(***************************************************************************)
(* Theorems about BalanceReset, for any number of instances, users and     *)
(* failures, and every size of a batch.                                    *)
(***************************************************************************)
EXTENDS BalanceReset, FiniteSetTheorems, WellFoundedInduction, TLAPS

(* Only a crash puts a job back where others may already wait. *)
QueueOK == waiting <= MaxWaiting + faults

(* A run without errors is in its first batch, and a batch that is not     *)
(* full has everybody in it.                                               *)
RunOK ==
    \A w \in Instances :
        /\ stayed[w] \subseteq users
        /\ pc[w] = "update" => cursor[w] = None
        /\ pc[w] = "update" /\ Cardinality(batch[w]) < BatchSize =>
              stayed[w] \subseteq batch[w]

IndInv == TypeOK /\ QueueOK /\ RunOK /\ ChainHolds /\ CleanRunResetsEveryone

-----------------------------------------------------------------------------
(* Batches. *)

LEMMA Less == OpToRel(<, Nat) = {p \in Nat \X Nat : p[1] < p[2]}
BY DEF OpToRel

LEMMA Least == ASSUME NEW S \in SUBSET Nat, S # {} PROVE \E m \in S : \A k \in S : m <= k
<1> DEFINE R == {p \in Nat \X Nat : p[1] < p[2]}
<1>1. IsWellFoundedOn(R, Nat)
  BY Zenon, Less, NatLessThanWellFounded
<1>2. PICK m \in S : \A k \in S : ~(<<k, m>> \in R)
  BY <1>1, WFMin
<1>3. \A k \in S : <<k, m>> \in R <=> k < m
  OBVIOUS
<1>4. \A k \in S : ~(k < m)
  BY <1>2, <1>3
<1>5. QED
  BY <1>4

LEMMA Greatest ==
    ASSUME NEW S \in SUBSET Nat, S # {}, IsFiniteSet(S)
    PROVE  \E m \in S : \A k \in S : k <= m
<1> DEFINE Above(m) == {k \in S : k > m}
<1>1. \A m \in S : IsFiniteSet(Above(m)) /\ Cardinality(Above(m)) \in Nat
  <2> TAKE m \in S
  <2>1. Above(m) \in SUBSET S
    OBVIOUS
  <2>2. QED
    BY <2>1, FS_Subset, FS_CardinalityType
<1>2. {Cardinality(Above(m)) : m \in S} \in SUBSET Nat
  BY <1>1
<1>3. PICK m \in S : \A k \in S : Cardinality(Above(m)) <= Cardinality(Above(k))
  <2> DEFINE Sizes == {Cardinality(Above(m)) : m \in S}
  <2>1. Sizes # {} /\ Sizes \in SUBSET Nat
    BY <1>2
  <2>2. PICK n \in Sizes : \A k \in Sizes : n <= k
    <3> HIDE DEF Sizes
    <3> QED BY <2>1, Least
  <2>3. QED
    BY <2>2
<1>4. ASSUME NEW k \in S, k > m PROVE FALSE
  <2>0. k \in Nat /\ m \in Nat /\ \A j \in S : j \in Nat
    OBVIOUS
  <2>1. Above(k) \in SUBSET (Above(m) \ {k}) /\ k \in Above(m)
    <3>1. k \in Above(m)
      BY <1>4
    <3>2. ASSUME NEW j \in Above(k) PROVE j \in Above(m) \ {k}
      BY <1>4, <2>0, <3>2
    <3>3. QED
      BY <3>1, <3>2
  <2>2. Cardinality(Above(m) \ {k}) = Cardinality(Above(m)) - 1 /\ IsFiniteSet(Above(m) \ {k})
    BY <1>1, <2>1, FS_RemoveElement
  <2>3. Cardinality(Above(k)) <= Cardinality(Above(m)) - 1
    BY <2>1, <2>2, FS_Subset
  <2>4. QED
    BY <1>1, <1>3, <1>4, <2>3
<1>5. \A k \in S : ~(k > m)
  BY <1>4
<1>6. QED
  BY <1>5

Below(u) == {v \in users : v < u}

LEMMA Finite ==
    ASSUME TypeOK
    PROVE  /\ users \in SUBSET Nat /\ IsFiniteSet(users)
           /\ \A S \in SUBSET users : IsFiniteSet(S) /\ Cardinality(S) \in Nat
<1>1. users \in SUBSET Nat /\ IsFiniteSet(users)
  BY BalanceResetAssumption, FS_Subset DEF TypeOK
<1>2. QED
  BY <1>1, FS_Subset, FS_CardinalityType

(* findUserIdsBatch returns at most BatchSize users, ...                   *)
LEMMA BatchIsBounded == ASSUME TypeOK PROVE Cardinality(FirstBatch) <= BatchSize
<1>1. FirstBatch \in SUBSET users
  BY DEF FirstBatch
<1>2. CASE FirstBatch = {}
  BY <1>2, FS_EmptySet, BalanceResetAssumption
<1>3. CASE FirstBatch # {}
  <2>1. PICK m \in FirstBatch : \A k \in FirstBatch : k <= m
    BY <1>1, <1>3, Finite, Greatest
  <2>2. FirstBatch \ {m} \in SUBSET Below(m) /\ Below(m) \in SUBSET users
    BY <1>1, <2>1, Finite DEF Below
  <2>3. Cardinality(FirstBatch \ {m}) <= Cardinality(Below(m))
    BY <2>2, Finite, FS_Subset
  <2>4. Cardinality(Below(m)) < BatchSize
    BY <2>1 DEF FirstBatch, Below
  <2>5. Cardinality(FirstBatch \ {m}) = Cardinality(FirstBatch) - 1
    BY <1>1, <2>1, Finite, FS_RemoveElement
  <2>6. QED
    BY <1>1, <2>2, <2>3, <2>4, <2>5, Finite, BalanceResetAssumption
<1>4. QED
  BY <1>2, <1>3

(* ... at least one if there are any, ...                                  *)
LEMMA BatchIsThere == ASSUME TypeOK, users # {} PROVE Cardinality(FirstBatch) \in Nat \ {0}
<1>1. PICK m \in users : \A k \in users : m <= k
  BY Finite, Least
<1>2. Below(m) = {}
  BY <1>1, Finite DEF Below
<1>3. m \in FirstBatch
  BY <1>1, <1>2, FS_EmptySet, BalanceResetAssumption DEF FirstBatch, Below
<1>4. FirstBatch \in SUBSET users
  BY DEF FirstBatch
<1>5. QED
  BY <1>3, <1>4, Finite, FS_EmptySet

(* ... and all of them if it returns fewer.                                *)
LEMMA ShortBatchIsAll ==
    ASSUME TypeOK, Cardinality(FirstBatch) < BatchSize
    PROVE  FirstBatch = users
<1>1. FirstBatch \in SUBSET users
  BY DEF FirstBatch
<1>2. ASSUME users \ FirstBatch # {} PROVE FALSE
  <2>1. PICK m \in users \ FirstBatch : \A k \in users \ FirstBatch : m <= k
    BY <1>2, Finite, Least
  <2>2. Below(m) \in SUBSET FirstBatch
    BY <2>1, Finite DEF Below
  <2>3. Cardinality(Below(m)) <= Cardinality(FirstBatch)
    BY <1>1, <2>2, Finite, FS_Subset
  <2>4. Cardinality(Below(m)) < BatchSize
    BY <1>1, <2>2, <2>3, Finite, BalanceResetAssumption
  <2>5. QED
    BY <2>1, <2>4 DEF FirstBatch, Below
<1>3. QED
  BY <1>1, <1>2

-----------------------------------------------------------------------------
(* Every step keeps the types. *)

LEMMA Slack ==
    ASSUME NEW a \in Nat, NEW b \in Nat, NEW c \in Nat, NEW d \in Nat, a <= b + c, c <= d
    PROVE  a <= b + d
OBVIOUS

LEMMA TypeInd == IndInv /\ [Next]_vars => TypeOK' /\ QueueOK'
<1> SUFFICES ASSUME IndInv, [Next]_vars PROVE TypeOK' /\ QueueOK'
  OBVIOUS
<1> USE BalanceResetAssumption DEF IndInv, QueueOK
<1>0. CASE UNCHANGED vars
  BY <1>0 DEF vars, queue, rows, run, TypeOK
<1>1. CASE StartBalanceResetJob \/ StopBalanceResetJob \/ JobIsDue
  <2>1. waiting' \in 0 .. MaxWaiting + faults /\ faults' = faults
    <3>1. waiting' = waiting \/ (waiting < MaxWaiting /\ waiting' = waiting + 1)
      BY <1>1 DEF StartBalanceResetJob, StopBalanceResetJob, JobIsDue
    <3>2. faults' = faults
      BY <1>1 DEF StartBalanceResetJob, StopBalanceResetJob, JobIsDue
    <3>3. QED
      BY <3>1, <3>2 DEF TypeOK
  <2>2. scheduler' \in BOOLEAN /\ delayed' \in BOOLEAN
    BY <1>1 DEF StartBalanceResetJob, StopBalanceResetJob, JobIsDue, TypeOK
  <2>3. UNCHANGED <<instance, rows, run, stayed, reset>>
    BY <1>1 DEF StartBalanceResetJob, StopBalanceResetJob, JobIsDue
  <2>4. QED
    BY <2>1, <2>2, <2>3 DEF rows, run, TypeOK
<1>2. ASSUME NEW w \in Instances, OnModuleDestroy(w) \/ Exit(w) \/ Boot(w)
      PROVE  TypeOK' /\ QueueOK'
  BY <1>2 DEF OnModuleDestroy, Exit, Boot, queue, rows, run, TypeOK
<1>3. ASSUME NEW w \in Instances, Crash(w) PROVE TypeOK' /\ QueueOK'
  BY <1>3 DEF Crash, Fault, rows, TypeOK
<1>4. ASSUME NEW w \in Instances, TakeJob(w) PROVE TypeOK' /\ QueueOK'
  <2>1. delayed' \in BOOLEAN
    BY <1>4, Zenon DEF TakeJob, AddsNext, TypeOK
  <2>2. QED
    BY <1>4, <2>1 DEF TakeJob, Step, rows, TypeOK
<1>5. ASSUME NEW w \in Instances, FindFirstBatch(w) PROVE TypeOK' /\ QueueOK'
  <2>1. FirstBatch \in SUBSET Ids
    BY DEF FirstBatch, TypeOK
  <2>2. users # {} => Cardinality(FirstBatch) \in 1 .. BatchSize
    BY BatchIsBounded, BatchIsThere
  <2>3. QED
    BY <1>5, <2>1, <2>2 DEF FindFirstBatch, Step, queue, rows, TypeOK
<1>6. ASSUME NEW w \in Instances, FindNextBatch(w) \/ FindFails(w)
      PROVE  TypeOK' /\ QueueOK'
  <2>1. FetchFailed(w) /\ faults' \in faults .. MaxFaults
    BY <1>6 DEF FindNextBatch, FindFails, Fault, TypeOK
  <2>2. pc' \in [Instances -> {"idle", "find", "update", "report"}] /\
        \A v \in Instances : pc'[v] = "update" => pc[v] = "update"
    BY <2>1 DEF FetchFailed, Step, TypeOK
  <2>3. errors' \in [Instances -> Nat]
    BY <2>1 DEF FetchFailed, TypeOK
  <2>4. UNCHANGED <<queue, instance, rows, batch, cursor, stayed, reset>>
    BY <2>1 DEF FetchFailed
  <2>5. faults' \in 0 .. MaxFaults /\ QueueOK'
    <3>1. waiting' = waiting /\ waiting \in Nat /\ waiting <= MaxWaiting + faults
      BY <2>1, <2>4 DEF queue, TypeOK
    <3>2. faults \in Nat /\ faults' \in Nat /\ faults <= faults' /\ faults' <= MaxFaults
      BY <2>1, <2>4 DEF TypeOK
    <3>3. MaxWaiting \in Nat /\ MaxFaults \in Nat
      OBVIOUS
    <3>4. waiting' <= MaxWaiting + faults'
      BY <3>1, <3>2, <3>3, Slack
    <3>5. faults' \in 0 .. MaxFaults
      BY ONLY <3>2, <3>3
    <3>6. QED
      BY <3>4, <3>5
  <2>6. \A v \in Instances : pc'[v] = "update" => Cardinality(batch'[v]) \in 1 .. BatchSize
    BY <2>2, <2>4 DEF TypeOK
  <2>7. QED
    <3> HIDE DEF QueueOK
    <3> QED
      BY <2>2, <2>3, <2>4, <2>5, <2>6 DEF queue, rows, TypeOK
<1>7. ASSUME NEW w \in Instances, ResetBatch(w) \/ ResetFails(w)
      PROVE  TypeOK' /\ QueueOK'
  <2>1. PICK u \in batch[w] : cursor' = [cursor EXCEPT ![w] = u]
    BY <1>7 DEF ResetBatch, ResetFails, AfterBatch
  <2>2. u \in Ids
    BY <2>1 DEF TypeOK
  <2>3. cursor' \in [Instances -> Ids \cup {None}]
    BY <2>1, <2>2 DEF TypeOK
  <2>4. AfterBatch(w) /\ faults' \in faults .. MaxFaults
    BY <1>7 DEF ResetBatch, ResetFails, Fault, TypeOK
  <2>5. errors' \in [Instances -> Nat]
    BY <1>7 DEF ResetBatch, ResetFails, TypeOK
  <2>6. reset' \in [Instances -> SUBSET Ids]
    BY <1>7 DEF ResetBatch, ResetFails, TypeOK
  <2>7. pc' \in [Instances -> {"idle", "find", "update", "report"}] /\ pc'[w] # "update" /\
        batch' \in [Instances -> SUBSET Ids] /\
        \A v \in Instances \ {w} : pc'[v] = pc[v] /\ batch'[v] = batch[v]
    BY <2>4 DEF AfterBatch, Step, TypeOK
  <2>8. \A v \in Instances : pc'[v] = "update" => Cardinality(batch'[v]) \in 1 .. BatchSize
    BY <2>7 DEF TypeOK
  <2>9. UNCHANGED <<queue, instance, rows, stayed>>
    BY <2>4 DEF AfterBatch
  <2>10. faults' \in 0 .. MaxFaults /\ QueueOK'
    <3>1. waiting' = waiting /\ waiting \in Nat /\ waiting <= MaxWaiting + faults
      BY <2>4, <2>9 DEF queue, TypeOK
    <3>2. faults \in Nat /\ faults' \in Nat /\ faults <= faults' /\ faults' <= MaxFaults
      BY <2>4, <2>9 DEF TypeOK
    <3>3. MaxWaiting \in Nat /\ MaxFaults \in Nat
      OBVIOUS
    <3>4. waiting' <= MaxWaiting + faults'
      BY <3>1, <3>2, <3>3, Slack
    <3>5. faults' \in 0 .. MaxFaults
      BY ONLY <3>2, <3>3
    <3>6. QED
      BY <3>4, <3>5
  <2>11. QED
    <3> HIDE DEF QueueOK
    <3> QED
      BY <2>3, <2>5, <2>6, <2>7, <2>8, <2>9, <2>10 DEF queue, rows, TypeOK
<1>8. ASSUME NEW w \in Instances, Report(w) PROVE TypeOK' /\ QueueOK'
  BY <1>8 DEF Report, Step, queue, rows, TypeOK
<1>9. ASSUME NEW u \in Ids, InsertUser(u) \/ SoftDeleteUser(u)
      PROVE  TypeOK' /\ QueueOK'
  <2>1. users' \subseteq Ids /\ gone' \subseteq Ids /\ users' \cap gone' = {}
    <3>1. CASE InsertUser(u)
      <4>1. u \notin gone
        BY <3>1, BalanceResetAssumption DEF InsertUser, TypeOK
      <4>2. QED
        BY <3>1, <4>1 DEF InsertUser, TypeOK
    <3>2. CASE SoftDeleteUser(u)
      BY <3>2 DEF SoftDeleteUser, TypeOK
    <3>3. QED
      BY <1>9, <3>1, <3>2
  <2>2. stayed' \in [Instances -> SUBSET Ids]
    BY <1>9 DEF InsertUser, SoftDeleteUser, TypeOK
  <2>3. UNCHANGED <<queue, instance, run, reset, faults>>
    BY <1>9 DEF InsertUser, SoftDeleteUser
  <2>4. QED
    BY <2>1, <2>2, <2>3 DEF queue, run, TypeOK
<1>10. QED
  BY <1>0, <1>1, <1>2, <1>3, <1>4, <1>5, <1>6, <1>7, <1>8, <1>9 DEF Next, RunStep

-----------------------------------------------------------------------------
(* Every step keeps the chain of jobs: a scheduler whose job is neither    *)
(* delayed nor waiting would have to have lost it, and whoever takes it    *)
(* adds the next.                                                          *)
LEMMA ChainInd == IndInv /\ [Next]_vars => ChainHolds'
<1> SUFFICES ASSUME IndInv, [Next]_vars, scheduler' PROVE delayed' \/ waiting' > 0
  BY DEF ChainHolds
<1> waiting \in Nat
  BY BalanceResetAssumption DEF IndInv, TypeOK
<1>0. scheduler => delayed \/ waiting > 0
  BY DEF IndInv, ChainHolds
<1>1. CASE UNCHANGED queue
  BY <1>0, <1>1 DEF queue
<1>2. CASE StartBalanceResetJob
  BY <1>0, <1>2 DEF StartBalanceResetJob
<1>3. CASE StopBalanceResetJob \/ \E w \in Instances : OnModuleDestroy(w)
  BY <1>3 DEF StopBalanceResetJob, OnModuleDestroy
<1>4. CASE JobIsDue \/ \E w \in Instances : Crash(w)
  <2>1. waiting' = waiting + 1
    BY <1>4 DEF JobIsDue, Crash
  <2>2. QED
    BY <2>1
<1>5. CASE \E w \in Instances : TakeJob(w)
  <2>1. delayed' = (delayed \/ scheduler) /\ scheduler' = scheduler
    BY <1>5, Zenon DEF TakeJob, AddsNext
  <2>2. QED
    BY <2>1
<1>6. CASE \E w \in Instances : RunStep(w)
  BY <1>1, <1>6
  DEF RunStep, FindFirstBatch, FindNextBatch, FindFails, FetchFailed, ResetBatch, ResetFails,
      AfterBatch, Report
<1>7. CASE (\E w \in Instances : Exit(w) \/ Boot(w)) \/
           (\E u \in Ids : InsertUser(u) \/ SoftDeleteUser(u))
  BY <1>1, <1>7 DEF Exit, Boot, InsertUser, SoftDeleteUser
<1>8. QED
  BY <1>1, <1>2, <1>3, <1>4, <1>5, <1>6, <1>7 DEF Next, vars

-----------------------------------------------------------------------------
(* Every step keeps what is known of each run. *)

RunOKOf(w) ==
    /\ stayed[w] \subseteq users
    /\ pc[w] = "update" => cursor[w] = None
    /\ pc[w] = "update" /\ Cardinality(batch[w]) < BatchSize =>
          stayed[w] \subseteq batch[w]
    /\ pc[w] = "report" /\ errors[w] = 0 => stayed[w] \subseteq reset[w]

LEMMA RunIsSplit == RunOK /\ CleanRunResetsEveryone <=> \A w \in Instances : RunOKOf(w)
BY DEF RunOK, CleanRunResetsEveryone, RunOKOf

(* A run that is left alone, with its users, stays as it is.               *)
LEMMA RunLeftAlone ==
    ASSUME NEW v, RunOKOf(v), users \subseteq users',
           UNCHANGED <<pc[v], batch[v], cursor[v], errors[v], stayed[v], reset[v]>>
    PROVE  RunOKOf(v)'
BY DEF RunOKOf

LEMMA RunInd == IndInv /\ [Next]_vars => RunOK' /\ CleanRunResetsEveryone'
<1> SUFFICES ASSUME IndInv, [Next]_vars, NEW v \in Instances PROVE RunOKOf(v)'
  BY RunIsSplit DEF RunOK, CleanRunResetsEveryone, RunOKOf
<1>0. RunOKOf(v) /\ TypeOK
  BY RunIsSplit DEF IndInv
<1>1. CASE UNCHANGED <<run, stayed, reset>> /\ users \subseteq users'
  BY <1>0, <1>1, RunLeftAlone DEF run
<1>2. CASE \E u \in Ids : SoftDeleteUser(u)
  BY <1>0, <1>2 DEF SoftDeleteUser, run, RunOKOf
<1>3. ASSUME NEW w \in Instances, Crash(w) \/ TakeJob(w) PROVE RunOKOf(v)'
  BY <1>0, <1>3 DEF Crash, TakeJob, Step, rows, RunOKOf, TypeOK
<1>4. ASSUME NEW w \in Instances, FindFirstBatch(w) PROVE RunOKOf(v)'
  <2>1. CASE w = v
    <3>1. Cardinality(FirstBatch) < BatchSize => FirstBatch = users
      BY <1>0, ShortBatchIsAll
    <3>2. QED
      BY <1>0, <1>4, <2>1, <3>1 DEF FindFirstBatch, Step, rows, RunOKOf, TypeOK
  <2>2. CASE w # v
    BY <1>0, <1>4, <2>2 DEF FindFirstBatch, Step, rows, RunOKOf, TypeOK
  <2>3. QED
    BY <2>1, <2>2
<1>5. ASSUME NEW w \in Instances, FindNextBatch(w) \/ FindFails(w) PROVE RunOKOf(v)'
  BY <1>0, <1>5 DEF FindNextBatch, FindFails, FetchFailed, Step, rows, RunOKOf, TypeOK
<1>6. ASSUME NEW w \in Instances, ResetBatch(w) PROVE RunOKOf(v)'
  BY <1>0, <1>6 DEF ResetBatch, AfterBatch, Step, rows, RunOKOf, TypeOK
<1>7. ASSUME NEW w \in Instances, ResetFails(w) PROVE RunOKOf(v)'
  BY <1>0, <1>7 DEF ResetFails, AfterBatch, Step, rows, RunOKOf, TypeOK
<1>8. ASSUME NEW w \in Instances, Report(w) PROVE RunOKOf(v)'
  BY <1>0, <1>8 DEF Report, Step, rows, RunOKOf, TypeOK
<1>9. CASE \/ StartBalanceResetJob \/ StopBalanceResetJob \/ JobIsDue
           \/ \E w \in Instances : OnModuleDestroy(w) \/ Exit(w) \/ Boot(w)
           \/ \E u \in Ids : InsertUser(u)
  BY <1>1, <1>9
  DEF StartBalanceResetJob, StopBalanceResetJob, JobIsDue, OnModuleDestroy, Exit, Boot,
      InsertUser, rows
<1>10. QED
  BY <1>1, <1>2, <1>3, <1>4, <1>5, <1>6, <1>7, <1>8, <1>9
  DEF Next, RunStep, vars, rows

-----------------------------------------------------------------------------
LEMMA InitInd == Init => IndInv
<1> SUFFICES ASSUME Init PROVE IndInv
  OBVIOUS
<1>1. TypeOK
  <2>1. waiting \in 0 .. MaxWaiting + MaxFaults /\ faults \in 0 .. MaxFaults
    BY BalanceResetAssumption DEF Init
  <2>2. scheduler \in BOOLEAN /\ delayed \in BOOLEAN /\ users \subseteq Ids /\
        gone \subseteq Ids /\ users \cap gone = {}
    BY BalanceResetAssumption DEF Init
  <2>3. QED
    BY <2>1, <2>2 DEF Init, TypeOK
<1>2. QueueOK /\ ChainHolds
  BY BalanceResetAssumption DEF Init, QueueOK, ChainHolds
<1>3. RunOK /\ CleanRunResetsEveryone
  BY DEF Init, RunOK, CleanRunResetsEveryone
<1>4. QED
  BY <1>1, <1>2, <1>3 DEF IndInv

LEMMA Inductive == Spec => []IndInv
<1>1. IndInv /\ [Next]_vars => IndInv'
  BY TypeInd, ChainInd, RunInd DEF IndInv
<1>2. QED
  BY InitInd, <1>1, PTL DEF Spec

(* The type invariant: a batch is never empty and never larger than        *)
(* BALANCE_RESET_BATCH_SIZE, for any number of users.                      *)
THEOREM TypeCorrect == Spec => []TypeOK
<1>1. IndInv => TypeOK
  BY DEF IndInv
<1>2. QED
  BY Inductive, <1>1, PTL

(* startBalanceResetJob, stopBalanceResetJob, onModuleDestroy and the      *)
(* worker: as long as the scheduler is there its next job is too, for any  *)
(* number of instances that start, stop and die.                           *)
THEOREM ChainNeverBreaks == Spec => []ChainHolds
<1>1. IndInv => ChainHolds
  BY DEF IndInv
<1>2. QED
  BY Inductive, <1>1, PTL

(* resetAllUsersBalances: a run without errors has reset every user who    *)
(* was there all through it, for any number of users and every batch size. *)
THEOREM CleanRunsResetEveryone == Spec => []CleanRunResetsEveryone
<1>1. IndInv => CleanRunResetsEveryone
  BY DEF IndInv
<1>2. QED
  BY Inductive, <1>1, PTL
=============================================================================
