--------------------------- MODULE AvatarsProofs ----------------------------
(***************************************************************************)
(* Theorems about Avatars, for all users, uploads, jobs, limits and        *)
(* batches: what is shown has its object and stays within the limit, and   *)
(* the two stores together implement the gallery.                          *)
(***************************************************************************)
EXTENDS Avatars, FiniteSetTheorems, TLAPS

(* Whose step it is. *)
RowStep ==
    \/ \E i \in Ids : DeleteMyAvatar(i) \/ BecomeOld(i) \/ BecomeExpired(i)
    \/ \E u \in Users : SoftDeleteUser(u) \/ PurgeUser(u)

JobStep(j) ==
    \/ j \in OrphanJobs /\ OrphanStep(j)
    \/ j \in HardDeleteJobs /\ HardDeleteStep(j)
    \/ RemoveFails(j) \/ JobFails(j)

LEMMA NextCases ==
    [Next]_vars =>
        \/ \E i \in Ids : UploadStep(i)
        \/ RowStep
        \/ \E j \in Jobs : JobStep(j)
        \/ UNCHANGED vars
BY DEF Next, RowStep, JobStep, Jobs

-----------------------------------------------------------------------------
(* Type correctness. *)

LEMMA FinishType ==
    ASSUME TypeOK, NEW i \in Ids, Finish(i)
    PROVE  /\ pc' \in [Ids -> Steps]
           /\ userLock' \in [Users -> Ids \cup {None}]
           /\ owner' \in [Ids -> Users \cup {None}]
BY DEF TypeOK, Finish, Go, Steps

LEMMA UploadType ==
    ASSUME TypeOK, NEW i \in Ids, UploadStep(i), UploadOK
    PROVE  TypeOK'
<1> USE DEF tables, ages, jobs
<1>1. ASSUME NEW u \in Users, StartUpload(i, u) PROVE TypeOK'
  BY <1>1 DEF StartUpload, TypeOK, Go, Steps
<1>2. CASE RefuseFile(i) \/ RemoveTooLarge(i) \/ Crash(i)
  <2>1. Finish(i) /\ pc[i] # "none" /\ objects' \subseteq objects
    BY <1>2 DEF RefuseFile, RemoveTooLarge, Crash
  <2>2. \A k \in Ids : pc'[k] # "none" => owner'[k] \in Users
    BY <2>1 DEF TypeOK, Finish, Go
  <2>3. QED
    BY <1>2, <2>1, <2>2, FinishType DEF RefuseFile, RemoveTooLarge, Crash, TypeOK
<1>3. CASE PutObject(i)
  BY <1>3 DEF PutObject, TypeOK, Go, Steps
<1>4. CASE LockUser(i)
  BY <1>4 DEF LockUser, TypeOK, Go, Steps
<1>5. CASE CountUserAvatars(i) \/ SaveRows(i)
  <2>1. /\ pc' \in [Ids -> Steps] /\ userLock' \in [Users -> Ids \cup {None}]
        /\ owner' \in [Ids -> Users \cup {None}]
        /\ \A k \in Ids : pc'[k] # "none" => pc[k] # "none"
        /\ owner' = owner
    BY <1>5, FinishType DEF CountUserAvatars, SaveRows, Finish, Go, TypeOK, Steps
  <2>2. QED
    BY <1>5, <2>1 DEF CountUserAvatars, SaveRows, TypeOK
<1>6. CASE Commit(i)
  <2>1. Finish(i) /\ owner[i] \in Users
    BY <1>6 DEF Commit, TypeOK
  <2>2. \A k \in Ids : pc'[k] # "none" => owner'[k] \in Users
    BY <2>1 DEF TypeOK, Finish, Go
  <2>3. QED
    BY <1>6, <2>1, <2>2, FinishType DEF Commit, TypeOK
<1>7. QED
  BY <1>1, <1>2, <1>3, <1>4, <1>5, <1>6 DEF UploadStep

LEMMA RowType == ASSUME TypeOK, RowStep PROVE TypeOK'
<1> USE DEF uploads, ages, jobs
<1>1. ASSUME NEW i \in Ids, DeleteMyAvatar(i) \/ BecomeOld(i) \/ BecomeExpired(i)
      PROVE  TypeOK'
  BY <1>1 DEF DeleteMyAvatar, BecomeOld, BecomeExpired, TypeOK, tables
<1>2. ASSUME NEW u \in Users, SoftDeleteUser(u) \/ PurgeUser(u) PROVE TypeOK'
  BY <1>2 DEF SoftDeleteUser, PurgeUser, TypeOK
<1>3. QED
  BY <1>1, <1>2 DEF RowStep

LEMMA JobType == ASSUME TypeOK, JobOK, NEW j \in Jobs, JobStep(j) PROVE TypeOK'
<1> USE DEF tables, uploads, ages
<1>1. CASE StartOrphanJob(j)
  BY <1>1 DEF StartOrphanJob, FirstBatch, TypeOK
<1>2. CASE GetFileList(j)
  BY <1>2 DEF GetFileList, TypeOK
<1>3. CASE CheckFile(j)
  BY <1>3 DEF CheckFile, TypeOK
<1>4. CASE StartHardDeleteJob(j)
  <2>1. PICK is \in SUBSET (expired \cap links) : files' = [files EXCEPT ![j] = is]
    BY <1>4 DEF StartHardDeleteJob
  <2>2. files' \in [Jobs -> SUBSET Ids]
    BY <2>1 DEF TypeOK
  <2>3. QED
    BY <1>4, <2>2 DEF StartHardDeleteJob, TypeOK
<1>5. CASE NextCandidate(j)
  BY <1>5 DEF NextCandidate, TypeOK
<1>6. CASE RemoveFile(j) \/ RemoveFails(j)
  <2>1. /\ jpc' \in [Jobs -> {"idle", "list", "files", "remove"}]
        /\ left' \in [Jobs -> 0 .. 2] /\ at' \in [Jobs -> Ids \cup {None}]
        /\ \A k \in Jobs : jpc'[k] = "remove" => at'[k] \in Ids
        /\ UNCHANGED <<batch, files>>
    BY <1>6 DEF RemoveFile, RemoveFails, Removed, TypeOK, JobOK
  <2>2. faults' \in 0 .. MaxFaults
    BY <1>6, AvatarsAssumption DEF RemoveFile, RemoveFails, TypeOK
  <2>3. QED
    BY <1>6, <2>1, <2>2 DEF RemoveFile, RemoveFails, TypeOK
<1>7. CASE JobFails(j)
  BY <1>7, AvatarsAssumption DEF JobFails, TypeOK
<1>8. QED
  BY <1>1, <1>2, <1>3, <1>4, <1>5, <1>6, <1>7 DEF JobStep, OrphanStep, HardDeleteStep

LEMMA TypeInd == TypeOK /\ JobOK /\ UploadOK /\ [Next]_vars => TypeOK'
<1>1. ASSUME TypeOK, UNCHANGED vars PROVE TypeOK'
  BY <1>1 DEF TypeOK, vars, tables, uploads, ages, jobs
<1>2. QED
  BY <1>1, NextCases, UploadType, RowType, JobType

-----------------------------------------------------------------------------
(* What an upload does to what it shares with the others.                  *)

Apart(i) ==
    /\ UNCHANGED <<status, ages, jobs>>
    /\ \A k \in Ids \ {i} :
          /\ pc'[k] = pc[k] /\ owner'[k] = owner[k] /\ row'[k] = row[k]
          /\ k \in links' <=> k \in links
          /\ k \in objects' <=> k \in objects
    /\ pc[i] # "none" => owner'[i] = owner[i]
    /\ \A u \in Users : userLock[u] \notin {i, None} => userLock'[u] = userLock[u]

LEMMA UploadEffect == ASSUME TypeOK, NEW i \in Ids, UploadStep(i) PROVE Apart(i)
<1> USE DEF Apart
<1>1. ASSUME NEW u \in Users, StartUpload(i, u) PROVE Apart(i)
  BY <1>1 DEF StartUpload, Go, TypeOK, tables
<1>2. CASE RefuseFile(i) \/ RemoveTooLarge(i) \/ Crash(i) \/ Commit(i)
  BY <1>2 DEF RefuseFile, RemoveTooLarge, Crash, Commit, Finish, Go, TypeOK, tables
<1>3. CASE PutObject(i) \/ LockUser(i) \/ CountUserAvatars(i) \/ SaveRows(i)
  BY <1>3 DEF PutObject, LockUser, CountUserAvatars, SaveRows, Finish, Go, TypeOK, tables
<1> HIDE DEF Apart
<1>4. QED
  BY <1>1, <1>2, <1>3 DEF UploadStep

(* What an upload does to itself: it takes a step of its own, and only its *)
(* commit shows anything.                                                  *)
LEMMA UploadOwn ==
    ASSUME TypeOK, UploadOK, LockOK, NEW i \in Ids, UploadStep(i)
    PROVE  /\ pc[i] # "done" /\ pc'[i] # "none"
           /\ Counting(i)' /\ Live(owner'[i]) => userLock'[owner'[i]] = i
           /\ Saving(i)' => Counting(i) /\ owner'[i] = owner[i]
           /\ pc'[i] = "save" /\ Live(owner'[i]) => Cardinality(ShownOf(owner[i])) < Limit
           /\ pc'[i] = "commit" => pc[i] = "save" /\ status[owner[i]] # "purged"
           /\ pc'[i] = "stored" \/ Counting(i)' => i \in objects'
           /\ \/ row'[i] = row[i] /\ links' = links
              \/ Commit(i)
<1> USE DEF Counting, Saving, Live
<1>1. ASSUME NEW u \in Users, StartUpload(i, u)
      PROVE  pc[i] = "none" /\ pc'[i] = "receive" /\ row'[i] = row[i] /\ links' = links
  BY <1>1 DEF StartUpload, Go, TypeOK, tables
<1>2. CASE RefuseFile(i) \/ RemoveTooLarge(i) \/ Crash(i)
  BY <1>2 DEF RefuseFile, RemoveTooLarge, Crash, Finish, Go, TypeOK, tables, Steps
<1>3. CASE Commit(i)
  BY <1>3 DEF Commit, Finish, Go, TypeOK
<1>4. CASE PutObject(i)
  BY <1>4 DEF PutObject, Go, TypeOK, tables
<1>5. CASE LockUser(i)
  BY <1>5 DEF LockUser, Go, TypeOK, tables, UploadOK
<1>6. CASE CountUserAvatars(i)
  <2>1. Cardinality(ShownOf(owner[i])) >= Limit \/ Cardinality(ShownOf(owner[i])) < Limit
    <3>1. IsFiniteSet(ShownOf(owner[i]))
      BY FS_Subset, AvatarsAssumption DEF ShownOf
    <3>2. QED
      BY <3>1, FS_CardinalityType, AvatarsAssumption
  <2>2. QED
    BY <1>6, <2>1 DEF CountUserAvatars, Finish, Go, TypeOK, tables, UploadOK, LockOK
<1>7. CASE SaveRows(i)
  BY <1>7 DEF SaveRows, Finish, Go, TypeOK, tables, UploadOK, LockOK
<1>8. QED
  BY <1>1, <1>2, <1>3, <1>4, <1>5, <1>6, <1>7 DEF UploadStep

-----------------------------------------------------------------------------
(* Locks. *)

LEMMA LockInd == IndInv /\ [Next]_vars => LockOK'
<1> SUFFICES ASSUME IndInv, [Next]_vars, NEW k \in Ids, Counting(k)', Live(owner[k])'
             PROVE  userLock'[owner'[k]] = k
  BY DEF LockOK
<1> USE DEF Counting, Live, IndInv
<1>0. pc[k] # "none" => owner[k] \in Users
  BY DEF TypeOK
<1>1. ASSUME NEW i \in Ids, UploadStep(i) PROVE userLock'[owner'[k]] = k
  <2>1. CASE k = i
    BY <1>1, <2>1, UploadOwn, UploadEffect DEF Apart
  <2>2. CASE k # i
    <3>1. userLock[owner[k]] = k /\ owner'[k] = owner[k] /\ pc[k] # "none"
      BY <1>1, <2>2, UploadEffect DEF Apart, LockOK
    <3>2. k # None
      BY AvatarsAssumption
    <3>3. QED
      BY <1>0, <1>1, <2>2, <3>1, <3>2, UploadEffect DEF Apart
  <2>3. QED
    BY <2>1, <2>2
<1>2. CASE RowStep
  <2>1. UNCHANGED uploads /\ (Live(owner[k])' => Live(owner[k]))
    BY <1>2 DEF RowStep, DeleteMyAvatar, BecomeOld, BecomeExpired, SoftDeleteUser,
                PurgeUser, TypeOK, uploads, tables
  <2>2. QED
    BY <2>1 DEF LockOK, uploads
<1>3. ASSUME NEW j \in Jobs, JobStep(j) PROVE userLock'[owner'[k]] = k
  <2>1. UNCHANGED <<uploads, tables>>
    BY <1>3 DEF JobStep, OrphanStep, HardDeleteStep, StartOrphanJob, GetFileList, CheckFile,
       RemoveFile, StartHardDeleteJob, NextCandidate, RemoveFails, JobFails
  <2>2. QED
    BY <2>1 DEF LockOK, uploads, tables
<1>4. CASE UNCHANGED vars
  BY <1>4 DEF vars, uploads, tables, LockOK
<1>5. QED
  BY <1>1, <1>2, <1>3, <1>4, NextCases

-----------------------------------------------------------------------------
(* What each step shows and hides. *)

LEMMA ShownFinite == \A u : IsFiniteSet(ShownOf(u)) /\ Cardinality(ShownOf(u)) \in Nat
<1> TAKE u
<1>1. ShownOf(u) \in SUBSET Ids
  BY DEF ShownOf
<1>2. QED
  BY <1>1, FS_Subset, FS_CardinalityType, AvatarsAssumption

LEMMA CommitShows ==
    ASSUME TypeOK, UploadOK, NEW i \in Ids, Commit(i)
    PROVE  /\ owner[i] \in Users /\ owner' = owner
           /\ i \notin ShownOf(owner[i]) /\ row[i] = "none"
           /\ \A u \in Users :
                 ShownOf(u)' = IF u = owner[i] THEN ShownOf(u) \cup {i} ELSE ShownOf(u)
BY DEF TypeOK, UploadOK, Commit, Finish, ShownOf, Shown

LEMMA UploadShows ==
    ASSUME TypeOK, UploadOK, NEW i \in Ids, UploadStep(i), ~Commit(i)
    PROVE  UNCHANGED tables /\ \A u \in Users : ShownOf(u)' = ShownOf(u)
<1>1. UNCHANGED tables
  BY DEF UploadStep, StartUpload, RefuseFile, PutObject, RemoveTooLarge, LockUser,
         CountUserAvatars, SaveRows, Crash, tables
<1>2. \A k \in Ids : Shown(k)' <=> Shown(k)
  BY <1>1 DEF Shown, tables
<1>3. \A k \in Ids : Shown(k) => owner'[k] = owner[k]
  BY UploadEffect DEF Apart, Shown, UploadOK
<1>4. QED
  BY <1>1, <1>2, <1>3 DEF ShownOf

LEMMA DeleteShows ==
    ASSUME TypeOK, NEW i \in Ids, DeleteMyAvatar(i)
    PROVE  \A u \in Users :
              ShownOf(u)' = IF u = owner[i] THEN ShownOf(u) \ {i} ELSE ShownOf(u)
BY DEF DeleteMyAvatar, TypeOK, ShownOf, Shown, uploads

LEMMA PurgeShows ==
    ASSUME TypeOK, NEW v \in Users, PurgeUser(v)
    PROVE  \A u \in Users : ShownOf(u)' = IF u = v THEN {} ELSE ShownOf(u)
BY DEF PurgeUser, TypeOK, ShownOf, Shown, uploads

LEMMA JobShows ==
    ASSUME NEW j \in Jobs, JobStep(j)
    PROVE  /\ UNCHANGED <<uploads, tables, expired>>
           /\ \A u : ShownOf(u)' = ShownOf(u)
<1>1. UNCHANGED <<uploads, tables, expired>>
  BY DEF JobStep, OrphanStep, HardDeleteStep, StartOrphanJob, GetFileList, CheckFile,
    RemoveFile, StartHardDeleteJob, NextCandidate, RemoveFails, JobFails, ages
<1>2. QED
  BY <1>1 DEF ShownOf, Shown, uploads, tables

(* Nothing but a commit ever adds to what is shown. *)
LEMMA OnlyCommitsShow ==
    ASSUME TypeOK, UploadOK, [Next]_vars, \A i \in Ids : ~Commit(i)
    PROVE  \A u \in Users : ShownOf(u)' \subseteq ShownOf(u)
<1>1. ASSUME NEW i \in Ids, UploadStep(i) PROVE \A u \in Users : ShownOf(u)' \subseteq ShownOf(u)
  BY <1>1, UploadShows
<1>2. ASSUME RowStep PROVE \A u \in Users : ShownOf(u)' \subseteq ShownOf(u)
  <2>1. ASSUME NEW i \in Ids, BecomeOld(i) \/ BecomeExpired(i)
        PROVE  \A u \in Users : ShownOf(u)' = ShownOf(u)
    BY <2>1 DEF BecomeOld, BecomeExpired, ShownOf, Shown, uploads, tables
  <2>2. ASSUME NEW v \in Users, SoftDeleteUser(v)
        PROVE  \A u \in Users : ShownOf(u)' = ShownOf(u)
    BY <2>2 DEF SoftDeleteUser, ShownOf, Shown, uploads
  <2>3. QED
    BY <1>2, <2>1, <2>2, DeleteShows, PurgeShows DEF RowStep
<1>3. ASSUME UNCHANGED vars PROVE \A u \in Users : ShownOf(u)' \subseteq ShownOf(u)
  BY <1>3 DEF vars, uploads, tables, ShownOf, Shown
<1>4. QED
  BY <1>1, <1>2, <1>3, JobShows, NextCases

(* No user comes back. *)
LEMMA LiveBefore ==
    ASSUME TypeOK, [Next]_vars, NEW u \in Users, Live(u)'
    PROVE  Live(u)
<1>1. ASSUME NEW i \in Ids, UploadStep(i) PROVE Live(u)
  BY <1>1, UploadEffect DEF Apart, Live
<1>2. ASSUME RowStep PROVE Live(u)
  BY <1>2 DEF RowStep, DeleteMyAvatar, BecomeOld, BecomeExpired, SoftDeleteUser,
              PurgeUser, TypeOK, tables, Live
<1>3. ASSUME NEW j \in Jobs, JobStep(j) PROVE Live(u)
  BY <1>3, JobShows DEF tables, Live
<1>4. ASSUME UNCHANGED vars PROVE Live(u)
  BY <1>4 DEF vars, tables, Live
<1>5. QED
  BY <1>1, <1>2, <1>3, <1>4, NextCases

-----------------------------------------------------------------------------
(* The limit. *)

LEMMA RoomInd == IndInv /\ [Next]_vars => RoomOK'
<1> SUFFICES ASSUME IndInv, [Next]_vars, NEW k \in Ids, Saving(k)', Live(owner[k])'
             PROVE  Cardinality(ShownOf(owner[k])') < Limit
  BY DEF RoomOK
<1> USE DEF IndInv
<1>1. Counting(k) /\ owner'[k] = owner[k] /\ owner[k] \in Users
  <2>1. ASSUME NEW i \in Ids, UploadStep(i)
        PROVE  Counting(k) /\ owner'[k] = owner[k]
    BY <2>1, UploadOwn, UploadEffect DEF Apart, Counting, Saving
  <2>2. CASE RowStep
    BY <2>2 DEF RowStep, DeleteMyAvatar, BecomeOld, BecomeExpired, SoftDeleteUser,
                PurgeUser, uploads, Counting, Saving, TypeOK
  <2>3. ASSUME NEW j \in Jobs, JobStep(j)
        PROVE  Counting(k) /\ owner'[k] = owner[k]
    BY <2>3, JobShows DEF uploads, Counting, Saving
  <2>4. CASE UNCHANGED vars
    BY <2>4 DEF vars, uploads, Counting, Saving, TypeOK
  <2>5. QED
    BY <2>1, <2>2, <2>3, <2>4, NextCases DEF Counting, TypeOK
<1>2. Live(owner[k])
  BY <1>1, LiveBefore DEF Live
<1>3. userLock[owner[k]] = k
  BY <1>1, <1>2 DEF LockOK
<1>4. ASSUME NEW i \in Ids, Commit(i) PROVE Cardinality(ShownOf(owner[k])') < Limit
  <2>1. pc[i] = "commit" /\ pc'[i] = "done"
    BY <1>4 DEF Commit, Finish, Go, TypeOK
  <2>2. owner[i] # owner[k]
    BY <1>2, <1>3, <2>1 DEF LockOK, Counting, Saving
  <2>3. ShownOf(owner[k])' = ShownOf(owner[k])
    BY <1>1, <1>4, <2>2, CommitShows DEF ShownOf
  <2>4. Saving(k)
    BY <1>4, <2>1 DEF Saving, Commit, Finish, Go, TypeOK
  <2>5. QED
    BY <1>2, <2>3, <2>4 DEF RoomOK
<1>5. ASSUME \A i \in Ids : ~Commit(i) PROVE Cardinality(ShownOf(owner[k])') < Limit
  <2>1. Cardinality(ShownOf(owner[k])) < Limit
    <3>1. CASE Saving(k)
      BY <1>2, <3>1 DEF RoomOK
    <3>2. CASE ~Saving(k)
      <4>1. pc[k] = "count" /\ pc'[k] \in {"save", "commit"}
        BY <1>1, <3>2 DEF Counting, Saving
      <4>2. ASSUME NEW i \in Ids, UploadStep(i) PROVE i = k
        BY <4>1, <4>2, UploadEffect DEF Apart
      <4>3. ASSUME RowStep \/ UNCHANGED vars PROVE FALSE
        BY <4>1, <4>3 DEF RowStep, DeleteMyAvatar, BecomeOld, BecomeExpired,
             SoftDeleteUser, PurgeUser, uploads, vars
      <4>4. ASSUME NEW j \in Jobs, JobStep(j) PROVE FALSE
        BY <4>1, <4>4, JobShows DEF uploads
      <4>5. UploadStep(k)
        BY <4>2, <4>3, <4>4, NextCases
      <4>6. QED
        BY <1>1, <1>2, <4>1, <4>5, UploadOwn, UploadEffect DEF Apart, Live
    <3>3. QED
      BY <3>1, <3>2
  <2>2. ShownOf(owner[k])' \subseteq ShownOf(owner[k])
    BY <1>1, <1>5, OnlyCommitsShow DEF ShownOf
  <2>3. QED
    BY <2>1, <2>2, ShownFinite, FS_Subset, FS_CardinalityType, AvatarsAssumption
<1>6. QED
  BY <1>4, <1>5

LEMMA LimitInd == IndInv /\ [Next]_vars => AtMostLimit'
<1> SUFFICES ASSUME IndInv, [Next]_vars, NEW u \in Users, Live(u)'
             PROVE  Cardinality(ShownOf(u)') <= Limit
  BY DEF AtMostLimit
<1> USE DEF IndInv
<1>1. Live(u) /\ Cardinality(ShownOf(u)) <= Limit
  BY LiveBefore DEF AtMostLimit
<1>2. ASSUME NEW i \in Ids, Commit(i) PROVE Cardinality(ShownOf(u)') <= Limit
  <2>1. CASE u = owner[i]
    <3>1. Cardinality(ShownOf(u)) < Limit
      BY <1>1, <1>2, <2>1 DEF RoomOK, Saving, Commit
    <3>2. Cardinality(ShownOf(u)') = Cardinality(ShownOf(u)) + 1
      BY <1>2, <2>1, CommitShows, ShownFinite, FS_AddElement
    <3>3. QED
      BY <3>1, <3>2, ShownFinite, AvatarsAssumption
  <2>2. CASE u # owner[i]
    BY <1>1, <1>2, <2>2, CommitShows
  <2>3. QED
    BY <2>1, <2>2
<1>3. ASSUME \A i \in Ids : ~Commit(i) PROVE Cardinality(ShownOf(u)') <= Limit
  <2>1. ShownOf(u)' \subseteq ShownOf(u)
    BY <1>3, OnlyCommitsShow
  <2>2. QED
    BY <1>1, <2>1, ShownFinite, FS_Subset, FS_CardinalityType, AvatarsAssumption
<1>4. QED
  BY <1>2, <1>3

-----------------------------------------------------------------------------
(* Objects, and what the jobs are about to remove. *)

LEMMA UploadInd == IndInv /\ [Next]_vars => UploadOK'
<1> SUFFICES ASSUME IndInv, [Next]_vars PROVE UploadOK'
  OBVIOUS
<1> USE DEF IndInv
<1>1. ASSUME NEW i \in Ids, UploadStep(i) PROVE UploadOK'
  <2> SUFFICES ASSUME NEW k \in Ids
               PROVE  /\ pc'[k] = "stored" \/ Counting(k)' => k \in objects'
                      /\ pc'[k] # "done" => k \notin old' /\ row'[k] = "none" /\ k \notin links'
                      /\ k \in expired' => row'[k] = "deleted"
                      /\ k \in links' => row'[k] # "none"
                      /\ pc'[k] = "commit" => status'[owner'[k]] # "purged"
                      /\ k \in links' => status'[owner'[k]] # "purged"
    BY DEF UploadOK
  <2>1. CASE k # i
    BY <1>1, <2>1, UploadEffect DEF Apart, UploadOK, Counting, ages
  <2>2. CASE k = i /\ Commit(i)
    BY <2>2, <1>1, UploadEffect DEF Commit, Finish, Go, Apart, UploadOK, Counting, ages, TypeOK
  <2>3. CASE k = i /\ ~Commit(i)
    BY <1>1, <2>3, UploadEffect, UploadOwn DEF Apart, UploadOK, Counting, ages
  <2>4. QED
    BY <2>1, <2>2, <2>3
<1>2. ASSUME NEW i \in Ids, DeleteMyAvatar(i) \/ BecomeOld(i) \/ BecomeExpired(i)
      PROVE  UploadOK'
  BY <1>2 DEF DeleteMyAvatar, BecomeOld, BecomeExpired, UploadOK, TypeOK, Shown, Counting,
              tables, uploads, ages
<1>3. ASSUME NEW u \in Users, SoftDeleteUser(u) \/ PurgeUser(u) PROVE UploadOK'
  BY <1>3 DEF SoftDeleteUser, PurgeUser, UploadOK, TypeOK, Counting, uploads, ages
<1>4. ASSUME NEW j \in Jobs, JobStep(j) PROVE UploadOK'
  <2>1. \A k \in Ids : pc[k] # "done" => (k \in objects' <=> k \in objects)
    BY <1>4 DEF JobStep, OrphanStep, HardDeleteStep, StartOrphanJob, GetFileList, CheckFile,
       RemoveFile, StartHardDeleteJob, NextCandidate, RemoveFails, JobFails, JobOK
  <2>2. old' \subseteq old
    BY <1>4 DEF JobStep, OrphanStep, HardDeleteStep, StartOrphanJob, GetFileList, CheckFile,
       RemoveFile, StartHardDeleteJob, NextCandidate, RemoveFails, JobFails, ages
  <2>3. QED
    BY <1>4, <2>1, <2>2, JobShows DEF UploadOK, Counting, uploads, tables
<1>5. CASE UNCHANGED vars
  BY <1>5 DEF vars, uploads, tables, ages, UploadOK, Counting
<1>6. QED
  BY <1>1, <1>2, <1>3, <1>4, <1>5, NextCases DEF RowStep

LEMMA RowKeeps ==
    ASSUME TypeOK, RowStep \/ UNCHANGED vars
    PROVE  /\ UNCHANGED <<objects, pc, jobs>> /\ expired \subseteq expired'
           /\ \A k \in Ids : Shown(k)' => Shown(k)
BY DEF RowStep, DeleteMyAvatar, BecomeOld, BecomeExpired, SoftDeleteUser, PurgeUser,
       vars, tables, uploads, ages, Shown, TypeOK

LEMMA JobInd == IndInv /\ [Next]_vars => JobOK'
<1> SUFFICES ASSUME IndInv, [Next]_vars PROVE JobOK'
  OBVIOUS
<1> USE DEF IndInv
<1>1. ASSUME NEW i \in Ids, UploadStep(i) PROVE JobOK'
  BY <1>1, UploadEffect, UploadOwn DEF Apart, JobOK, Shown, ages, jobs, TypeOK
<1>2. ASSUME RowStep \/ UNCHANGED vars PROVE JobOK'
  BY <1>2, RowKeeps DEF JobOK, jobs, TypeOK
<1>3. ASSUME NEW j \in Jobs, JobStep(j) PROVE JobOK'
  <2>0. /\ UNCHANGED <<pc, expired>> /\ (\A i \in Ids : Shown(i)' <=> Shown(i))
    BY <1>3, JobShows DEF uploads, tables, Shown
  <2>1. ASSUME j \in OrphanJobs, StartOrphanJob(j) \/ GetFileList(j) PROVE JobOK'
    BY <2>0, <2>1, AvatarsAssumption DEF StartOrphanJob, GetFileList, JobOK, TypeOK
  <2>2. ASSUME CheckFile(j) PROVE JobOK'
    BY <2>0, <2>2, AvatarsAssumption DEF CheckFile, Spared, JobOK, UploadOK, TypeOK
  <2>3. ASSUME StartHardDeleteJob(j) PROVE JobOK'
    <3>1. PICK is \in SUBSET (expired \cap links) : files' = [files EXCEPT ![j] = is]
      BY <2>3 DEF StartHardDeleteJob
    <3>2. QED
      BY <2>0, <2>3, <3>1 DEF StartHardDeleteJob, JobOK, TypeOK
  <2>4. ASSUME NextCandidate(j) PROVE JobOK'
    BY <2>0, <2>4 DEF NextCandidate, JobOK, UploadOK, Shown, TypeOK
  <2>5. ASSUME RemoveFile(j) \/ RemoveFails(j) PROVE JobOK'
    BY <2>0, <2>5 DEF RemoveFile, RemoveFails, Removed, JobOK, TypeOK
  <2>6. ASSUME JobFails(j) PROVE JobOK'
    BY <2>0, <2>6 DEF JobFails, JobOK, TypeOK
  <2>7. QED
    BY <1>3, <2>1, <2>2, <2>3, <2>4, <2>5, <2>6 DEF JobStep, OrphanStep, HardDeleteStep
<1>4. QED
  BY <1>1, <1>2, <1>3, NextCases

LEMMA ObjectInd == IndInv /\ [Next]_vars => ShownHasObject'
<1> SUFFICES ASSUME IndInv, [Next]_vars, NEW k \in Ids, Shown(k)' PROVE k \in objects'
  BY DEF ShownHasObject
<1> USE DEF IndInv
<1>1. ASSUME NEW i \in Ids, UploadStep(i) PROVE k \in objects'
  <2>1. CASE k # i
    BY <1>1, <2>1, UploadEffect DEF Apart, Shown, ShownHasObject
  <2>2. CASE k = i /\ Commit(i)
    BY <2>2 DEF Commit, UploadOK, Counting
  <2>3. CASE k = i /\ ~Commit(i)
    BY <1>1, <2>3, UploadOwn DEF Shown, UploadOK
  <2>4. QED
    BY <2>1, <2>2, <2>3
<1>2. ASSUME RowStep \/ UNCHANGED vars PROVE k \in objects'
  BY <1>2, RowKeeps DEF ShownHasObject
<1>3. ASSUME NEW j \in Jobs, JobStep(j) PROVE k \in objects'
  <2>1. Shown(k) /\ k \in objects
    BY <1>3, JobShows DEF tables, Shown, ShownHasObject
  <2>2. ASSUME RemoveFile(j) PROVE k \in objects'
    BY <2>1, <2>2 DEF RemoveFile, JobOK
  <2>3. QED
    BY <1>3, <2>1, <2>2 DEF JobStep, OrphanStep, HardDeleteStep, StartOrphanJob,
       GetFileList, CheckFile, StartHardDeleteJob, NextCandidate, RemoveFails, JobFails
<1>4. QED
  BY <1>1, <1>2, <1>3, NextCases

-----------------------------------------------------------------------------
(* The invariant. *)

LEMMA InitInd == Init => IndInv
<1> SUFFICES ASSUME Init PROVE IndInv
  OBVIOUS
<1>1. TypeOK
  BY AvatarsAssumption DEF Init, TypeOK, Steps
<1>2. \A u \in Users : ShownOf(u) = {}
  BY DEF Init, ShownOf, Shown
<1>3. AtMostLimit
  BY <1>2, FS_EmptySet, AvatarsAssumption DEF AtMostLimit
<1>4. QED
  BY <1>1, <1>3 DEF Init, IndInv, LockOK, RoomOK, UploadOK, JobOK, ShownHasObject, Shown,
                    Counting, Saving

LEMMA Inductive == Spec => []IndInv
<1>1. IndInv /\ [Next]_vars => IndInv'
  BY TypeInd, LockInd, RoomInd, UploadInd, JobInd, ObjectInd, LimitInd DEF IndInv
<1>2. QED
  BY InitInd, <1>1, PTL DEF Spec

(* Uploads, rows and jobs keep to their types. *)
THEOREM TypeCorrect == Spec => []TypeOK
<1>1. IndInv => TypeOK
  BY DEF IndInv
<1>2. QED
  BY Inductive, <1>1, PTL

(* saveAvatarData: however many uploads of one user run at once, a user    *)
(* who is not deleted never has more avatars than the limit.               *)
THEOREM LimitIsKept == Spec => []AtMostLimit
<1>1. IndInv => AtMostLimit
  BY DEF IndInv
<1>2. QED
  BY Inductive, <1>1, PTL

(* AvatarsCleanupService: neither job, however old what it has read may    *)
(* be, takes the object from an avatar that is shown.                      *)
THEOREM ShownAvatarsHaveObjects == Spec => []ShownHasObject
<1>1. IndInv => ShownHasObject
  BY DEF IndInv
<1>2. QED
  BY Inductive, <1>1, PTL

-----------------------------------------------------------------------------
(* Implementation of the gallery. *)

LEMMA GalleryInit == Init => Gallery!Init
BY DEF Init, Gallery!Init, ShownOf, Shown

LEMMA GalleryUpload ==
    ASSUME IndInv, NEW i \in Ids, UploadStep(i)
    PROVE  [Gallery!Next]_Gallery!vars
<1> USE DEF IndInv
<1>1. CASE Commit(i)
  <2>1. Gallery!Add(owner[i], i)
    <3>1. i \notin {k \in Ids : row[k] # "none"}
      BY <1>1, CommitShows
    <3>2. /\ Live(owner[i]) => Cardinality(ShownOf(owner[i])) < Limit
          /\ status[owner[i]] # "purged"
      BY <1>1 DEF Commit, RoomOK, Saving, UploadOK
    <3>3. [u \in Users |-> ShownOf(u)]' =
            [[u \in Users |-> ShownOf(u)] EXCEPT ![owner[i]] = @ \cup {i}]
      BY <1>1, CommitShows
    <3>4. {k \in Ids : row[k] # "none"}' = {k \in Ids : row[k] # "none"} \cup {i}
      BY <1>1 DEF Commit, TypeOK
    <3>5. UNCHANGED status
      BY <1>1 DEF Commit
    <3>6. owner[i] \in Users
      BY <1>1, CommitShows
    <3>7. \A S : Gallery!Cardinality(S) = Cardinality(S)
      BY Zenon DEF Gallery!Cardinality, Cardinality
    <3>8. status[owner[i]] = "live" =>
              Gallery!Cardinality([u \in Users |-> ShownOf(u)][owner[i]]) < Limit
      BY <3>2, <3>6, <3>7 DEF Live
    <3>9. QED
      BY <3>1, <3>2, <3>3, <3>4, <3>5, <3>8 DEF Gallery!Add
  <2>2. owner[i] \in Users
    BY <1>1, CommitShows
  <2>3. QED
    BY <2>1, <2>2 DEF Gallery!Next
<1>2. CASE ~Commit(i)
  BY <1>2, UploadShows DEF Gallery!vars, tables
<1>3. QED
  BY <1>1, <1>2

LEMMA GalleryRow == ASSUME IndInv, RowStep PROVE [Gallery!Next]_Gallery!vars
<1> USE DEF IndInv
<1>1. ASSUME NEW i \in Ids, DeleteMyAvatar(i) PROVE [Gallery!Next]_Gallery!vars
  <2>1. owner[i] \in Users /\ i \in ShownOf(owner[i])
    BY <1>1 DEF DeleteMyAvatar, Shown, ShownOf, UploadOK, TypeOK
  <2>2. [u \in Users |-> ShownOf(u)]' =
          [[u \in Users |-> ShownOf(u)] EXCEPT ![owner[i]] = @ \ {i}]
    BY <1>1, DeleteShows
  <2>3. UNCHANGED <<status, {k \in Ids : row[k] # "none"}>>
    BY <1>1, <2>1 DEF DeleteMyAvatar, TypeOK, Shown, ShownOf
  <2>4. Gallery!Remove(owner[i], i)
    BY <2>1, <2>2, <2>3 DEF Gallery!Remove
  <2>5. QED
    BY <2>1, <2>4 DEF Gallery!Next
<1>2. ASSUME NEW i \in Ids, BecomeOld(i) \/ BecomeExpired(i)
      PROVE  [Gallery!Next]_Gallery!vars
  BY <1>2 DEF BecomeOld, BecomeExpired, Gallery!vars, tables, uploads, ShownOf, Shown
<1>3. ASSUME NEW u \in Users, SoftDeleteUser(u) PROVE [Gallery!Next]_Gallery!vars
  <2>1. \A v \in Users : ShownOf(v)' = ShownOf(v)
    BY <1>3 DEF SoftDeleteUser, ShownOf, Shown, uploads
  <2>2. Gallery!SoftDelete(u)
    BY <1>3, <2>1 DEF SoftDeleteUser, Gallery!SoftDelete, Live
  <2>3. QED
    BY <2>2 DEF Gallery!Next
<1>4. ASSUME NEW u \in Users, PurgeUser(u) PROVE [Gallery!Next]_Gallery!vars
  <2>1. [v \in Users |-> ShownOf(v)]' = [[v \in Users |-> ShownOf(v)] EXCEPT ![u] = {}]
    BY <1>4, PurgeShows
  <2>2. Gallery!Purge(u)
    BY <1>4, <2>1 DEF PurgeUser, Gallery!Purge
  <2>3. QED
    BY <2>2 DEF Gallery!Next
<1>5. QED
  BY <1>1, <1>2, <1>3, <1>4 DEF RowStep

(* What users see of the uploads, the two stores and the jobs is a         *)
(* gallery: uploads and deletions that happen at once, and nothing else.   *)
THEOREM ImplementsGallery == Spec => GallerySpec
<1>1. IndInv /\ [Next]_vars => [Gallery!Next]_Gallery!vars
  <2> SUFFICES ASSUME IndInv, [Next]_vars PROVE [Gallery!Next]_Gallery!vars
    OBVIOUS
  <2>1. ASSUME NEW j \in Jobs, JobStep(j) PROVE [Gallery!Next]_Gallery!vars
    BY <2>1, JobShows DEF Gallery!vars, tables
  <2>2. ASSUME UNCHANGED vars PROVE [Gallery!Next]_Gallery!vars
    BY <2>2 DEF vars, tables, uploads, Gallery!vars, ShownOf, Shown
  <2>3. QED
    BY <2>1, <2>2, NextCases, GalleryUpload, GalleryRow
<1>2. QED
  BY GalleryInit, Inductive, <1>1, PTL DEF Spec, GallerySpec, Gallery!Spec
=============================================================================
