------------------------------ MODULE Avatars -------------------------------
(***************************************************************************)
(* Avatars: AvatarsService and AvatarsCleanupService over two stores that  *)
(* have no transaction in common, the database (tables avatars and         *)
(* users_avatars) and the object storage.                                  *)
(*                                                                         *)
(* Every upload draws a fresh uuid, which names the object, the row and    *)
(* here the request.  row, links and status are the committed database; an *)
(* upload that is at "commit" has rows that are not.                       *)
(***************************************************************************)
EXTENDS Integers, FiniteSets

CONSTANTS
    Users,           \* ids of users, in their order
    Ids,             \* bound: the uploads there ever are
    Limit,           \* AVATAR_COUNT_LIMIT
    BatchSize,       \* AvatarsCleanupService.batchSize
    OrphanJobs, HardDeleteJobs,   \* the two cron jobs, on every instance
    MaxFaults,       \* bound: failures of the jobs and of their calls
    None

Jobs == OrphanJobs \cup HardDeleteJobs

ASSUME AvatarsAssumption ==
    /\ Users \subseteq Nat /\ IsFiniteSet(Ids)
    /\ Limit \in Nat \ {0} /\ BatchSize \in Nat \ {0} /\ MaxFaults \in Nat
    /\ OrphanJobs \cap HardDeleteJobs = {}
    /\ None \notin Ids \cup Users

VARIABLES
    status,          \* users.deletedAt; purged: no row any more
    row, links,      \* avatars, users_avatars
    objects,         \* the storage; the key of object i is owner[i]/i
    owner,           \* the user in the token of upload i
    pc,              \* the step upload i is at
    userLock,        \* row locks on users
    old,             \* objects put minOrphanAge ago, or longer
    expired,         \* avatars softly deleted untilDays ago, or longer
    jpc, batch, files, at, left,   \* the jobs: step, users and files yet to
                     \* come, the file to remove, how many more calls do it
    faults

uploads == <<owner, pc, userLock>>
tables == <<status, row, links>>
ages == <<old, expired>>
jobs == <<jpc, batch, files, at, left, faults>>
vars == <<tables, objects, uploads, ages, jobs>>

Steps == {"none", "receive", "stored", "count", "save", "commit", "done"}

TypeOK ==
    /\ status \in [Users -> {"live", "deleted", "purged"}]
    /\ row \in [Ids -> {"none", "active", "deleted"}]
    /\ links \subseteq Ids /\ objects \subseteq Ids
    /\ owner \in [Ids -> Users \cup {None}]
    /\ \A i \in Ids : pc[i] # "none" => owner[i] \in Users
    /\ pc \in [Ids -> Steps]
    /\ userLock \in [Users -> Ids \cup {None}]
    /\ old \subseteq Ids /\ expired \subseteq Ids
    /\ jpc \in [Jobs -> {"idle", "list", "files", "remove"}]
    /\ batch \in [Jobs -> SUBSET Users] /\ files \in [Jobs -> SUBSET Ids]
    /\ at \in [Jobs -> Ids \cup {None}]
    /\ \A j \in Jobs : jpc[j] = "remove" => at[j] \in Ids
    /\ left \in [Jobs -> 0 .. 2] /\ faults \in 0 .. MaxFaults

Init ==
    /\ status = [u \in Users |-> "live"]
    /\ row = [i \in Ids |-> "none"] /\ links = {} /\ objects = {}
    /\ owner = [i \in Ids |-> None] /\ pc = [i \in Ids |-> "none"]
    /\ userLock = [u \in Users |-> None]
    /\ old = {} /\ expired = {}
    /\ jpc = [j \in Jobs |-> "idle"]
    /\ batch = [j \in Jobs |-> {}] /\ files = [j \in Jobs |-> {}]
    /\ at = [j \in Jobs |-> None] /\ left = [j \in Jobs |-> 0]
    /\ faults = 0

-----------------------------------------------------------------------------
Live(u) == status[u] = "live"

(* What a user sees, downloads and is counted for. *)
Shown(i) == i \in links /\ row[i] = "active"
ShownOf(u) == {i \in Ids : Shown(i) /\ owner[i] = u}

Go(i, step) == pc' = [pc EXCEPT ![i] = step]

(* The request is over, its transaction and its locks too. *)
Finish(i) ==
    /\ Go(i, "done")
    /\ userLock' = [u \in Users |-> IF userLock[u] = i THEN None ELSE userLock[u]]
    /\ UNCHANGED owner

-----------------------------------------------------------------------------
(* An upload: multer stores the object, then the handler saves the rows.   *)

(* A plausible bug: the key is made before the guard has set the user.     *)
BugNoUser(i, u) ==
    /\ pc[i] = "none" /\ status[u] # "purged"
    /\ Go(i, "receive")
    /\ UNCHANGED <<tables, objects, owner, userLock, ages, jobs>>

(* An access token ends hours after it is issued, a purge comes a week     *)
(* after the soft deletion: who has a token has a row.                     *)
StartUpload(i, u) ==
    /\ pc[i] = "none" /\ status[u] # "purged"
    /\ owner' = [owner EXCEPT ![i] = u]
    /\ Go(i, "receive")
    /\ UNCHANGED <<tables, objects, userLock, ages, jobs>>

(* validateFiletypeFromStream throws before anything is sent, or the       *)
(* stream breaks before the upload is complete.                            *)
RefuseFile(i) ==
    /\ pc[i] = "receive"
    /\ Finish(i)
    /\ UNCHANGED <<tables, objects, ages, jobs>>

(* upload.done() and sizePromise: the object is complete. *)
PutObject(i) ==
    /\ pc[i] = "receive"
    /\ objects' = objects \cup {i}
    /\ Go(i, "stored")
    /\ UNCHANGED <<tables, owner, userLock, ages, jobs>>

(* The file was larger than limits.fileSize: multer calls _removeFile,     *)
(* which may fail, and answers with an error.                              *)
RemoveTooLarge(i) ==
    /\ pc[i] = "stored"
    /\ objects' \in {objects, objects \ {i}}
    /\ Finish(i)
    /\ UNCHANGED <<tables, ages, jobs>>

(* A plausible bug: lockUserForUpdate runs outside the transaction. *)
BugNoLock(i) ==
    /\ pc[i] = "stored"
    /\ Go(i, "count")
    /\ UNCHANGED <<tables, objects, owner, userLock, ages, jobs>>

(* saveAvatarData begins its transaction with lockUserForUpdate, which     *)
(* sees no deleted user and then locks nobody.                             *)
LockUser(i) ==
    /\ pc[i] = "stored"
    /\ IF Live(owner[i])
       THEN /\ userLock[owner[i]] = None
            /\ userLock' = [userLock EXCEPT ![owner[i]] = i]
       ELSE UNCHANGED userLock
    /\ Go(i, "count")
    /\ UNCHANGED <<tables, objects, owner, ages, jobs>>

(* A plausible bug: > for >= in the comparison with AVATAR_COUNT_LIMIT. *)
BugOneMore(i) ==
    /\ pc[i] = "count"
    /\ IF Cardinality(ShownOf(owner[i])) > Limit
       THEN Finish(i)
       ELSE Go(i, "save") /\ UNCHANGED <<owner, userLock>>
    /\ UNCHANGED <<tables, objects, ages, jobs>>

(* countUserAvatars; the object of an upload that is refused stays.        *)
CountUserAvatars(i) ==
    /\ pc[i] = "count"
    /\ IF Cardinality(ShownOf(owner[i])) >= Limit
       THEN Finish(i)
       ELSE Go(i, "save") /\ UNCHANGED <<owner, userLock>>
    /\ UNCHANGED <<tables, objects, ages, jobs>>

(* The two save calls.  Nobody else sees the rows or has their id; the     *)
(* foreign key of users_avatars needs the user's row.                      *)
SaveRows(i) ==
    /\ pc[i] = "save"
    /\ IF status[owner[i]] = "purged"
       THEN Finish(i)
       ELSE Go(i, "commit") /\ UNCHANGED <<owner, userLock>>
    /\ UNCHANGED <<tables, objects, ages, jobs>>

Commit(i) ==
    /\ pc[i] = "commit"
    /\ row' = [row EXCEPT ![i] = "active"] /\ links' = links \cup {i}
    /\ Finish(i)
    /\ UNCHANGED <<status, objects, ages, jobs>>

(* The server, its connection or a statement fails. *)
Crash(i) ==
    /\ pc[i] \notin {"none", "done"}
    /\ Finish(i)
    /\ UNCHANGED <<tables, objects, ages, jobs>>

-----------------------------------------------------------------------------
(* Deletions: of an avatar by its user, of users.  All are one statement.  *)

(* softDeleteUserAvatar *)
DeleteMyAvatar(i) ==
    /\ Shown(i)
    /\ row' = [row EXCEPT ![i] = "deleted"]
    /\ UNCHANGED <<status, links, objects, uploads, ages, jobs>>

SoftDeleteUser(u) ==
    /\ Live(u) /\ userLock[u] = None
    /\ status' = [status EXCEPT ![u] = "deleted"]
    /\ UNCHANGED <<row, links, objects, uploads, ages, jobs>>

(* The cascade takes users_avatars; the rows of avatars stay. *)
PurgeUser(u) ==
    /\ status[u] = "deleted"
    /\ \A i \in Ids : pc[i] = "commit" => owner[i] # u
    /\ status' = [status EXCEPT ![u] = "purged"]
    /\ links' = {i \in links : owner[i] # u}
    /\ UNCHANGED <<row, objects, uploads, ages, jobs>>

(* Time passes.  No request lasts as long as minOrphanAge, six hours: the  *)
(* request that put an object is over before the object is old.            *)
BecomeOld(i) ==
    /\ i \in objects /\ pc[i] = "done"
    /\ old' = old \cup {i}
    /\ UNCHANGED <<tables, objects, uploads, expired, jobs>>

BecomeExpired(i) ==
    /\ row[i] = "deleted"
    /\ expired' = expired \cup {i}
    /\ UNCHANGED <<tables, objects, uploads, old, jobs>>

-----------------------------------------------------------------------------
(* The jobs.  Each decides from what it has read some steps ago.           *)

(* findUserIdsBatch: the first users who are not deleted.  The query of a  *)
(* second batch always fails (see BalanceReset), and ends the run.         *)
FirstBatch ==
    {u \in Users : /\ Live(u)
                   /\ Cardinality({v \in Users : Live(v) /\ v < u}) < BatchSize}

StartOrphanJob(j) ==
    /\ jpc[j] = "idle"
    /\ batch' = [batch EXCEPT ![j] = FirstBatch]
    /\ jpc' = [jpc EXCEPT ![j] = "list"]
    /\ UNCHANGED <<tables, objects, uploads, ages, files, at, left, faults>>

(* getFileList of the next user, or the end of the run. *)
GetFileList(j) ==
    /\ jpc[j] = "list"
    /\ IF batch[j] = {}
       THEN /\ jpc' = [jpc EXCEPT ![j] = "idle"]
            /\ UNCHANGED <<batch, files>>
       ELSE \E u \in batch[j] :
              /\ \A v \in batch[j] : u <= v
              /\ batch' = [batch EXCEPT ![j] = @ \ {u}]
              /\ files' = [files EXCEPT ![j] = {i \in objects : owner[i] = u}]
              /\ jpc' = [jpc EXCEPT ![j] = "files"]
    /\ UNCHANGED <<tables, objects, uploads, ages, at, left, faults>>

(* A plausible bug: isTooRecent is left out. *)
BugAnyAge(i) == Shown(i)

(* A plausible bug: existsActiveAvatar finds softly deleted avatars too. *)
BugAnyRow(i) == i \notin old \/ row[i] # "none"

(* isTooRecent and existsActiveAvatar: this file is left alone. *)
Spared(i) == i \notin old \/ Shown(i)

(* The next file of the list, or the next user. *)
CheckFile(j) ==
    /\ jpc[j] = "files" /\ j \in OrphanJobs
    /\ IF files[j] = {}
       THEN /\ jpc' = [jpc EXCEPT ![j] = "list"]
            /\ UNCHANGED <<files, at, left>>
       ELSE \E i \in files[j] :
              /\ files' = [files EXCEPT ![j] = @ \ {i}]
              /\ IF Spared(i)
                 THEN UNCHANGED <<jpc, at, left>>
                 ELSE /\ jpc' = [jpc EXCEPT ![j] = "remove"]
                      /\ at' = [at EXCEPT ![j] = i]
                      /\ left' = [left EXCEPT ![j] = 1]
    /\ UNCHANGED <<tables, objects, uploads, ages, batch, faults>>

(* findSoftDeleted.  The query joins table avatars under its own name, so  *)
(* that TypeORM may add a."deletedAt" IS NULL and find nothing.            *)
StartHardDeleteJob(j) ==
    /\ jpc[j] = "idle"
    /\ \E is \in SUBSET (expired \cap links) :
          /\ Cardinality(is) <= BatchSize
          /\ files' = [files EXCEPT ![j] = is]
    /\ jpc' = [jpc EXCEPT ![j] = "files"]
    /\ UNCHANGED <<tables, objects, uploads, ages, batch, at, left, faults>>

(* The next candidate, whose file is removed twice; after the last one the *)
(* job ends, for no row is ever deleted and deletedInBatch stays 0.        *)
NextCandidate(j) ==
    /\ jpc[j] = "files" /\ j \in HardDeleteJobs
    /\ IF files[j] = {}
       THEN /\ jpc' = [jpc EXCEPT ![j] = "idle"]
            /\ UNCHANGED <<files, at, left>>
       ELSE \E i \in files[j] :
              /\ files' = [files EXCEPT ![j] = @ \ {i}]
              /\ jpc' = [jpc EXCEPT ![j] = "remove"]
              /\ at' = [at EXCEPT ![j] = i]
              /\ left' = [left EXCEPT ![j] = 2]
    /\ UNCHANGED <<tables, objects, uploads, ages, batch, faults>>

(* One call of removeFile has returned, whatever came of it. *)
Removed(j) ==
    /\ left' = [left EXCEPT ![j] = @ - 1]
    /\ IF left[j] = 1
       THEN jpc' = [jpc EXCEPT ![j] = "files"] /\ at' = [at EXCEPT ![j] = None]
       ELSE UNCHANGED <<jpc, at>>
    /\ UNCHANGED <<batch, files>>

RemoveFile(j) ==
    /\ jpc[j] = "remove"
    /\ objects' = objects \ {at[j]} /\ old' = old \ {at[j]}
    /\ Removed(j)
    /\ UNCHANGED <<tables, uploads, expired, faults>>

RemoveFails(j) ==
    /\ jpc[j] = "remove" /\ faults < MaxFaults
    /\ faults' = faults + 1
    /\ Removed(j)
    /\ UNCHANGED <<tables, objects, uploads, ages>>

(* A query or a listing throws, or the server stops: the run is over.      *)
JobFails(j) ==
    /\ jpc[j] # "idle" /\ faults < MaxFaults
    /\ faults' = faults + 1
    /\ jpc' = [jpc EXCEPT ![j] = "idle"]
    /\ batch' = [batch EXCEPT ![j] = {}] /\ files' = [files EXCEPT ![j] = {}]
    /\ at' = [at EXCEPT ![j] = None] /\ left' = [left EXCEPT ![j] = 0]
    /\ UNCHANGED <<tables, objects, uploads, ages>>

-----------------------------------------------------------------------------
UploadStep(i) ==
    \/ \E u \in Users : StartUpload(i, u)
    \/ RefuseFile(i) \/ PutObject(i) \/ RemoveTooLarge(i)
    \/ LockUser(i) \/ CountUserAvatars(i) \/ SaveRows(i) \/ Commit(i) \/ Crash(i)

OrphanStep(j) ==
    StartOrphanJob(j) \/ GetFileList(j) \/ CheckFile(j) \/ RemoveFile(j)

HardDeleteStep(j) == StartHardDeleteJob(j) \/ NextCandidate(j) \/ RemoveFile(j)

Next ==
    \/ \E i \in Ids : UploadStep(i) \/ DeleteMyAvatar(i) \/ BecomeOld(i) \/ BecomeExpired(i)
    \/ \E u \in Users : SoftDeleteUser(u) \/ PurgeUser(u)
    \/ \E j \in OrphanJobs : OrphanStep(j)
    \/ \E j \in HardDeleteJobs : HardDeleteStep(j)
    \/ \E j \in Jobs : RemoveFails(j) \/ JobFails(j)

(* Time passes, and cron starts the weekly job again and again. *)
Fairness ==
    /\ \A i \in Ids : WF_vars(BecomeOld(i))
    /\ \A j \in OrphanJobs : WF_vars(OrphanStep(j))

Spec == Init /\ [][Next]_vars
FairSpec == Spec /\ Fairness

-----------------------------------------------------------------------------
(* Properties. *)

(* An avatar that is listed, and for which a download URL is signed, has   *)
(* its object, whatever the jobs removed on the ground of earlier reads.   *)
ShownHasObject == \A i \in Ids : Shown(i) => i \in objects

(* "preventing race condition when user uploads avatars concurrently": a   *)
(* user never has more than Limit avatars.  A softly deleted user, whose   *)
(* row lockUserForUpdate does not find, is not held to it.                 *)
AtMostLimit == \A u \in Users : Live(u) => Cardinality(ShownOf(u)) <= Limit

(* The object of a refused, failed or crashed upload, or of a deleted      *)
(* avatar, is removed in the end, if its user is one of the first batch    *)
(* and stays.                                                              *)
Orphan(i) == i \in objects /\ pc[i] = "done" /\ ~Shown(i)

OrphansGo ==
    \A i \in Ids :
        Orphan(i) ~> i \notin objects \/ owner[i] \notin FirstBatch

(* What users see of all this is a gallery. *)
Gallery ==
    INSTANCE AvatarGallery WITH
        shown <- [u \in Users |-> ShownOf(u)],
        used <- {i \in Ids : row[i] # "none"}
GallerySpec == Gallery!Spec
-----------------------------------------------------------------------------
(* The inductive invariant. *)

(* A request in its transaction holds the user, unless the user is deleted; *)
(* past the count it has left room for one avatar.                         *)
Counting(i) == pc[i] \in {"count", "save", "commit"}
Saving(i) == pc[i] \in {"save", "commit"}

LockOK == \A i \in Ids :
    Counting(i) /\ Live(owner[i]) => userLock[owner[i]] = i

RoomOK == \A i \in Ids :
    Saving(i) /\ Live(owner[i]) => Cardinality(ShownOf(owner[i])) < Limit

(* A request has its object, which is young, and no row until it is over.  *)
UploadOK == \A i \in Ids :
    /\ pc[i] = "stored" \/ Counting(i) => i \in objects
    /\ pc[i] # "done" => i \notin old /\ row[i] = "none" /\ i \notin links
    /\ i \in expired => row[i] = "deleted"
    /\ i \in links => row[i] # "none"
    /\ pc[i] = "commit" => status[owner[i]] # "purged"
    /\ i \in links => status[owner[i]] # "purged"

(* What a job is about to remove is not shown, and will not be again. *)
JobOK == \A j \in Jobs :
    /\ jpc[j] = "remove" => pc[at[j]] = "done" /\ ~Shown(at[j]) /\ left[j] # 0
    /\ j \in HardDeleteJobs => files[j] \subseteq expired

IndInv ==
    /\ TypeOK /\ LockOK /\ RoomOK /\ UploadOK /\ JobOK
    /\ ShownHasObject /\ AtMostLimit
=============================================================================
